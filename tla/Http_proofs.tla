---------------------------- MODULE Http_proofs -----------------------------
(***************************************************************************)
(* Proofs about the way of a request and its response: IoBuffer for any    *)
(* sizes, HttpServer for any sequence of requests and any division of the  *)
(* input and of the output.                                                *)
(***************************************************************************)
EXTENDS IoBuffer, HttpServer, SeqLemmas

-----------------------------------------------------------------------------
(***************************************************************************)
(* IoBuffer                                                                *)
(***************************************************************************)

\* What every operation relies on and keeps.  The last conjunct is what the
\* type invariant lacks: Seek resets both indices to kCheapPrepend without a
\* look at the vector, so the vector must never be shorter than that.
WellFormed(x) ==
    /\ x \in Buffers
    /\ x.reader <= x.writer /\ x.writer <= Len(x.mem)
    /\ CheapPrepend <= Len(x.mem)

IInv == WellFormed(b) /\ moved \in Seq(Bytes)

-----------------------------------------------------------------------------
(* The helpers on byte vectors.                                            *)

\* resize fills with n zero bytes.
LEMMA FillIsData ==
    ASSUME NEW n \in Nat
    PROVE  Fill(n) \in Seq(Bytes) /\ Len(Fill(n)) = n
<1>1. Fill(n) \in [1..n -> Bytes]
  BY SizeAssumption DEF Fill
<1> QED
  BY <1>1, FunctionIsSeq

\* A copy that ends inside the vector changes the bytes it covers, no others,
\* and not the length.
LEMMA OverwriteBytes ==
    ASSUME NEW mem \in Seq(Bytes), NEW at \in Nat, NEW d \in Seq(Bytes),
           at + Len(d) <= Len(mem)
    PROVE  /\ Overwrite(mem, at, d) \in Seq(Bytes)
           /\ Len(Overwrite(mem, at, d)) = Len(mem)
           /\ \A i \in 1..Len(mem) : Overwrite(mem, at, d)[i] =
                IF i > at /\ i <= at + Len(d) THEN d[i - at] ELSE mem[i]
<1>1. /\ Len(mem) \in Nat /\ mem \in [1..Len(mem) -> Bytes]
      /\ Len(d) \in Nat /\ d \in [1..Len(d) -> Bytes]
  BY LenProperties
<1>2. ASSUME NEW i \in 1..Len(mem)
      PROVE  (IF i > at /\ i <= at + Len(d) THEN d[i - at] ELSE mem[i]) \in Bytes
  <2>1. CASE i > at /\ i <= at + Len(d)
    <3>1. i - at \in 1..Len(d)
      BY <1>1, <1>2, <2>1
    <3> QED
      BY <1>1, <2>1, <3>1
  <2>2. CASE ~(i > at /\ i <= at + Len(d))
    BY <1>1, <1>2, <2>2
  <2> QED
    BY <2>1, <2>2
<1>3. Overwrite(mem, at, d) \in [1..Len(mem) -> Bytes]
  BY <1>2 DEF Overwrite
<1> QED
  BY <1>1, <1>3, FunctionIsSeq DEF Overwrite

\* A record of a vector and two indices is a buffer.
LEMMA BufferRecord ==
    \A m \in Seq(Bytes), r \in Nat, w \in Nat :
        [mem |-> m, reader |-> r, writer |-> w] \in Buffers
BY DEF Buffers

\* The readable bytes of a well-formed buffer.
LEMMA ContentBytes ==
    ASSUME NEW x, WellFormed(x)
    PROVE  /\ x.mem \in Seq(Bytes) /\ x.reader \in Nat /\ x.writer \in Nat
           /\ Len(x.mem) \in Nat
           /\ Content(x) \in Seq(Bytes)
           /\ Len(Content(x)) = ReadableBytes(x) /\ ReadableBytes(x) \in Nat
           /\ \A i \in 1..ReadableBytes(x) : Content(x)[i] = x.mem[x.reader + i]
<1>1. /\ x.mem \in Seq(Bytes) /\ x.reader \in Nat /\ x.writer \in Nat
      /\ x.reader <= x.writer /\ x.writer <= Len(x.mem)
  BY DEF WellFormed, Buffers
<1>2. Len(x.mem) \in Nat
  BY <1>1, LenProperties
<1>3. /\ SubSeq(x.mem, x.reader + 1, x.writer) \in Seq(Bytes)
      /\ Len(SubSeq(x.mem, x.reader + 1, x.writer)) = x.writer - x.reader
      /\ \A i \in 1..(x.writer - x.reader) :
            SubSeq(x.mem, x.reader + 1, x.writer)[i] = x.mem[x.reader + i]
  BY <1>1, Slice, ZenonT(30)
<1>4. x.writer - x.reader \in Nat
  BY <1>1
<1> QED
  BY <1>1, <1>2, <1>3, <1>4, Zenon DEF Content, ReadableBytes

-----------------------------------------------------------------------------
(* The private helpers of the class.                                       *)

\* compact moves the content towards the front and loses none of it.
LEMMA CompactKeepsContent ==
    ASSUME NEW x, WellFormed(x), CheapPrepend <= x.reader
    PROVE  /\ WellFormed(Compact(x))
           /\ Content(Compact(x)) = Content(x)
           /\ WritableBytes(Compact(x)) = WritableBytes(x) + x.reader - CheapPrepend
<1> DEFINE m == Overwrite(x.mem, CheapPrepend, Content(x))
           w == CheapPrepend + ReadableBytes(x)
<1>x. /\ x.mem \in Seq(Bytes) /\ x.reader \in Nat /\ x.writer \in Nat
      /\ Len(x.mem) \in Nat /\ CheapPrepend \in Nat
      /\ Content(x) \in Seq(Bytes)
      /\ Len(Content(x)) = ReadableBytes(x) /\ ReadableBytes(x) \in Nat
  BY ContentBytes, SizeAssumption
<1>n. /\ ReadableBytes(x) = x.writer - x.reader
      /\ x.reader <= x.writer /\ x.writer <= Len(x.mem)
  BY DEF ReadableBytes, WellFormed
<1>1. CheapPrepend + Len(Content(x)) <= Len(x.mem)
  BY <1>x, <1>n
<1>2. /\ m \in Seq(Bytes) /\ Len(m) = Len(x.mem)
      /\ \A i \in 1..Len(x.mem) : m[i] =
            IF i > CheapPrepend /\ i <= CheapPrepend + Len(Content(x))
            THEN Content(x)[i - CheapPrepend] ELSE x.mem[i]
  BY <1>x, <1>1, OverwriteBytes, Zenon
<1> HIDE DEF m
<1>3. Compact(x) = [mem |-> m, reader |-> CheapPrepend, writer |-> w]
  BY DEF Compact, m
<1>f. /\ Compact(x).mem = m /\ Compact(x).reader = CheapPrepend
      /\ Compact(x).writer = w
  BY <1>3
<1>4. w \in Nat /\ CheapPrepend <= w /\ w <= Len(m) /\ w - CheapPrepend = ReadableBytes(x)
  BY <1>x, <1>1, <1>2
<1> HIDE DEF w
<1>5. WellFormed(Compact(x))
  BY <1>x, <1>2, <1>3, <1>4 DEF WellFormed, Buffers
<1>6. Content(Compact(x)) = Content(x)
  <2>1. Content(Compact(x)) = SubSeq(m, CheapPrepend + 1, w)
    BY <1>f, Zenon DEF Content
  <2>2. /\ SubSeq(m, CheapPrepend + 1, w) \in Seq(Bytes)
        /\ Len(SubSeq(m, CheapPrepend + 1, w)) = ReadableBytes(x)
        /\ \A i \in 1..ReadableBytes(x) :
              SubSeq(m, CheapPrepend + 1, w)[i] = m[CheapPrepend + i]
    BY <1>x, <1>2, <1>4, Slice
  <2>3. \A i \in 1..ReadableBytes(x) : m[CheapPrepend + i] = Content(x)[i]
    <3> TAKE i \in 1..ReadableBytes(x)
    <3>1. PICK j \in 1..Len(x.mem) :
              /\ j = CheapPrepend + i /\ j - CheapPrepend = i
              /\ j > CheapPrepend /\ j <= CheapPrepend + Len(Content(x))
      BY <1>x, <1>1
    <3>2. m[j] = Content(x)[j - CheapPrepend]
      BY <1>2, <3>1, Zenon
    <3> QED
      BY <3>1, <3>2, Zenon
  <2> QED
    BY <1>x, <2>1, <2>2, <2>3, SeqEqual
<1>7. WritableBytes(Compact(x)) = WritableBytes(x) + x.reader - CheapPrepend
  <2>1. WritableBytes(Compact(x)) = Len(m) - w /\ WritableBytes(x) = Len(x.mem) - x.writer
    BY <1>f DEF WritableBytes
  <2>2. Len(m) = Len(x.mem)
    BY <1>2
  <2> QED
    BY <1>x, <1>n, <2>1, <2>2 DEF w
<1> QED
  BY <1>5, <1>6, <1>7

\* resize leaves the content alone and makes room for n bytes.
LEMMA GrowKeepsContent ==
    ASSUME NEW x, WellFormed(x), NEW n \in Nat, WritableBytes(x) < n,
           NEW y, y = [x EXCEPT !.mem = @ \o Fill(x.writer + n - Len(@))]
    PROVE  WellFormed(y) /\ Content(y) = Content(x) /\ WritableBytes(y) = n
<1> DEFINE k == x.writer + n - Len(x.mem)
           m == x.mem \o Fill(k)
<1>x. /\ x.mem \in Seq(Bytes) /\ x.reader \in Nat /\ x.writer \in Nat
      /\ Len(x.mem) \in Nat /\ CheapPrepend \in Nat /\ x \in Buffers
      /\ x.reader <= x.writer /\ x.writer <= Len(x.mem) /\ CheapPrepend <= Len(x.mem)
  BY ContentBytes, SizeAssumption DEF WellFormed
<1>1. k \in Nat /\ Len(x.mem) + k = x.writer + n
  BY <1>x DEF WritableBytes
<1>2. y = [mem |-> m, reader |-> x.reader, writer |-> x.writer]
  BY <1>x DEF Buffers
<1>f. y.mem = m /\ y.reader = x.reader /\ y.writer = x.writer
  BY <1>2
<1> HIDE DEF k
<1>3. Fill(k) \in Seq(Bytes) /\ Len(Fill(k)) = k
  BY <1>1, FillIsData
<1>4. /\ m \in Seq(Bytes) /\ Len(m) = Len(x.mem) + k
      /\ \A i \in 1..(Len(x.mem) + Len(Fill(k))) : m[i] =
              IF i <= Len(x.mem) THEN x.mem[i] ELSE Fill(k)[i - Len(x.mem)]
  BY <1>x, <1>3, ConcatProperties, Zenon
<1> HIDE DEF m
<1>5. \A i \in 1..Len(x.mem) : m[i] = x.mem[i]
  <2>1. \A i \in 1..Len(x.mem) : i \in 1..(Len(x.mem) + Len(Fill(k))) /\ i <= Len(x.mem)
    BY <1>x, <1>1, <1>3
  <2> QED
    BY <1>4, <2>1, Zenon
<1>6. WellFormed(y)
  <2> HIDE DEF m
  <2>1. y \in Buffers
    <3>1. m \in Seq(Bytes) /\ x.reader \in Nat /\ x.writer \in Nat
      BY <1>x, <1>4, Zenon
    <3>2. [mem |-> m, reader |-> x.reader, writer |-> x.writer] \in Buffers
      BY <3>1, BufferRecord, Zenon
    <3> QED
      BY <1>2, <3>2, Zenon
  <2>2. x.writer <= Len(m) /\ CheapPrepend <= Len(m)
    BY <1>x, <1>1, <1>4
  <2> QED
    BY <1>x, <1>f, <2>1, <2>2, Zenon DEF WellFormed
<1>7. Content(y) = Content(x)
  <2> DEFINE r == x.reader
             w == x.writer
             mem == x.mem
  <2>1. Content(y) = SubSeq(m, r + 1, w) /\ Content(x) = SubSeq(mem, r + 1, w)
    BY <1>f, Zenon DEF Content
  <2>2. /\ r \in Nat /\ w \in Nat /\ mem \in Seq(Bytes) /\ m \in Seq(Bytes)
        /\ r <= w /\ w <= Len(mem) /\ w <= Len(m)
        /\ \A i \in 1..Len(mem) : m[i] = mem[i]
    BY <1>x, <1>1, <1>4, <1>5
  <2> HIDE DEF r, w, mem
  <2>3. /\ SubSeq(m, r + 1, w) \in Seq(Bytes) /\ SubSeq(mem, r + 1, w) \in Seq(Bytes)
        /\ Len(SubSeq(m, r + 1, w)) = w - r /\ Len(SubSeq(mem, r + 1, w)) = w - r
        /\ \A i \in 1..(w - r) : /\ SubSeq(m, r + 1, w)[i] = m[r + i]
                                 /\ SubSeq(mem, r + 1, w)[i] = mem[r + i]
    BY <2>2, Slice, SMTT(20)
  <2>4. \A i \in 1..(w - r) : r + i \in 1..Len(mem)
    BY <2>2, LenProperties
  <2>5. \A i \in 1..(w - r) : SubSeq(m, r + 1, w)[i] = SubSeq(mem, r + 1, w)[i]
    BY <2>2, <2>3, <2>4, Zenon
  <2> QED
    BY <2>1, <2>3, <2>5, SeqEqual
<1>8. WritableBytes(y) = n
  <2>1. Len(m) - x.writer = n
    BY <1>x, <1>1, <1>4
  <2> QED
    BY <1>f, <2>1, Zenon DEF WritableBytes
<1> QED
  BY <1>6, <1>7, <1>8

\* makeSpace: room for n bytes, the same content, and a compaction only when
\* the reader index is past the prepend area.
LEMMA MakeSpaceWorks ==
    ASSUME NEW x, WellFormed(x), NEW n \in Nat, WritableBytes(x) < n
    PROVE  /\ WellFormed(MakeSpace(x, n))
           /\ Content(MakeSpace(x, n)) = Content(x)
           /\ WritableBytes(MakeSpace(x, n)) >= n
           /\ ~MustGrow(x, n) => CheapPrepend < x.reader
<1>x. /\ x.mem \in Seq(Bytes) /\ x.reader \in Nat /\ x.writer \in Nat
      /\ Len(x.mem) \in Nat /\ CheapPrepend \in Nat
      /\ WritableBytes(x) \in Nat
  BY ContentBytes, SizeAssumption DEF WellFormed, WritableBytes
<1>1. CASE MustGrow(x, n)
  <2>1. MakeSpace(x, n) = [x EXCEPT !.mem = @ \o Fill(x.writer + n - Len(@))]
    BY <1>1 DEF MakeSpace
  <2>2. /\ WellFormed(MakeSpace(x, n)) /\ Content(MakeSpace(x, n)) = Content(x)
        /\ WritableBytes(MakeSpace(x, n)) = n
    BY <2>1, GrowKeepsContent
  <2> QED
    BY <1>1, <2>2
<1>2. CASE ~MustGrow(x, n)
  <2>1. CheapPrepend < x.reader /\ WritableBytes(x) + x.reader - CheapPrepend >= n
    BY <1>2, <1>x DEF MustGrow, PrependBytes
  <2>2. MakeSpace(x, n) = Compact(x)
    BY <1>2 DEF MakeSpace
  <2> QED
    BY <1>x, <2>1, <2>2, CompactKeepsContent
<1> QED
  BY <1>1, <1>2

-----------------------------------------------------------------------------
(* Copying next to the content, and parts of it.                           *)

\* Bytes copied behind the slice from r to w extend it at its end.
LEMMA CopyBehind ==
    ASSUME NEW mem \in Seq(Bytes), NEW d \in Seq(Bytes), NEW r \in Nat, NEW w \in Nat,
           r <= w, w + Len(d) <= Len(mem)
    PROVE  SubSeq(Overwrite(mem, w, d), r + 1, w + Len(d)) = SubSeq(mem, r + 1, w) \o d
<1> DEFINE m == Overwrite(mem, w, d)
           s == SubSeq(m, r + 1, w + Len(d))
           c == SubSeq(mem, r + 1, w)
<1>l. Len(mem) \in Nat /\ Len(d) \in Nat
  BY LenProperties
<1>1. /\ m \in Seq(Bytes) /\ Len(m) = Len(mem)
      /\ \A i \in 1..Len(mem) :
            m[i] = IF i > w /\ i <= w + Len(d) THEN d[i - w] ELSE mem[i]
  BY OverwriteBytes
<1> HIDE DEF m
<1>2. w + Len(d) \in Nat /\ r <= w + Len(d) /\ w <= Len(mem) /\ w + Len(d) <= Len(m)
  BY <1>l, <1>1
<1>3. /\ s \in Seq(Bytes) /\ Len(s) = w + Len(d) - r
      /\ \A i \in 1..(w + Len(d) - r) : s[i] = m[r + i]
  BY <1>1, <1>2, Slice
<1>4. /\ c \in Seq(Bytes) /\ Len(c) = w - r
      /\ \A i \in 1..(w - r) : c[i] = mem[r + i]
  BY <1>2, Slice
<1> HIDE DEF s, c
<1>5. /\ c \o d \in Seq(Bytes) /\ Len(c \o d) = Len(c) + Len(d)
      /\ \A i \in 1..(Len(c) + Len(d)) :
            (c \o d)[i] = IF i <= Len(c) THEN c[i] ELSE d[i - Len(c)]
  BY <1>4, ConcatProperties
<1>6. Len(s) = Len(c) + Len(d)
  BY <1>l, <1>3, <1>4
<1>7. ASSUME NEW i \in 1..Len(s) PROVE s[i] = (c \o d)[i]
  <2>1. PICK j \in 1..Len(mem) : j = r + i
    BY <1>l, <1>2, <1>3, <1>7
  <2>2. i \in 1..(w + Len(d) - r) /\ i \in 1..(Len(c) + Len(d)) /\ s[i] = m[j]
    BY <1>3, <1>6, <1>7, <2>1
  <2>3. CASE j <= w
    <3>1. i \in 1..(w - r) /\ i <= Len(c) /\ ~(j > w)
      BY <1>4, <2>1, <2>3
    <3>2. m[j] = mem[j] /\ c[i] = mem[r + i] /\ (c \o d)[i] = c[i]
      BY <1>1, <1>4, <1>5, <2>2, <3>1, Zenon
    <3> QED
      BY <2>1, <2>2, <3>2, Zenon
  <2>4. CASE j > w
    <3>1. /\ j <= w + Len(d) /\ ~(i <= Len(c)) /\ i - Len(c) = j - w
      BY <1>l, <1>3, <1>4, <1>7, <2>1, <2>4
    <3>2. m[j] = d[j - w] /\ (c \o d)[i] = d[i - Len(c)]
      BY <1>1, <1>5, <2>2, <2>4, <3>1, Zenon
    <3> QED
      BY <2>2, <3>1, <3>2, Zenon
  <2>5. j <= w \/ j > w
    BY <2>1, <1>l
  <2> QED
    BY <2>3, <2>4, <2>5
<1>8. s = c \o d
  BY <1>3, <1>5, <1>6, <1>7, SeqEqual
<1> QED
  BY <1>8 DEF s, c, m

\* Bytes copied in front of the slice extend it at its beginning.
LEMMA CopyInFront ==
    ASSUME NEW mem \in Seq(Bytes), NEW d \in Seq(Bytes), NEW r \in Nat, NEW w \in Nat,
           r + Len(d) <= w, w <= Len(mem)
    PROVE  SubSeq(Overwrite(mem, r, d), r + 1, w) = d \o SubSeq(mem, r + Len(d) + 1, w)
<1> DEFINE m == Overwrite(mem, r, d)
           s == SubSeq(m, r + 1, w)
           c == SubSeq(mem, r + Len(d) + 1, w)
<1>l. Len(mem) \in Nat /\ Len(d) \in Nat /\ r + Len(d) \in Nat /\ r <= w
  BY LenProperties
<1>0. r + Len(d) <= Len(mem)
  BY <1>l
<1>1. /\ m \in Seq(Bytes) /\ Len(m) = Len(mem)
      /\ \A i \in 1..Len(mem) :
            m[i] = IF i > r /\ i <= r + Len(d) THEN d[i - r] ELSE mem[i]
  BY <1>0, OverwriteBytes
<1> HIDE DEF m
<1>3. /\ s \in Seq(Bytes) /\ Len(s) = w - r
      /\ \A i \in 1..(w - r) : s[i] = m[r + i]
  BY <1>l, <1>1, Slice
<1>4. /\ c \in Seq(Bytes) /\ Len(c) = w - (r + Len(d))
      /\ \A i \in 1..(w - (r + Len(d))) : c[i] = mem[r + Len(d) + i]
  BY <1>l, Slice
<1> HIDE DEF s, c
<1>5. /\ d \o c \in Seq(Bytes) /\ Len(d \o c) = Len(d) + Len(c)
      /\ \A i \in 1..(Len(d) + Len(c)) :
            (d \o c)[i] = IF i <= Len(d) THEN d[i] ELSE c[i - Len(d)]
  BY <1>4, ConcatProperties
<1>6. Len(s) = Len(d) + Len(c)
  BY <1>l, <1>3, <1>4
<1>7. ASSUME NEW i \in 1..Len(s) PROVE s[i] = (d \o c)[i]
  <2>1. PICK j \in 1..Len(mem) : j = r + i
    BY <1>l, <1>3, <1>7
  <2>2. i \in 1..(w - r) /\ i \in 1..(Len(d) + Len(c)) /\ s[i] = m[j]
    BY <1>3, <1>6, <1>7, <2>1
  <2>3. CASE i <= Len(d)
    <3>1. j > r /\ j <= r + Len(d) /\ j - r = i
      BY <1>l, <2>1, <2>2, <2>3
    <3>2. m[j] = d[j - r] /\ (d \o c)[i] = d[i]
      BY <1>1, <1>5, <2>2, <2>3, <3>1, Zenon
    <3> QED
      BY <2>2, <3>1, <3>2, Zenon
  <2>4. CASE ~(i <= Len(d))
    <3>0. /\ i - Len(d) \in 1..(w - (r + Len(d)))
          /\ r + Len(d) + (i - Len(d)) = j /\ ~(j <= r + Len(d))
      BY <1>l, <2>1, <2>2, <2>4
    <3>1. PICK k \in 1..(w - (r + Len(d))) :
              k = i - Len(d) /\ r + Len(d) + k = j /\ ~(j <= r + Len(d))
      BY <3>0, Zenon
    <3>2. m[j] = mem[j] /\ (d \o c)[i] = c[i - Len(d)] /\ c[k] = mem[r + Len(d) + k]
      BY <1>1, <1>4, <1>5, <2>2, <2>4, <3>1, Zenon
    <3> QED
      BY <2>2, <3>1, <3>2, Zenon
  <2> QED
    BY <2>3, <2>4
<1>8. s = d \o c
  BY <1>3, <1>5, <1>6, <1>7, SeqEqual
<1> QED
  BY <1>8 DEF s, c, m

\* The first n elements of a slice and the others are slices themselves.
LEMMA PartsOfSlice ==
    ASSUME NEW mem \in Seq(Bytes), NEW r \in Nat, NEW w \in Nat, NEW n \in Nat,
           r + n <= w, w <= Len(mem)
    PROVE  /\ SubSeq(SubSeq(mem, r + 1, w), 1, n) = SubSeq(mem, r + 1, r + n)
           /\ SubSeq(SubSeq(mem, r + 1, w), n + 1, Len(SubSeq(mem, r + 1, w)))
                = SubSeq(mem, r + n + 1, w)
<1> DEFINE c == SubSeq(mem, r + 1, w)
<1>l. /\ Len(mem) \in Nat /\ r + n \in Nat /\ 0 \in Nat /\ 0 <= n /\ r <= w
      /\ r <= r + n /\ r + n <= Len(mem)
  BY LenProperties
<1>1. /\ c \in Seq(Bytes) /\ Len(c) = w - r
      /\ \A i \in 1..(w - r) : c[i] = mem[r + i]
  BY <1>l, Slice
<1> HIDE DEF c
<1>2. n <= Len(c) /\ Len(c) \in Nat
  BY <1>l, <1>1
<1>3. SubSeq(c, 1, n) = SubSeq(mem, r + 1, r + n)
  <2> DEFINE s == SubSeq(c, 0 + 1, n)
             t == SubSeq(mem, r + 1, r + n)
  <2>1. /\ s \in Seq(Bytes) /\ Len(s) = n - 0
        /\ \A i \in 1..(n - 0) : s[i] = c[0 + i]
    BY <1>l, <1>1, <1>2, Slice
  <2>2. /\ t \in Seq(Bytes) /\ Len(t) = r + n - r
        /\ \A i \in 1..(r + n - r) : t[i] = mem[r + i]
    BY <1>l, Slice
  <2> HIDE DEF s, t
  <2>3. Len(s) = n /\ Len(t) = n
    BY <2>1, <2>2
  <2>4. ASSUME NEW i \in 1..n PROVE s[i] = t[i]
    <3>1. i \in 1..(n - 0) /\ i \in 1..(r + n - r) /\ i \in 1..(w - r) /\ 0 + i = i
      BY <1>l, <2>4
    <3> QED
      BY <1>1, <2>1, <2>2, <3>1, Zenon
  <2>5. s = t
    BY <2>1, <2>2, <2>3, <2>4, SeqEqual
  <2>6. 0 + 1 = 1
    OBVIOUS
  <2> QED
    BY <2>5, <2>6, Zenon DEF s, t
<1>4. SubSeq(c, n + 1, Len(c)) = SubSeq(mem, r + n + 1, w)
  <2> DEFINE s == SubSeq(c, n + 1, Len(c))
             t == SubSeq(mem, r + n + 1, w)
  <2>1. /\ s \in Seq(Bytes) /\ Len(s) = Len(c) - n
        /\ \A i \in 1..(Len(c) - n) : s[i] = c[n + i]
    BY <1>1, <1>2, Slice
  <2>2. /\ t \in Seq(Bytes) /\ Len(t) = w - (r + n)
        /\ \A i \in 1..(w - (r + n)) : t[i] = mem[r + n + i]
    BY <1>l, Slice
  <2> HIDE DEF s, t
  <2>3. Len(s) = Len(t)
    BY <1>l, <1>1, <2>1, <2>2
  <2>4. ASSUME NEW i \in 1..Len(s) PROVE s[i] = t[i]
    <3>1. PICK j \in 1..(w - r) : j = n + i /\ r + j = r + n + i
      BY <1>l, <1>1, <2>1, <2>4
    <3>2. i \in 1..(Len(c) - n) /\ i \in 1..(w - (r + n))
      BY <1>l, <1>1, <2>1, <2>4
    <3>3. s[i] = c[j] /\ t[i] = mem[r + j] /\ c[j] = mem[r + j]
      BY <1>1, <2>1, <2>2, <3>1, <3>2, Zenon
    <3> QED
      BY <3>3, Zenon
  <2>5. s = t
    BY <2>1, <2>2, <2>3, <2>4, SeqEqual
  <2> QED
    BY <2>5 DEF s, t
<1> QED
  BY <1>3, <1>4 DEF c

-----------------------------------------------------------------------------
(* The operations on a buffer.                                             *)

\* wpeek and wseek: what fits behind the writer index is appended.
LEMMA CopyInAppends ==
    ASSUME NEW x, WellFormed(x), NEW d \in Seq(Bytes), Len(d) <= WritableBytes(x)
    PROVE  /\ WellFormed(CopyIn(x, d)) /\ Content(CopyIn(x, d)) = Content(x) \o d
           /\ WritableBytes(CopyIn(x, d)) = WritableBytes(x) - Len(d)
<1> DEFINE m == Overwrite(x.mem, x.writer, d)
           w == x.writer + Len(d)
<1>x. /\ x.mem \in Seq(Bytes) /\ x.reader \in Nat /\ x.writer \in Nat
      /\ Len(x.mem) \in Nat /\ CheapPrepend \in Nat /\ x \in Buffers
      /\ x.reader <= x.writer /\ x.writer <= Len(x.mem) /\ CheapPrepend <= Len(x.mem)
  BY ContentBytes, SizeAssumption DEF WellFormed
<1>l. Len(d) \in Nat
  BY LenProperties
<1>1. w <= Len(x.mem) /\ w \in Nat /\ x.reader <= w
  BY <1>x, <1>l DEF WritableBytes
<1>2. CopyIn(x, d) = [mem |-> m, reader |-> x.reader, writer |-> w]
  <2>1. CopyIn(x, d) = [x EXCEPT !.mem = m, !.writer = w]
    BY DEF CopyIn
  <2> HIDE DEF m, w
  <2>2. CopyIn(x, d) \in [mem : {m}, reader : {x.reader}, writer : {w}]
    BY <1>x, <2>1 DEF Buffers
  <2> QED
    BY <2>2
<1>3. m \in Seq(Bytes) /\ Len(m) = Len(x.mem)
  BY <1>x, <1>1, OverwriteBytes, Zenon
<1>4. SubSeq(m, x.reader + 1, w) = SubSeq(x.mem, x.reader + 1, x.writer) \o d
  BY <1>x, <1>1, CopyBehind, ZenonT(30)
<1> HIDE DEF m
<1>f. /\ CopyIn(x, d).mem = m /\ CopyIn(x, d).reader = x.reader
      /\ CopyIn(x, d).writer = w
  BY <1>2
<1>5. WellFormed(CopyIn(x, d))
  <2>1. CopyIn(x, d) \in Buffers
    BY <1>x, <1>1, <1>2, <1>3, BufferRecord, Zenon
  <2> QED
    BY <1>x, <1>1, <1>3, <1>f, <2>1, Zenon DEF WellFormed
<1>6. Content(CopyIn(x, d)) = Content(x) \o d
  BY <1>4, <1>f, Zenon DEF Content
<1>7. WritableBytes(CopyIn(x, d)) = WritableBytes(x) - Len(d)
  <2>1. Len(x.mem) - w = Len(x.mem) - x.writer - Len(d)
    BY <1>x, <1>l
  <2> QED
    BY <1>3, <1>f, <2>1, Zenon DEF WritableBytes
<1> QED
  BY <1>5, <1>6, <1>7

\* Put appends, whatever room there is.
LEMMA PutAppends ==
    ASSUME NEW x, WellFormed(x), NEW d \in Seq(Bytes)
    PROVE  WellFormed(PutInto(x, d)) /\ Content(PutInto(x, d)) = Content(x) \o d
<1>l. Len(d) \in Nat /\ WritableBytes(x) \in Nat
  BY LenProperties, ContentBytes DEF WellFormed, WritableBytes
<1>1. CASE WritableBytes(x) < Len(d)
  <2> DEFINE y == MakeSpace(x, Len(d))
  <2>1. /\ WellFormed(y) /\ Content(y) = Content(x) /\ WritableBytes(y) >= Len(d)
    BY <1>l, <1>1, MakeSpaceWorks
  <2>2. WritableBytes(y) \in Int
    BY <2>1, ContentBytes DEF WritableBytes
  <2>3. PutInto(x, d) = CopyIn(y, d)
    BY <1>1 DEF PutInto
  <2> HIDE DEF y
  <2>4. Len(d) <= WritableBytes(y)
    BY <1>l, <2>1, <2>2
  <2> QED
    BY <2>1, <2>3, <2>4, CopyInAppends, Zenon
<1>2. CASE ~(WritableBytes(x) < Len(d))
  <2>1. PutInto(x, d) = CopyIn(x, d)
    BY <1>2 DEF PutInto
  <2>2. Len(d) <= WritableBytes(x)
    BY <1>l, <1>2
  <2> QED
    BY <2>1, <2>2, CopyInAppends, Zenon
<1> QED
  BY <1>1, <1>2

\* Seek drops bytes from the front; at or beyond the end of the content it
\* drops all of them.
LEMMA SeekDrops ==
    ASSUME NEW x, WellFormed(x), NEW n \in Nat
    PROVE  /\ WellFormed(SeekIn(x, n))
           /\ n <= ReadableBytes(x) =>
                Content(SeekIn(x, n)) = SubSeq(Content(x), n + 1, Len(Content(x)))
           /\ n > ReadableBytes(x) =>
                SeekIn(x, n) = SeekIn(x, ReadableBytes(x))
<1>x. /\ x.mem \in Seq(Bytes) /\ x.reader \in Nat /\ x.writer \in Nat
      /\ Len(x.mem) \in Nat /\ CheapPrepend \in Nat /\ x \in Buffers
      /\ x.reader <= x.writer /\ x.writer <= Len(x.mem) /\ CheapPrepend <= Len(x.mem)
      /\ ReadableBytes(x) \in Nat /\ ReadableBytes(x) = x.writer - x.reader
      /\ Len(Content(x)) = ReadableBytes(x)
  BY ContentBytes, SizeAssumption DEF WellFormed, ReadableBytes
<1>1. CASE n < ReadableBytes(x)
  <2>1. SeekIn(x, n) = [mem |-> x.mem, reader |-> x.reader + n, writer |-> x.writer]
    BY <1>x, <1>1 DEF SeekIn, Buffers
  <2>f. /\ SeekIn(x, n).mem = x.mem /\ SeekIn(x, n).reader = x.reader + n
        /\ SeekIn(x, n).writer = x.writer
    BY <2>1
  <2>2. x.reader + n \in Nat /\ x.reader + n <= x.writer
    BY <1>x, <1>1
  <2>3. SeekIn(x, n) \in Buffers
    BY <1>x, <2>1, <2>2, BufferRecord, Zenon
  <2>4. WellFormed(SeekIn(x, n))
    BY <1>x, <2>2, <2>3, <2>f, Zenon DEF WellFormed
  <2>5. SubSeq(Content(x), n + 1, Len(Content(x))) = SubSeq(x.mem, x.reader + n + 1, x.writer)
    <3> DEFINE mem == x.mem
               r == x.reader
               w == x.writer
    <3>1. /\ mem \in Seq(Bytes) /\ r \in Nat /\ w \in Nat /\ r + n <= w /\ w <= Len(mem)
          /\ Content(x) = SubSeq(mem, r + 1, w)
      BY <1>x, <2>2 DEF Content
    <3> HIDE DEF mem, r, w
    <3>2. SubSeq(SubSeq(mem, r + 1, w), n + 1, Len(SubSeq(mem, r + 1, w)))
            = SubSeq(mem, r + n + 1, w)
      BY <3>1, PartsOfSlice
    <3> QED
      BY <3>1, <3>2, Zenon DEF mem, r, w
  <2>6. Content(SeekIn(x, n)) = SubSeq(x.mem, x.reader + n + 1, x.writer)
    BY <2>f, Zenon DEF Content
  <2>7. ~(n > ReadableBytes(x))
    BY <1>x, <1>1
  <2> QED
    BY <2>4, <2>5, <2>6, <2>7, Zenon
<1>2. CASE ~(n < ReadableBytes(x))
  <2> DEFINE e == [mem |-> x.mem, reader |-> CheapPrepend, writer |-> CheapPrepend]
  <2>1. SeekIn(x, n) = e /\ SeekIn(x, ReadableBytes(x)) = e
    <3>1. ~(ReadableBytes(x) < ReadableBytes(x))
      BY <1>x
    <3> DEFINE y == [x EXCEPT !.reader = CheapPrepend, !.writer = CheapPrepend]
    <3>2. y \in [mem : {x.mem}, reader : {CheapPrepend}, writer : {CheapPrepend}]
      BY <1>x DEF Buffers
    <3>3. SeekIn(x, n) = y /\ SeekIn(x, ReadableBytes(x)) = y
      BY <1>2, <3>1, Zenon DEF SeekIn
    <3> HIDE DEF y
    <3>4. y = e
      BY <3>2
    <3> QED
      BY <3>3, <3>4
  <2>f. e.mem = x.mem /\ e.reader = CheapPrepend /\ e.writer = CheapPrepend
    OBVIOUS
  <2>2. e \in Buffers
    BY <1>x, BufferRecord, Zenon
  <2> HIDE DEF e
  <2>3. CheapPrepend <= CheapPrepend /\ CheapPrepend < CheapPrepend + 1
    BY <1>x
  <2>4. WellFormed(e)
    BY <1>x, <2>2, <2>3, <2>f, Zenon DEF WellFormed
  <2>5. Content(e) = <<>>
    <3>1. CheapPrepend + 1 \in Int /\ CheapPrepend \in Int
      BY <1>x
    <3>2. SubSeq(x.mem, CheapPrepend + 1, CheapPrepend) = <<>>
      BY <2>3, <3>1, SubSeqEmpty, Zenon
    <3> QED
      BY <2>f, <3>2, Zenon DEF Content
  <2>6. ASSUME n <= ReadableBytes(x)
        PROVE  SubSeq(Content(x), n + 1, Len(Content(x))) = <<>>
    <3>1. n + 1 \in Int /\ Len(Content(x)) \in Int /\ Len(Content(x)) < n + 1
      BY <1>x, <1>2, <2>6
    <3> QED
      BY <3>1, SubSeqEmpty, Zenon
  <2> QED
    BY <2>1, <2>4, <2>5, <2>6, Zenon
<1> QED
  BY <1>1, <1>2, Zenon

\* The constructor makes an empty buffer.
LEMMA NewBufferIsEmpty == WellFormed(NewBuffer) /\ Content(NewBuffer) = <<>>
<1>1. InitialSize + CheapPrepend \in Nat /\ CheapPrepend \in Nat /\ InitialSize \in Nat
  BY SizeAssumption
<1>2. /\ Fill(InitialSize + CheapPrepend) \in Seq(Bytes)
      /\ Len(Fill(InitialSize + CheapPrepend)) = InitialSize + CheapPrepend
  BY <1>1, FillIsData
<1>f. /\ NewBuffer.mem = Fill(InitialSize + CheapPrepend)
      /\ NewBuffer.reader = CheapPrepend /\ NewBuffer.writer = CheapPrepend
  BY DEF NewBuffer
<1>3. NewBuffer \in Buffers
  BY <1>1, <1>2, BufferRecord, Zenon DEF NewBuffer
<1>4. /\ CheapPrepend <= CheapPrepend /\ CheapPrepend < CheapPrepend + 1
      /\ CheapPrepend <= InitialSize + CheapPrepend
      /\ CheapPrepend + 1 \in Int /\ CheapPrepend \in Int
  BY <1>1
<1>5. WellFormed(NewBuffer)
  BY <1>2, <1>3, <1>4, <1>f, Zenon DEF WellFormed
<1>6. SubSeq(Fill(InitialSize + CheapPrepend), CheapPrepend + 1, CheapPrepend) = <<>>
  BY <1>4, SubSeqEmpty, Zenon
<1> QED
  BY <1>5, <1>6, <1>f, Zenon DEF Content

-----------------------------------------------------------------------------
(* The steps of the buffer, and the steps of the queue they are.           *)

\* What an operation has to show: the invariant holds again and the readable
\* bytes changed as a queue's do.
Good == IInv' /\ Queue!Next

\* The three steps of the queue as sufficient conditions: bytes put behind the
\* content, as by Put and the two-part read,
LEMMA StepPutBack ==
    ASSUME WellFormed(b'), moved' \in Seq(Bytes), Content(b') = Content(b) \o moved'
    PROVE  Good
BY DEF Good, IInv, Queue!Next, Queue!PutBack

\* bytes put before it, as by Prepend,
LEMMA StepPutFront ==
    ASSUME WellFormed(b'), moved' \in Seq(Bytes), Content(b') = moved' \o Content(b)
    PROVE  Good
BY DEF Good, IInv, Queue!Next, Queue!PutFront

\* and bytes taken from its front, handed out or dropped, as by Get and Seek.
LEMMA StepTake ==
    ASSUME WellFormed(b), WellFormed(b'), NEW n \in Nat, n <= ReadableBytes(b),
           moved' \in {SubSeq(Content(b), 1, n), <<>>},
           Content(b') = SubSeq(Content(b), n + 1, Len(Content(b)))
    PROVE  Good
<1> DEFINE c == Content(b)
<1>1. c \in Seq(Bytes) /\ Len(c) \in Nat /\ n <= Len(c) /\ n \in 0..Len(c)
  BY ContentBytes
<1>2. Queue!Take
  BY <1>1 DEF Queue!Take
<1>3. moved' \in Seq(Bytes)
  <2> HIDE DEF c
  <2>1. 0 \in Nat /\ 0 <= n /\ 0 + 1 = 1
    OBVIOUS
  <2>2. SubSeq(c, 0 + 1, n) \in Seq(Bytes)
    BY <1>1, <2>1, Slice
  <2>3. <<>> \in Seq(Bytes)
    BY EmptySeq
  <2> QED
    BY <2>1, <2>2, <2>3, Zenon DEF c
<1> QED
  BY <1>2, <1>3 DEF Good, IInv, Queue!Next

\* Put, Append, PutString.
LEMMA PutGood ==
    ASSUME IInv, NEW d \in Seq(Bytes), Put(d)
    PROVE  Good
BY PutAppends, StepPutBack DEF IInv, Put

\* Prepend, within its contract.
LEMMA PrependGood ==
    ASSUME IInv, NEW d \in Seq(Bytes), Prepend(d)
    PROVE  Good
<1> DEFINE r == b.reader - Len(d)
           m == Overwrite(b.mem, r, d)
<1>x. /\ b.mem \in Seq(Bytes) /\ b.reader \in Nat /\ b.writer \in Nat
      /\ Len(b.mem) \in Nat /\ CheapPrepend \in Nat /\ b \in Buffers
      /\ b.reader <= b.writer /\ b.writer <= Len(b.mem) /\ CheapPrepend <= Len(b.mem)
  BY ContentBytes, SizeAssumption DEF IInv, WellFormed
<1>l. Len(d) \in Nat /\ Len(d) <= b.reader
  BY LenProperties DEF Prepend, PrependBytes
<1>1. /\ r \in Nat /\ r + Len(d) = b.reader /\ r + Len(d) <= b.writer
      /\ r + Len(d) <= Len(b.mem) /\ r <= b.writer
  BY <1>x, <1>l
<1>2. b' \in [mem : {m}, reader : {r}, writer : {b.writer}]
  BY <1>x DEF Prepend, Buffers
<1> HIDE DEF r
<1>3. m \in Seq(Bytes) /\ Len(m) = Len(b.mem)
  BY <1>x, <1>1, OverwriteBytes, Zenon
<1>4. SubSeq(m, r + 1, b.writer) = d \o SubSeq(b.mem, b.reader + 1, b.writer)
  <2>1. SubSeq(m, r + 1, b.writer) = d \o SubSeq(b.mem, r + Len(d) + 1, b.writer)
    BY <1>x, <1>1, CopyInFront, ZenonT(30)
  <2> QED
    BY <1>1, <2>1, Zenon
<1> HIDE DEF m
<1>f. b'.mem = m /\ b'.reader = r /\ b'.writer = b.writer
  BY <1>2
<1>5. WellFormed(b')
  <2>1. b' = [mem |-> m, reader |-> r, writer |-> b.writer]
    BY <1>2
  <2>2. b' \in Buffers
    BY <1>x, <1>1, <1>3, <2>1, BufferRecord, Zenon
  <2> QED
    BY <1>x, <1>1, <1>3, <1>f, <2>2, Zenon DEF WellFormed
<1>6. Content(b') = d \o Content(b)
  BY <1>4, <1>f, Zenon DEF Content
<1> QED
  BY <1>5, <1>6, StepPutFront DEF Prepend

\* Seek and GetAsString drop n readable bytes.
LEMMA SeekGood ==
    ASSUME IInv, NEW n \in Nat, n <= ReadableBytes(b), b' = SeekIn(b, n),
           moved' \in {SubSeq(Content(b), 1, n), <<>>}
    PROVE  Good
BY SeekDrops, StepTake DEF IInv

\* The bytes handed over are the first ones of the content.
LEMMA FirstBytes ==
    ASSUME WellFormed(b), NEW n \in Nat, n <= ReadableBytes(b)
    PROVE  SubSeq(b.mem, b.reader + 1, b.reader + n) = SubSeq(Content(b), 1, n)
<1> DEFINE mem == b.mem
           r == b.reader
           w == b.writer
<1>1. /\ mem \in Seq(Bytes) /\ r \in Nat /\ w \in Nat /\ r + n <= w /\ w <= Len(mem)
      /\ Content(b) = SubSeq(mem, r + 1, w)
  BY ContentBytes DEF Content, ReadableBytes, WellFormed
<1> HIDE DEF mem, r, w
<1>2. SubSeq(SubSeq(mem, r + 1, w), 1, n) = SubSeq(mem, r + 1, r + n)
  BY <1>1, PartsOfSlice
<1> QED
  BY <1>1, <1>2, Zenon DEF mem, r, w

\* Get and GetAsString take exactly the bytes they hand out.
LEMMA GetGood ==
    ASSUME IInv, NEW n \in Nat, Get(n) \/ GetAsString(n)
    PROVE  Good
<1>r. ReadableBytes(b) \in Nat /\ WellFormed(b) /\ Len(Content(b)) = ReadableBytes(b)
      /\ Content(b) \in Seq(Bytes)
  BY ContentBytes DEF IInv
<1>1. CASE GetAsString(n)
  <2>1. n <= ReadableBytes(b) /\ b' = SeekIn(b, n)
        /\ moved' = SubSeq(b.mem, b.reader + 1, b.reader + n)
    BY <1>1 DEF GetAsString
  <2> QED
    BY <1>r, <2>1, FirstBytes, SeekGood, Zenon
<1>2. CASE Get(n) /\ ReadableBytes(b) <= 0
  <2>1. b' = b /\ moved' = <<>>
    BY <1>2 DEF Get
  <2>2. Content(b') = SubSeq(Content(b), 0 + 1, Len(Content(b)))
    BY <1>r, <2>1, SubSeqFull
  <2> QED
    BY <1>r, <2>1, <2>2, StepTake
<1>3. CASE Get(n) /\ ~(ReadableBytes(b) <= 0)
  <2> DEFINE k == IF n < ReadableBytes(b) THEN n ELSE ReadableBytes(b)
  <2>1. k \in Nat /\ k <= ReadableBytes(b)
    BY <1>r
  <2>2. moved' = SubSeq(b.mem, b.reader + 1, b.reader + k) /\ b' = SeekIn(b, k)
    BY <1>3 DEF Get
  <2> HIDE DEF k
  <2> QED
    BY <1>r, <2>1, <2>2, FirstBytes, SeekGood, Zenon
<1> QED
  BY <1>1, <1>2, <1>3

\* Retrieve: the part that went to extrabuf follows the part that fitted.
LEMMA RetrieveGood ==
    ASSUME IInv, NEW d \in Seq(Bytes), Retrieve(d)
    PROVE  Good
<1> DEFINE k == WritableBytes(b)
<1>w. WellFormed(b) /\ k \in Nat /\ Len(d) \in Nat /\ moved' = d
  BY LenProperties, ContentBytes DEF IInv, WellFormed, WritableBytes, Retrieve
<1>1. CASE Len(d) <= k
  <2>1. b' = CopyIn(b, d)
    BY <1>1 DEF Retrieve
  <2> QED
    BY <1>1, <1>w, <2>1, CopyInAppends, StepPutBack
<1>2. CASE ~(Len(d) <= k)
  <2> DEFINE p == SubSeq(d, 0 + 1, k)
             q == SubSeq(d, k + 1, Len(d))
  <2>0. 0 \in Nat /\ 0 <= k /\ k <= Len(d) /\ 0 + 1 = 1 /\ k - 0 = k
    BY <1>w, <1>2
  <2>1. b' = PutInto(CopyIn(b, p), q)
    BY <1>2, <2>0 DEF Retrieve
  <2> HIDE DEF k
  <2>2. p \in Seq(Bytes) /\ Len(p) = k /\ q \in Seq(Bytes)
    BY <1>w, <2>0, Slice
  <2>3. p \o q = d
    <3>1. /\ 1 \in 1..(Len(d) + 1) /\ k \in (1 - 1)..Len(d) /\ Len(d) \in k..Len(d)
      BY <1>w, <2>0
    <3>2. SubSeq(d, 1, k) \o SubSeq(d, k + 1, Len(d)) = SubSeq(d, 1, Len(d))
      BY <3>1, ConcatAdjacentSubSeq
    <3>3. SubSeq(d, 1, Len(d)) = d
      BY SubSeqFull
    <3> QED
      BY <2>0, <3>2, <3>3, Zenon
  <2> HIDE DEF p, q
  <2>4. WellFormed(CopyIn(b, p)) /\ Content(CopyIn(b, p)) = Content(b) \o p
    <3>1. Len(p) <= WritableBytes(b)
      BY <1>w, <2>2 DEF k
    <3> QED
      BY <1>w, <2>2, <3>1, CopyInAppends
  <2>5. WellFormed(b') /\ Content(b') = (Content(b) \o p) \o q
    BY <2>1, <2>2, <2>4, PutAppends
  <2>6. (Content(b) \o p) \o q = Content(b) \o (p \o q)
    <3>1. Content(b) \in Seq(Bytes) /\ p \in Seq(Bytes) /\ q \in Seq(Bytes)
      BY <1>w, <2>2, ContentBytes
    <3> QED
      BY <3>1, ConcatAssociative
  <2> QED
    BY <1>w, <2>3, <2>5, <2>6, StepPutBack
<1> QED
  BY <1>1, <1>2

\* Shrink: the new buffer has the content of the old one.
LEMMA ShrinkGood ==
    ASSUME IInv, NEW n \in Nat, Shrink(n)
    PROVE  Good
<1> DEFINE need == n + ReadableBytes(b)
           fresh == IF WritableBytes(NewBuffer) < need
                    THEN MakeSpace(NewBuffer, need) ELSE NewBuffer
<1>r. /\ ReadableBytes(b) \in Nat /\ WellFormed(b) /\ Len(Content(b)) = ReadableBytes(b)
      /\ Content(b) \in Seq(Bytes) /\ need \in Nat
  BY ContentBytes DEF IInv
<1>1. b' = PutInto(fresh, Content(b)) /\ moved' = <<>>
  BY DEF Shrink
<1> HIDE DEF need
<1>2. WellFormed(fresh) /\ Content(fresh) = <<>>
  BY <1>r, NewBufferIsEmpty, MakeSpaceWorks
<1> HIDE DEF fresh
<1>3. WellFormed(b') /\ Content(b') = Content(b)
  BY <1>r, <1>1, <1>2, PutAppends, ConcatEmptySeq, ZenonT(30)
<1>4. Content(b') = SubSeq(Content(b), 0 + 1, Len(Content(b)))
  BY <1>r, <1>3, SubSeqFull
<1> QED
  BY <1>r, <1>1, <1>3, <1>4, StepTake

\* Reset drops everything.
LEMMA ResetGood ==
    ASSUME IInv, Reset
    PROVE  Good
<1>r. /\ ReadableBytes(b) \in Nat /\ WellFormed(b) /\ Len(Content(b)) = ReadableBytes(b)
  BY ContentBytes DEF IInv
<1>1. SubSeq(Content(b), ReadableBytes(b) + 1, Len(Content(b))) = <<>>
  <2>1. /\ ReadableBytes(b) + 1 \in Int /\ Len(Content(b)) \in Int
        /\ Len(Content(b)) < ReadableBytes(b) + 1 /\ ReadableBytes(b) <= ReadableBytes(b)
    BY <1>r
  <2> QED
    BY <2>1, SubSeqEmpty, Zenon
<1> QED
  BY <1>r, <1>1, NewBufferIsEmpty, StepTake DEF Reset

\* GetUntil(crlf + 2), also when findCRLF found bytes that are not readable.
LEMMA ConsumeLineGood ==
    ASSUME IInv, ConsumeLine
    PROVE  Good
<1>r. /\ ReadableBytes(b) \in Nat /\ WellFormed(b) /\ b.reader \in Nat /\ b.writer \in Nat
  BY ContentBytes DEF IInv
<1>1. PICK crlf \in FindCRLF(b) : b' = SeekIn(b, crlf + 2 - b.reader) /\ moved' = <<>>
  BY DEF ConsumeLine
<1>2. crlf \in b.reader..(b.reader + b.writer)
  BY DEF FindCRLF, ScanEnd
<1> DEFINE n == crlf + 2 - b.reader
<1>3. n \in Nat /\ b' = SeekIn(b, n)
  BY <1>r, <1>1, <1>2
<1> HIDE DEF n
<1>4. CASE n <= ReadableBytes(b)
  BY <1>1, <1>3, <1>4, SeekGood
<1>5. CASE n > ReadableBytes(b)
  <2>1. b' = SeekIn(b, ReadableBytes(b)) /\ ReadableBytes(b) <= ReadableBytes(b)
    BY <1>r, <1>3, <1>5, SeekDrops
  <2> QED
    BY <1>r, <1>1, <2>1, SeekGood
<1>6. n <= ReadableBytes(b) \/ n > ReadableBytes(b)
  BY <1>r, <1>3
<1> QED
  BY <1>4, <1>5, <1>6

\* Every step of the buffer.
LEMMA NextGood == IInv /\ Next => Good
<1> SUFFICES ASSUME IInv, Next PROVE Good
  OBVIOUS
<1>1. \A d \in Data(MaxData) : d \in Seq(Bytes)
  BY SizeAssumption, SeqDef DEF Data
<1>2. \A n \in 0..MaxData : n \in Nat
  BY SizeAssumption
<1>3. ASSUME NEW d \in Data(MaxData), Put(d) \/ Prepend(d) \/ Retrieve(d) PROVE Good
  BY <1>1, <1>3, PutGood, PrependGood, RetrieveGood
<1>4. ASSUME NEW n \in 0..MaxData, Seek(n) PROVE Good
  BY <1>2, <1>4, SeekGood DEF Seek
<1>5. ASSUME NEW n \in 0..MaxData, Get(n) \/ GetAsString(n) \/ Shrink(n) PROVE Good
  BY <1>2, <1>5, GetGood, ShrinkGood
<1> QED
  BY <1>3, <1>4, <1>5, ResetGood, ConsumeLineGood DEF Next

\* The constructor establishes the invariant, and every step keeps it.
LEMMA InitIInv == Init => IInv
BY NewBufferIsEmpty, EmptySeq DEF Init, IInv

\* Every operation keeps the buffer well formed.
LEMMA NextIInv == IInv /\ [Next]_vars => IInv'
<1>1. IInv /\ Next => IInv'
  BY NextGood DEF Good
<1>2. IInv /\ UNCHANGED vars => IInv'
  BY DEF IInv, vars
<1> QED
  BY <1>1, <1>2

-----------------------------------------------------------------------------
\* The indices never cross and never leave the vector.
THEOREM TypeCorrect == Spec => []TypeOK
<1>1. IInv => TypeOK
  BY DEF IInv, TypeOK, WellFormed
<1> QED
  BY <1>1, InitIInv, NextIInv, PTL DEF Spec

\* makeSpace makes the room it was asked for and keeps the content, and compact
\* only ever moves bytes towards the front, in every reachable buffer.
THEOREM SpaceIsMade == Spec => []MakeSpaceMakesRoom
<1>1. IInv => MakeSpaceMakesRoom
  <2> SUFFICES ASSUME IInv PROVE MakeSpaceMakesRoom
    OBVIOUS
  <2>1. TypeOK
    BY DEF IInv, TypeOK, WellFormed
  <2>2. ASSUME NEW n \in 1..(MaxData + InitialSize), WritableBytes(b) < n
        PROVE  /\ WritableBytes(MakeSpace(b, n)) >= n
               /\ Content(MakeSpace(b, n)) = Content(b)
               /\ ~MustGrow(b, n) => CheapPrepend < b.reader
    <3>1. n \in Nat
      BY <2>2, SizeAssumption
    <3> QED
      BY <2>2, <3>1, MakeSpaceWorks DEF IInv
  <2> QED
    BY <2>1, <2>2 DEF MakeSpaceMakesRoom
<1> QED
  BY <1>1, InitIInv, NextIInv, PTL DEF Spec

\* The buffer implements the queue of bytes: no operation loses, invents or
\* reorders a readable byte, wherever the content lies in the vector.
THEOREM IsByteQueue == Spec => ImplementsByteQueue
<1>1. Init => Queue!Init
  BY NewBufferIsEmpty DEF Init, Queue!Init
<1>2. IInv /\ [Next]_vars => [Queue!Next]_(Queue!queueVars)
  <2>1. IInv /\ Next => Queue!Next
    BY NextGood DEF Good
  <2>2. UNCHANGED vars => UNCHANGED Queue!queueVars
    BY DEF vars, Queue!queueVars
  <2> QED
    BY <2>1, <2>2
<1> QED
  BY <1>1, <1>2, InitIInv, NextIInv, PTL DEF Spec, ImplementsByteQueue, Queue!Spec

-----------------------------------------------------------------------------
(***************************************************************************)
(* HttpServer                                                              *)
(***************************************************************************)

\* The types that HttpTypeOK leaves open.
Responses == [status : Nat, asked : BOOLEAN, length : BOOLEAN, keepAlive : BOOLEAN]
HalfResponses == Nat \X Nat

IsContext(c) ==
    /\ DOMAIN c = {"state", "request"}
    /\ DOMAIN c.request = {"method", "version", "headers"}

TypesInv ==
    /\ HttpTypeOK
    /\ IsContext(context)
    /\ answers \in Seq(Responses)
    /\ wire \in Seq(HalfResponses) /\ out \in Seq(HalfResponses)

\* The thread is in the middle of onMessage exactly as the state of the parser
\* tells, and a parser that expects a request line has seen nothing of it.
ParserInv ==
    /\ pc = "bad" => context.state = "requestLine"
    /\ pc = "request" => context.state = "gotAll"
    /\ status = "connected" /\ context.state = "gotAll" => pc = "request"
    /\ context.state = "requestLine" /\ (pc = "parse" \/ (status = "connected" /\ pc # "bad"))
        => context = NewContext

\* The lines of the first n of the requests r.
Taken(r, n) == FlattenSeq([i \in 1..n |-> LinesOf[r[i]]])

\* The lines of the request tell where it ends, or it is refused.
Bounded(kind) == WellFormedRequest(kind) \/ ~GoodRequestLine(LinesOf[kind][1])

AllBounded(n) == \A j \in 1..n : j <= Len(requests) /\ Bounded(requests[j])

IsConnection(l) == l.type = "header" /\ l.field = "Connection"

\* Of the first k lines, i is the last Connection header.
LastOf(lines, k, i) ==
    IsConnection(lines[i]) /\ \A j \in (i + 1)..k : ~IsConnection(lines[j])

\* The headers know the value of the last Connection header of the first k lines.
Collected(lines, k, headers) ==
    /\ \A i \in 2..k : IsConnection(lines[i]) => "Connection" \in DOMAIN headers
    /\ "Connection" \in DOMAIN headers =>
        \E i \in 2..k : LastOf(lines, k, i) /\ headers["Connection"] = lines[i].value

\* The request after n others has been read up to its k-th line.
ReadUpTo(n, k) ==
    LET lines == LinesOf[requests[n + 1]] IN
    /\ pos = Len(Taken(requests, n)) + k
    /\ context.request.version = lines[1].version
    /\ Collected(lines, k, context.request.headers)

\* While the connection is open and the requests before were bounded, the parser
\* is at the beginning of the request that is to be answered next, or inside it.
InStep ==
    LET n == Len(answers)
        kind == requests[n + 1]
        lines == LinesOf[kind] IN
    status = "connected" /\ AllBounded(n) =>
        /\ context.state = "requestLine" => pos = Len(Taken(requests, n))
        /\ pc = "bad" \/ context.state # "requestLine" => n < Len(requests)
        /\ pc = "bad" => ~GoodRequestLine(lines[1])
        /\ context.state = "headers" =>
              /\ GoodRequestLine(lines[1])
              /\ WellFormedRequest(kind) => \E k \in 1..(Len(lines) - 1) : ReadUpTo(n, k)
        /\ context.state = "gotAll" =>
              /\ GoodRequestLine(lines[1])
              /\ WellFormedRequest(kind) => ReadUpTo(n, Len(lines))

\* There are no more responses than requests, if all of these are bounded.
NoSurplus ==
    (\A j \in 1..Len(requests) : Bounded(requests[j])) => Len(answers) <= Len(requests)

AnswerInv ==
    TypesInv /\ WireInOrder /\ ParserInv /\ InStep /\ NoSurplus /\ AnswersMatchRequests

-----------------------------------------------------------------------------
(* The requests in the stream of lines.                                    *)

\* Every request has lines.
LEMMA RequestHasLines ==
    ASSUME NEW k \in Kinds
    PROVE  LinesOf[k] \in Seq(Lines) /\ Len(LinesOf[k]) \in Nat /\ Len(LinesOf[k]) >= 1
<1>1. LinesOf[k] \in Seq(Lines) /\ LinesOf[k] # <<>>
  BY HttpAssumption
<1> QED
  BY <1>1, EmptySeq, LenProperties

\* The lines of the requests, request by request.
LEMMA LinesByRequest ==
    ASSUME NEW r \in Seq(Kinds), NEW n \in 0..Len(r)
    PROVE  /\ [i \in 1..n |-> LinesOf[r[i]]] \in Seq(Seq(Lines))
           /\ Len([i \in 1..n |-> LinesOf[r[i]]]) = n
           /\ Taken(r, n) \in Seq(Lines)
<1> DEFINE u == [i \in 1..n |-> LinesOf[r[i]]]
<1>1. Len(r) \in Nat /\ n \in Nat
  BY LenProperties
<1>2. \A i \in 1..n : r[i] \in Kinds
  BY <1>1, ElementOfSeq
<1>3. u \in [1..n -> Seq(Lines)]
  BY <1>2, RequestHasLines
<1> HIDE DEF u
<1>4. u \in Seq(Seq(Lines)) /\ Len(u) = n
  BY <1>1, <1>3, FunctionIsSeq
<1>5. FlattenSeq(u) \in Seq(Lines)
  BY <1>4, FlattenType
<1> QED
  BY <1>4, <1>5 DEF u, Taken

\* Nothing is taken of no requests.
LEMMA NothingTaken == \A r \in Seq(Kinds) : Taken(r, 0) = <<>>
<1> SUFFICES ASSUME NEW r \in Seq(Kinds) PROVE Taken(r, 0) = <<>>
  OBVIOUS
<1> DEFINE u == [i \in 1..0 |-> LinesOf[r[i]]]
<1>1. u \in Seq(Seq(Lines)) /\ Len(u) = 0
  <2>1. 0 \in 0..Len(r)
    BY LenProperties
  <2> QED
    BY <2>1, LinesByRequest
<1>2. u = <<>>
  <2> HIDE DEF u
  <2> QED
    BY <1>1, EmptySeq
<1> QED
  BY <1>2, FlattenEmpty DEF Taken

\* A request follows in the stream what was taken of the ones before it.
LEMMA RequestInStream ==
    ASSUME NEW r \in Seq(Kinds), NEW n \in Nat, n < Len(r)
    PROVE  /\ r[n + 1] \in Kinds
           /\ Len(Taken(r, n)) \in Nat
           /\ Len(Taken(r, n + 1)) = Len(Taken(r, n)) + Len(LinesOf[r[n + 1]])
           /\ Len(Taken(r, n + 1)) <= Len(Taken(r, Len(r)))
           /\ \A i \in 1..Len(LinesOf[r[n + 1]]) :
                Taken(r, Len(r))[Len(Taken(r, n)) + i] = LinesOf[r[n + 1]][i]
<1> DEFINE s == [i \in 1..Len(r) |-> LinesOf[r[i]]]
           all == Taken(r, Len(r))
           before == Taken(r, n)
           lines == LinesOf[r[n + 1]]
<1>1. Len(r) \in Nat /\ n \in 0..Len(r) /\ n + 1 \in 1..Len(r) /\ Len(r) \in 0..Len(r)
  BY LenProperties
<1>2. r[n + 1] \in Kinds
  BY <1>1, ElementOfSeq
<1>3. s \in Seq(Seq(Lines)) /\ Len(s) = Len(r)
  BY <1>1, LinesByRequest
<1>4. /\ [i \in 1..n |-> s[i]] = [i \in 1..n |-> LinesOf[r[i]]]
      /\ [i \in 1..(n + 1) |-> s[i]] = [i \in 1..(n + 1) |-> LinesOf[r[i]]]
      /\ s[n + 1] = lines
  BY <1>1
<1>5. /\ FlattenSeq([i \in 1..n |-> s[i]]) \in Seq(Lines)
      /\ s[n + 1] \in Seq(Lines)
      /\ FlattenSeq([i \in 1..(n + 1) |-> s[i]])
            = FlattenSeq([i \in 1..n |-> s[i]]) \o s[n + 1]
      /\ \E rest \in Seq(Lines) :
            FlattenSeq(s) = FlattenSeq([i \in 1..(n + 1) |-> s[i]]) \o rest
  <2>1. n \in Nat /\ n < Len(s)
    BY <1>3
  <2> HIDE DEF s
  <2> QED
    BY <1>3, <2>1, FlattenSplit, ZenonT(60)
<1>6. /\ before \in Seq(Lines) /\ lines \in Seq(Lines)
      /\ Taken(r, n + 1) = before \o lines
      /\ \E rest \in Seq(Lines) : all = Taken(r, n + 1) \o rest
  BY <1>4, <1>5 DEF Taken
<1>7. PICK rest \in Seq(Lines) : all = Taken(r, n + 1) \o rest
  BY <1>6
<1> HIDE DEF s, all, before, lines
<1>8. /\ Len(before) \in Nat /\ Len(lines) \in Nat /\ Len(rest) \in Nat
      /\ Taken(r, n + 1) \in Seq(Lines)
      /\ Len(Taken(r, n + 1)) = Len(before) + Len(lines)
  BY <1>6, LenProperties, ConcatProperties
<1>9. Len(all) = Len(Taken(r, n + 1)) + Len(rest)
  BY <1>7, <1>8, ConcatProperties
<1>10. ASSUME NEW i \in 1..Len(lines) PROVE all[Len(before) + i] = lines[i]
  <2>1. /\ Len(before) + i \in 1..(Len(before) + Len(lines))
        /\ Len(before) + i > Len(before) /\ Len(before) + i - Len(before) = i
    BY <1>8
  <2>2. all[Len(before) + i] = Taken(r, n + 1)[Len(before) + i]
    <3> DEFINE c == Taken(r, n + 1)
    <3>1. c \in Seq(Lines) /\ all = c \o rest /\ Len(before) + i \in 1..Len(c)
      BY <1>7, <1>8, <2>1
    <3> HIDE DEF c
    <3>2. (c \o rest)[Len(before) + i] = c[Len(before) + i]
      BY <3>1
    <3> QED
      BY <3>1, <3>2 DEF c
  <2>3. Taken(r, n + 1)[Len(before) + i] = lines[i]
    BY <1>6, <1>8, <2>1, ConcatProperties
  <2> QED
    BY <2>2, <2>3
<1> QED
  BY <1>2, <1>8, <1>9, <1>10 DEF all, before, lines

\* A request that is sent comes last, and what was taken stays what it was.
LEMMA StreamGrows ==
    ASSUME NEW r \in Seq(Kinds), NEW k \in Kinds
    PROVE  /\ \A n \in 0..Len(r) : Taken(Append(r, k), n) = Taken(r, n)
           /\ Len(Taken(r, Len(r))) \in Nat
           /\ Len(Taken(r, Len(r))) <= Len(Taken(Append(r, k), Len(Append(r, k))))
<1> DEFINE q == Append(r, k)
<1>1. /\ q \in Seq(Kinds) /\ Len(q) = Len(r) + 1 /\ Len(r) \in Nat
      /\ \A i \in 1..Len(r) : q[i] = r[i]
  BY AppendProperties, LenProperties
<1> HIDE DEF q
<1>2. ASSUME NEW n \in 0..Len(r) PROVE Taken(q, n) = Taken(r, n)
  <2>1. \A i \in 1..n : q[i] = r[i]
    BY <1>1
  <2>2. [i \in 1..n |-> LinesOf[q[i]]] = [i \in 1..n |-> LinesOf[r[i]]]
    BY <2>1
  <2> QED
    BY <2>2 DEF Taken
<1>3. Len(r) \in 0..Len(r) /\ Len(r) < Len(q) /\ Len(r) + 1 = Len(q)
  BY <1>1
<1>4. q[Len(r) + 1] \in Kinds /\ Len(Taken(q, Len(r))) \in Nat
      /\ Len(Taken(q, Len(r) + 1)) = Len(Taken(q, Len(r))) + Len(LinesOf[q[Len(r) + 1]])
  BY <1>1, <1>3, RequestInStream
<1>5. Len(LinesOf[q[Len(r) + 1]]) \in Nat
  BY <1>4, RequestHasLines
<1> QED
  BY <1>1, <1>2, <1>3, <1>4, <1>5 DEF q

-----------------------------------------------------------------------------
(* The responses on the wire.                                              *)

\* The halves of the first n responses.
AllHalves(n) == FlattenSeq([i \in 1..n |-> Halves(i)])

\* A response has two halves.
LEMMA TwoHalves ==
    ASSUME NEW i \in Nat
    PROVE  Halves(i) \in Seq(HalfResponses) /\ Len(Halves(i)) = 2
BY DEF Halves, HalfResponses

\* The halves of one more response come behind the others.
LEMMA OneMoreResponse ==
    ASSUME NEW n \in Nat
    PROVE  /\ AllHalves(n) \in Seq(HalfResponses)
           /\ AllHalves(n + 1) = AllHalves(n) \o Halves(n + 1)
<1> DEFINE s == [i \in 1..(n + 1) |-> Halves(i)]
<1>1. s \in [1..(n + 1) -> Seq(HalfResponses)] /\ n + 1 \in Nat
  BY TwoHalves
<1>2. s \in Seq(Seq(HalfResponses)) /\ Len(s) = n + 1
  <2> HIDE DEF s
  <2> QED
    BY <1>1, FunctionIsSeq
<1>3. n < Len(s)
  BY <1>2
<1>4. /\ [i \in 1..n |-> s[i]] = [i \in 1..n |-> Halves(i)]
      /\ [i \in 1..(n + 1) |-> s[i]] = s
      /\ s[n + 1] = Halves(n + 1)
  BY <1>1
<1>5. /\ FlattenSeq([i \in 1..n |-> s[i]]) \in Seq(HalfResponses)
      /\ FlattenSeq([i \in 1..(n + 1) |-> s[i]])
            = FlattenSeq([i \in 1..n |-> s[i]]) \o s[n + 1]
  <2> HIDE DEF s
  <2> QED
    BY <1>2, <1>3, FlattenSplit, ZenonT(60)
<1> HIDE DEF s
<1>6. FlattenSeq(s) = AllHalves(n + 1)
  BY DEF s, AllHalves
<1>7. FlattenSeq([i \in 1..n |-> s[i]]) = AllHalves(n)
  BY <1>4 DEF AllHalves
<1> QED
  BY <1>4, <1>5, <1>6, <1>7

\* No responses, no halves.
LEMMA NoHalves == AllHalves(0) = <<>>
<1> DEFINE u == [i \in 1..0 |-> Halves(i)]
<1>1. u \in [1..0 -> Seq(HalfResponses)] /\ 0 \in Nat
  BY TwoHalves
<1>2. u = <<>>
  <2> HIDE DEF u
  <2>1. u \in Seq(Seq(HalfResponses)) /\ Len(u) = 0
    BY <1>1, FunctionIsSeq
  <2> QED
    BY <2>1, EmptySeq
<1> QED
  BY <1>2, FlattenEmpty DEF AllHalves

\* What is on the wire and in the output buffer is all that was sent, and the
\* loop asks for EV_WRITE exactly when something is left.
OutputInv ==
    /\ wire \o out = AllHalves(Len(answers))
    /\ writable <=> out # <<>>

\* Send keeps it, whether the socket is asked or not and whatever it takes.
LEMMA SendKeepsOutput ==
    ASSUME answers \in Seq(Responses), wire \in Seq(HalfResponses),
           out \in Seq(HalfResponses), writable \in BOOLEAN,
           OutputInv, NEW answer \in Responses, Send(answer)
    PROVE  /\ answers' = Append(answers, answer) /\ status = "connected"
           /\ wire' \in Seq(HalfResponses) /\ out' \in Seq(HalfResponses)
           /\ writable' \in BOOLEAN /\ OutputInv'
<1> DEFINE n == Len(answers)
           data == Halves(n + 1)
<1>1. n \in Nat /\ data \in Seq(HalfResponses) /\ Len(data) = 2
  BY LenProperties, TwoHalves
<1>2. PICK taken \in 0..(IF ~writable /\ out = <<>> THEN Len(data) ELSE 0) :
        /\ answers' = Append(answers, answer) /\ status = "connected"
        /\ wire' = wire \o SubSeq(data, 1, taken)
        /\ out' = out \o SubSeq(data, taken + 1, Len(data))
        /\ writable' = (writable \/ taken < Len(data))
  BY DEF Send
<1> HIDE DEF data
<1>3. taken \in 0..Len(data) /\ (taken = 0 \/ (out = <<>> /\ ~writable))
  BY <1>1, <1>2
<1>4. PICK d1 \in Seq(HalfResponses), d2 \in Seq(HalfResponses) :
        /\ d1 = SubSeq(data, 1, taken) /\ d2 = SubSeq(data, taken + 1, Len(data))
        /\ d1 \o d2 = data /\ (d2 = <<>> <=> taken = Len(data))
        /\ (taken = 0 => d2 = data)
  <2> DEFINE e1 == SubSeq(data, 1, taken)
             e2 == SubSeq(data, taken + 1, Len(data))
  <2>1. /\ e1 \in Seq(HalfResponses) /\ e2 \in Seq(HalfResponses)
        /\ e1 \o e2 = data /\ (e2 = <<>> <=> taken = Len(data)) /\ (taken = 0 => e2 = data)
    BY <1>1, <1>3, CutInTwo, Zenon
  <2> QED
    BY <2>1, Zenon
<1>5. wire' = wire \o d1 /\ out' = out \o d2
  BY <1>2, <1>4
<1>m. /\ <<>> \in Seq(HalfResponses)
      /\ \A x, y \in Seq(HalfResponses) : x \o y \in Seq(HalfResponses)
      /\ \A x \in Seq(HalfResponses) : x \o <<>> = x /\ <<>> \o x = x
      /\ \A x, y, z \in Seq(HalfResponses) : (x \o y) \o z = x \o (y \o z)
  BY Monoid
<1>6. wire' \in Seq(HalfResponses) /\ out' \in Seq(HalfResponses)
  BY <1>5, <1>m
<1>7. taken = 0 => d1 = <<>>
  <2> SUFFICES ASSUME taken = 0 PROVE d1 = <<>>
    OBVIOUS
  <2>1. Len(d1 \o d2) = Len(d1) + Len(d2) /\ Len(d1) \in Nat /\ Len(d2) \in Nat
    BY ConcatProperties, LenProperties
  <2>2. Len(d1) = 0
    BY <1>4, <2>1
  <2> QED
    BY <2>2, EmptySeq
<1>8. wire' \o out' = (wire \o out) \o data
  <2>1. CASE taken = 0
    <3>1. wire' = wire /\ out' = out \o data
      BY <1>4, <1>5, <1>7, <1>m, <2>1
    <3>2. wire \o (out \o data) = (wire \o out) \o data
      <4>1. \A x, y, z \in Seq(HalfResponses) : (x \o y) \o z = x \o (y \o z)
        BY Monoid, Zenon
      <4>2. data \in Seq(HalfResponses)
        BY <1>1
      <4> QED
        BY <4>1, <4>2, ZenonT(30)
    <3> QED
      BY <3>1, <3>2
  <2>2. CASE out = <<>>
    <3>1. out' = d2 /\ wire \o out = wire
      BY <1>5, <1>m, <2>2
    <3>2. wire' \o out' = (wire \o d1) \o d2
      BY <1>5, <3>1
    <3>3. (wire \o d1) \o d2 = wire \o (d1 \o d2)
      BY <1>m
    <3> QED
      BY <1>4, <3>1, <3>2, <3>3
  <2> QED
    BY <1>3, <2>1, <2>2
<1>9. wire' \o out' = AllHalves(Len(answers'))
  <2>1. Len(answers') = n + 1
    BY <1>2, AppendProperties
  <2>2. AllHalves(n + 1) = AllHalves(n) \o data
    BY <1>1, OneMoreResponse DEF data
  <2> QED
    BY <1>8, <2>1, <2>2 DEF OutputInv
<1>10. writable' <=> out' # <<>>
  <2>1. Len(out') = Len(out) + Len(d2) /\ Len(out) \in Nat /\ Len(d2) \in Nat
    BY <1>5, ConcatProperties, LenProperties
  <2>2. /\ (out' = <<>> <=> Len(out') = 0) /\ (out = <<>> <=> Len(out) = 0)
        /\ (d2 = <<>> <=> Len(d2) = 0)
    BY <1>6, EmptySeq
  <2>3. out' = <<>> <=> out = <<>> /\ taken = Len(data)
    <3>1. Len(out') = 0 <=> Len(out) = 0 /\ Len(d2) = 0
      BY <2>1
    <3> QED
      BY <1>4, <2>2, <3>1, Zenon
  <2>4. taken < Len(data) <=> taken # Len(data)
    BY <1>1, <1>3
  <2> QED
    BY <1>2, <2>3, <2>4 DEF OutputInv
<1>11. writable' \in BOOLEAN
  BY <1>2
<1> QED
  BY <1>2, <1>6, <1>9, <1>10, <1>11 DEF OutputInv

\* HandleWrite moves bytes from the buffer to the wire.
LEMMA WriteKeepsOutput ==
    ASSUME wire \in Seq(HalfResponses), out \in Seq(HalfResponses),
           OutputInv, HandleWrite
    PROVE  /\ wire' \in Seq(HalfResponses) /\ out' \in Seq(HalfResponses)
           /\ writable' \in BOOLEAN /\ OutputInv'
<1>1. PICK n \in 1..Len(out) :
        /\ wire' = wire \o SubSeq(out, 1, n)
        /\ out' = SubSeq(out, n + 1, Len(out))
        /\ writable' = (n < Len(out))
  BY DEF HandleWrite
<1>2. n \in 0..Len(out) /\ Len(out) \in Nat /\ (n < Len(out) <=> n # Len(out))
  BY LenProperties
<1>3. PICK d1 \in Seq(HalfResponses), d2 \in Seq(HalfResponses) :
        /\ d1 = SubSeq(out, 1, n) /\ d2 = SubSeq(out, n + 1, Len(out))
        /\ d1 \o d2 = out /\ (d2 = <<>> <=> n = Len(out))
  <2> DEFINE e1 == SubSeq(out, 1, n)
             e2 == SubSeq(out, n + 1, Len(out))
  <2>1. /\ e1 \in Seq(HalfResponses) /\ e2 \in Seq(HalfResponses)
        /\ e1 \o e2 = out /\ (e2 = <<>> <=> n = Len(out))
    BY <1>2, CutInTwo, Zenon
  <2> QED
    BY <2>1, Zenon
<1>4. wire' = wire \o d1 /\ out' = d2
  BY <1>1, <1>3
<1>5. wire \o d1 \in Seq(HalfResponses)
  BY Monoid
<1>6. (wire \o d1) \o d2 = wire \o (d1 \o d2)
  <2>1. \A x, y, z \in Seq(HalfResponses) : (x \o y) \o z = x \o (y \o z)
    BY Monoid, Zenon
  <2> QED
    BY <2>1, Zenon
<1>7. wire' \o out' = wire \o out
  BY <1>3, <1>4, <1>6
<1>8. answers' = answers
  BY DEF HandleWrite
<1> QED
  <2>1. wire' \o out' = AllHalves(Len(answers'))
    BY <1>7, <1>8, Zenon DEF OutputInv
  <2>a. writable' \in BOOLEAN
    BY <1>1
  <2>b. writable' <=> n < Len(out)
    BY <1>1
  <2>c. out' = <<>> <=> n = Len(out)
    BY <1>3, <1>4, Zenon
  <2>2. writable' \in BOOLEAN /\ (writable' <=> out' # <<>>)
    BY <1>2, <2>a, <2>b, <2>c, Zenon
  <2> QED
    BY <1>4, <1>5, <2>1, <2>2, Zenon DEF OutputInv

-----------------------------------------------------------------------------
(* The parser's context.                                                   *)

\* A new context expects a request line and has no headers.
LEMMA NewContextFields ==
    /\ IsContext(NewContext)
    /\ NewContext.state = "requestLine" /\ NewContext.request.method = "invalid"
BY DEF NewContext, NewRequest, IsContext

\* What processRequestLine makes of a line.
LEMMA RequestLineFields ==
    ASSUME NEW c, IsContext(c), NEW l
    PROVE  /\ IsContext(WithRequestLine(c, l))
           /\ WithRequestLine(c, l).state = c.state
           /\ IsContext([WithRequestLine(c, l) EXCEPT !.state = "headers"])
           /\ [WithRequestLine(c, l) EXCEPT !.state = "headers"].state = "headers"
           /\ [WithRequestLine(c, l) EXCEPT !.state = "headers"].request.headers
                = c.request.headers
           /\ GoodRequestLine(l) =>
                [WithRequestLine(c, l) EXCEPT !.state = "headers"].request.version = l.version
<1>1. CASE l.type = "request" /\ l.method \in Methods
  <2> DEFINE v == IF l.version \in Versions THEN l.version ELSE c.request.version
             w == [c EXCEPT !.request.method = l.method, !.request.version = v]
             x == [w EXCEPT !.state = "headers"]
  <2>1. WithRequestLine(c, l) = w
    BY <1>1 DEF WithRequestLine, IsContext
  <2>2. /\ IsContext(w) /\ w.state = c.state /\ w.request.headers = c.request.headers
        /\ w.request.version = v
    BY DEF IsContext
  <2> HIDE DEF w
  <2>3. /\ IsContext(x) /\ x.state = "headers" /\ x.request = w.request
    BY <2>2 DEF IsContext
  <2>4. GoodRequestLine(l) => v = l.version
    BY DEF GoodRequestLine
  <2> QED
    BY <2>1, <2>2, <2>3, <2>4
<1>2. CASE ~(l.type = "request" /\ l.method \in Methods)
  <2>1. WithRequestLine(c, l) = c /\ ~GoodRequestLine(l)
    BY <1>2 DEF WithRequestLine, GoodRequestLine
  <2> DEFINE x == [c EXCEPT !.state = "headers"]
  <2>2. IsContext(x) /\ x.state = "headers" /\ x.request = c.request
    BY DEF IsContext
  <2> QED
    BY <2>1, <2>2
<1> QED
  BY <1>1, <1>2

\* What addHeader and the end of the headers change.
LEMMA HeaderFields ==
    ASSUME NEW c, IsContext(c), NEW h
    PROVE  /\ IsContext([c EXCEPT !.request.headers = h])
           /\ [c EXCEPT !.request.headers = h].state = c.state
           /\ [c EXCEPT !.request.headers = h].request.headers = h
           /\ [c EXCEPT !.request.headers = h].request.version = c.request.version
           /\ IsContext([c EXCEPT !.state = "gotAll"])
           /\ [c EXCEPT !.state = "gotAll"].state = "gotAll"
           /\ [c EXCEPT !.state = "gotAll"].request = c.request
BY DEF IsContext

\* The answer to a request is a response.
LEMMA Answers ==
    /\ \A r : AsksToClose(r) \in BOOLEAN
    /\ \A asked, close \in BOOLEAN : Response(200, asked, close) \in Responses
    /\ BadRequestResponse \in Responses
<1>1. ASSUME NEW r PROVE AsksToClose(r) \in BOOLEAN
  BY DEF AsksToClose
<1>2. ASSUME NEW asked \in BOOLEAN, NEW close \in BOOLEAN
      PROVE  Response(200, asked, close) \in Responses
  <2>1. (~close) \in BOOLEAN
    OBVIOUS
  <2> QED
    BY <2>1 DEF Response, Responses
<1>3. BadRequestResponse \in Responses
  BY DEF BadRequestResponse, Responses
<1> QED
  BY <1>1, <1>2, <1>3

-----------------------------------------------------------------------------
(* The types, and the output of the connection.                            *)

WireInv == TypesInv /\ WireInOrder

\* Stream is what is taken of all requests, and a complete line is in it.
LEMMA StreamFacts ==
    ASSUME HttpTypeOK
    PROVE  /\ Stream = Taken(requests, Len(requests))
           /\ Len(Stream) \in Nat /\ Len(requests) \in Nat
           /\ arrived \in Nat /\ pos \in Nat
           /\ LineComplete => pos + 1 \in 1..Len(Stream)
<1>1. Stream = Taken(requests, Len(requests))
  BY DEF Stream, Taken
<1>2. requests \in Seq(Kinds) /\ Len(requests) \in Nat
  BY LenProperties DEF HttpTypeOK
<1>3. Taken(requests, Len(requests)) \in Seq(Lines)
  <2>1. Len(requests) \in 0..Len(requests)
    BY <1>2
  <2> QED
    BY <1>2, <2>1, LinesByRequest
<1>4. Len(Stream) \in Nat
  BY <1>1, <1>3, LenProperties
<1>5. arrived \in 0..(2 * Len(Stream)) /\ pos \in 0..Len(Stream)
  BY DEF HttpTypeOK
<1>6. arrived \in Nat /\ pos \in Nat /\ (LineComplete => pos + 1 \in 1..Len(Stream))
  BY <1>4, <1>5 DEF LineComplete
<1> QED
  BY <1>1, <1>2, <1>4, <1>6

\* While the connection is open, WireInOrder is OutputInv and that every
\* response has a length.
LEMMA WireWhileConnected ==
    ASSUME WireInOrder, status = "connected"
    PROVE  OutputInv /\ \A i \in 1..Len(answers) : answers[i].length
BY DEF WireInOrder, OutputInv, AllHalves

\* A response may be the last one; the connection is closed then.
LEMMA WireAfterSend ==
    ASSUME answers \in Seq(Responses), \A i \in 1..Len(answers) : answers[i].length,
           NEW answer \in Responses, answers' = Append(answers, answer),
           wire' \in Seq(HalfResponses), out' \in Seq(HalfResponses), OutputInv',
           ~answer.length => status' # "connected"
    PROVE  WireInOrder'
<1>1. Len(answers) \in Nat /\ Len(answers') = Len(answers) + 1
      /\ \A i \in 1..Len(answers) : answers'[i] = answers[i]
  BY LenProperties, AppendProperties
<1>a. answers'[Len(answers) + 1] = answer
  BY AppendProperties
<1>2. wire' \o out' = AllHalves(Len(answers')) /\ (writable' <=> out' # <<>>)
  BY DEF OutputInv
<1>3. IsPrefix(wire', AllHalves(Len(answers')))
  <2>1. IsPrefix(wire', wire' \o out')
    BY PrefixOfConcat
  <2> QED
    BY <1>2, <2>1
<1>4. ASSUME NEW i \in 1..Len(answers'), ~answers'[i].length
      PROVE  i = Len(answers') /\ status' # "connected"
  <2>1. i = Len(answers) + 1
    BY <1>1, <1>4
  <2> QED
    BY <1>1, <1>4, <1>a, <2>1
<1> QED
  BY <1>2, <1>3, <1>4 DEF WireInOrder, AllHalves

\* Writing leaves the responses alone.
LEMMA WireAfterWrite ==
    ASSUME \A i \in 1..Len(answers) : answers[i].length, answers' = answers,
           wire' \in Seq(HalfResponses), out' \in Seq(HalfResponses), OutputInv'
    PROVE  WireInOrder'
<1>2. wire' \o out' = AllHalves(Len(answers')) /\ (writable' <=> out' # <<>>)
  BY DEF OutputInv
<1>3. IsPrefix(wire', AllHalves(Len(answers')))
  <2>1. IsPrefix(wire', wire' \o out')
    BY PrefixOfConcat
  <2> QED
    BY <1>2, <2>1
<1> QED
  BY <1>2, <1>3 DEF WireInOrder, AllHalves

\* A step that writes nothing keeps the order on the wire, also when it ends the
\* connection.
LEMMA WireUntouched ==
    ASSUME WireInOrder, UNCHANGED <<out, writable, wire, answers>>,
           status' = status \/ status' # "connected"
    PROVE  WireInOrder'
BY DEF WireInOrder, AllHalves

\* A new connection.
LEMMA InitWireInv == HttpInit => WireInv
<1> SUFFICES ASSUME HttpInit PROVE WireInv
  OBVIOUS
<1>1. requests = <<>> /\ requests \in Seq(Kinds) /\ Len(requests) = 0
  BY EmptySeq DEF HttpInit
<1>2. Stream = <<>> /\ Len(Stream) = 0
  <2>1. Stream = Taken(requests, 0)
    BY <1>1 DEF Stream, Taken
  <2> QED
    BY <1>1, <2>1, NothingTaken, EmptySeq
<1>3. HttpTypeOK
  <2>1. context.state = "requestLine"
    BY NewContextFields DEF HttpInit
  <2>2. 0 \in 0..(2 * Len(Stream)) /\ 0 \in 0..Len(Stream) /\ Len(requests) <= MaxRequests
    BY <1>1, <1>2, HttpAssumption
  <2> QED
    BY <1>1, <2>1, <2>2 DEF HttpInit, HttpTypeOK
<1>4. answers = <<>> /\ wire = <<>> /\ out = <<>> /\ writable = FALSE
  BY DEF HttpInit
<1>5. TypesInv
  BY <1>3, <1>4, NewContextFields, EmptySeq DEF HttpInit, TypesInv
<1>6. Len(answers) = 0 /\ wire \o out = <<>>
  BY <1>4
<1>7. IsPrefix(wire, AllHalves(Len(answers)))
  <2>1. wire \in Seq(HalfResponses) /\ out \in Seq(HalfResponses)
    BY <1>4, EmptySeq
  <2> QED
    BY <1>6, <2>1, NoHalves, PrefixOfConcat
<1>8. WireInOrder
  BY <1>4, <1>6, <1>7, NoHalves DEF WireInOrder, AllHalves
<1> QED
  BY <1>5, <1>8 DEF WireInv

\* The steps that leave the requests and the output alone keep the types if they
\* keep the ones of what they change.
LEMMA TypesOfInput ==
    ASSUME TypesInv, UNCHANGED <<requests, out, writable, wire, answers, waited>>,
           arrived' \in 0..(2 * Len(Stream)), pos' \in 0..Len(Stream),
           IsContext(context'), context'.state \in {"requestLine", "headers", "gotAll"},
           pc' \in {"select", "parse", "bad", "request"},
           status' \in {"connected", "closed", "stale"}
    PROVE  TypesInv'
<1>1. Stream' = Stream
  BY DEF Stream
<1> QED
  BY <1>1 DEF TypesInv, HttpTypeOK

\* The steps that send or write keep the types.
LEMMA TypesOfOutput ==
    ASSUME TypesInv, UNCHANGED <<requests, arrived, pos, waited>>,
           IsContext(context'), context'.state \in {"requestLine", "headers", "gotAll"},
           pc' \in {"select", "parse", "bad", "request"},
           status' \in {"connected", "closed", "stale"},
           answers' \in Seq(Responses), wire' \in Seq(HalfResponses),
           out' \in Seq(HalfResponses), writable' \in BOOLEAN
    PROVE  TypesInv'
<1>1. Stream' = Stream
  BY DEF Stream
<1> QED
  BY <1>1 DEF TypesInv, HttpTypeOK

\* Sending a request makes the stream longer.
LEMMA SendingKeepsTypes ==
    ASSUME TypesInv, NEW kind \in Kinds, ClientSends(kind)
    PROVE  TypesInv'
<1>1. requests \in Seq(Kinds) /\ Len(requests) \in Nat /\ requests' = Append(requests, kind)
  BY LenProperties DEF ClientSends, TypesInv, HttpTypeOK
<1>2. requests' \in Seq(Kinds) /\ Len(requests') <= MaxRequests
  BY <1>1, AppendProperties, HttpAssumption DEF ClientSends
<1>3. Len(Stream) \in Nat /\ Len(Stream') \in Nat /\ Len(Stream) <= Len(Stream')
  <2>1. /\ Stream = Taken(requests, Len(requests))
        /\ Stream' = Taken(requests', Len(requests'))
    BY DEF Stream, Taken
  <2>2. Len(Taken(requests, Len(requests))) \in Nat
        /\ Len(Taken(requests, Len(requests))) <= Len(Taken(requests', Len(requests')))
    BY <1>1, StreamGrows
  <2>3. Len(requests') \in 0..Len(requests')
    BY <1>2, LenProperties
  <2>4. Taken(requests', Len(requests')) \in Seq(Lines)
    BY <1>2, <2>3, LinesByRequest
  <2> QED
    BY <2>1, <2>2, <2>4, LenProperties
<1>4. arrived' \in 0..(2 * Len(Stream')) /\ pos' \in 0..Len(Stream')
  <2>1. arrived \in 0..(2 * Len(Stream)) /\ pos \in 0..Len(Stream)
        /\ arrived' = arrived /\ pos' = pos
    BY DEF ClientSends, TypesInv, HttpTypeOK
  <2> HIDE DEF Stream
  <2> QED
    BY <1>3, <2>1
<1>5. waited' \in BOOLEAN
  BY DEF ClientSends, TypesInv, HttpTypeOK
<1>6. UNCHANGED <<context, pc, status, out, writable, wire, answers>>
  BY DEF ClientSends
<1> QED
  BY <1>2, <1>4, <1>5, <1>6 DEF TypesInv, HttpTypeOK

\* Every step keeps the types and the order of the output.
LEMMA NextWireInv == WireInv /\ [HttpNext]_httpVars => WireInv'
<1> SUFFICES ASSUME TypesInv, WireInOrder, [HttpNext]_httpVars
             PROVE  TypesInv' /\ WireInOrder'
  BY DEF WireInv
<1>t. /\ HttpTypeOK /\ IsContext(context)
      /\ answers \in Seq(Responses) /\ writable \in BOOLEAN
      /\ wire \in Seq(HalfResponses) /\ out \in Seq(HalfResponses)
  BY DEF TypesInv, HttpTypeOK
<1>s. /\ Len(Stream) \in Nat /\ arrived \in 0..(2 * Len(Stream)) /\ pos \in 0..Len(Stream)
      /\ (LineComplete => pos + 1 \in 0..Len(Stream))
      /\ context.state \in {"requestLine", "headers", "gotAll"}
      /\ pc \in {"select", "parse", "bad", "request"}
      /\ status \in {"connected", "closed", "stale"}
  BY <1>t, StreamFacts DEF HttpTypeOK
<1>1. CASE UNCHANGED httpVars
  <2>1. TypesInv'
    BY <1>1, <1>s, <1>t, TypesOfInput DEF httpVars
  <2>2. WireInOrder'
    BY <1>1, WireUntouched DEF httpVars
  <2> QED
    BY <2>1, <2>2
<1>2. ASSUME NEW kind \in Kinds, ClientSends(kind) PROVE TypesInv' /\ WireInOrder'
  BY <1>2, SendingKeepsTypes, WireUntouched DEF ClientSends
<1>3. CASE HandleEof
  <2>1. TypesInv'
    BY <1>3, <1>s, <1>t, TypesOfInput DEF HandleEof
  <2>2. WireInOrder'
    BY <1>3, WireUntouched DEF HandleEof
  <2> QED
    BY <2>1, <2>2
<1>4. CASE HandleRead
  <2>1. arrived' \in 0..(2 * Len(Stream))
    <3>1. PICK n \in (arrived + 1)..(2 * Len(Stream)) : arrived' = n
      BY <1>4 DEF HandleRead
    <3> QED
      BY <1>s, <3>1
  <2>2. TypesInv'
    BY <1>4, <1>s, <1>t, <2>1, TypesOfInput DEF HandleRead
  <2>3. WireInOrder'
    BY <1>4, WireUntouched DEF HandleRead
  <2> QED
    BY <2>2, <2>3
<1>5. CASE HandleWrite
  <2>1. OutputInv /\ \A i \in 1..Len(answers) : answers[i].length
    BY <1>5, WireWhileConnected DEF HandleWrite
  <2>2. /\ wire' \in Seq(HalfResponses) /\ out' \in Seq(HalfResponses)
        /\ writable' \in BOOLEAN /\ OutputInv'
    BY <1>5, <1>t, <2>1, WriteKeepsOutput
  <2>3. TypesInv'
    BY <1>5, <1>s, <1>t, <2>2, TypesOfOutput DEF HandleWrite
  <2>4. WireInOrder'
    BY <1>5, <2>1, <2>2, WireAfterWrite DEF HandleWrite
  <2> QED
    BY <2>3, <2>4
<1>6. CASE ParseRequestLine
  <2>1. pos' \in 0..Len(Stream) /\ pc' \in {"parse", "bad"}
    BY <1>6, <1>s DEF ParseRequestLine
  <2>2. IsContext(context') /\ context'.state \in {"requestLine", "headers"}
    <3>1. \/ context' = [WithRequestLine(context, Line) EXCEPT !.state = "headers"]
          \/ context' = WithRequestLine(context, Line) /\ context.state = "requestLine"
      BY <1>6 DEF ParseRequestLine
    <3>2. CASE context' = [WithRequestLine(context, Line) EXCEPT !.state = "headers"]
      BY <1>t, <3>2, RequestLineFields
    <3>3. CASE context' = WithRequestLine(context, Line) /\ context.state = "requestLine"
      BY <1>t, <3>3, RequestLineFields
    <3> QED
      BY <3>1, <3>2, <3>3
  <2>3. TypesInv'
    BY <1>6, <1>s, <2>1, <2>2, TypesOfInput DEF ParseRequestLine
  <2>4. WireInOrder'
    BY <1>6, WireUntouched DEF ParseRequestLine
  <2> QED
    BY <2>3, <2>4
<1>7. CASE ParseHeader
  <2>1. pos' \in 0..Len(Stream) /\ pc' \in {"parse", "request"}
    BY <1>7, <1>s DEF ParseHeader
  <2>2. IsContext(context') /\ context'.state \in {"headers", "gotAll"}
    <3>1. \/ \E h : context' = [context EXCEPT !.request.headers = h]
          \/ context' = [context EXCEPT !.state = "gotAll"]
      BY <1>7 DEF ParseHeader
    <3>2. context.state = "headers"
      BY <1>7 DEF ParseHeader
    <3>3. CASE \E h : context' = [context EXCEPT !.request.headers = h]
      <4>1. PICK h : context' = [context EXCEPT !.request.headers = h]
        BY <3>3
      <4> QED
        BY <1>t, <3>2, <4>1, HeaderFields
    <3>4. CASE context' = [context EXCEPT !.state = "gotAll"]
      BY <1>t, <3>4, HeaderFields
    <3> QED
      BY <3>1, <3>3, <3>4
  <2>3. TypesInv'
    BY <1>7, <1>s, <2>1, <2>2, TypesOfInput DEF ParseHeader
  <2>4. WireInOrder'
    BY <1>7, WireUntouched DEF ParseHeader
  <2> QED
    BY <2>3, <2>4
<1>8. CASE WaitForMore
  <2>1. TypesInv'
    BY <1>8, <1>s, <1>t, TypesOfInput DEF WaitForMore
  <2>2. WireInOrder'
    BY <1>8, WireUntouched DEF WaitForMore
  <2> QED
    BY <2>1, <2>2
<1>9. CASE FindStaleLineEnd
  <2>1. TypesInv'
    BY <1>9, <1>s, <1>t, TypesOfInput DEF FindStaleLineEnd
  <2>2. WireInOrder'
    BY <1>9, WireUntouched DEF FindStaleLineEnd
  <2> QED
    BY <2>1, <2>2
<1>10. CASE BadRequest
  <2>1. Send(BadRequestResponse) /\ status' = "closed" /\ status = "connected"
    BY <1>10 DEF BadRequest, ForceClose
  <2>2. OutputInv /\ \A i \in 1..Len(answers) : answers[i].length
    BY <2>1, WireWhileConnected
  <2>3. /\ answers' = Append(answers, BadRequestResponse)
        /\ wire' \in Seq(HalfResponses) /\ out' \in Seq(HalfResponses)
        /\ writable' \in BOOLEAN /\ OutputInv'
    BY <1>t, <2>1, <2>2, Answers, SendKeepsOutput
  <2>4. answers' \in Seq(Responses)
    BY <1>t, <2>3, Answers, AppendProperties
  <2>5. TypesInv'
    BY <1>10, <1>s, <1>t, <2>1, <2>3, <2>4, TypesOfOutput DEF BadRequest
  <2>6. WireInOrder'
    BY <1>t, <2>1, <2>2, <2>3, Answers, WireAfterSend
  <2> QED
    BY <2>5, <2>6
<1>11. CASE OnRequest
  <2> DEFINE asked == AsksToClose(context.request)
  <2>0. asked \in BOOLEAN
    BY Answers
  <2>1. PICK close \in BOOLEAN :
          /\ Send(Response(200, asked, close))
          /\ IF close THEN ForceClose ELSE UNCHANGED status
    BY <1>11 DEF OnRequest
  <2> HIDE DEF asked
  <2>2. close \in BOOLEAN /\ Response(200, asked, close) \in Responses
    BY <2>0, <2>1, Answers, ZenonT(30)
  <2>3. status = "connected"
    BY <2>1 DEF Send
  <2>4. OutputInv /\ \A i \in 1..Len(answers) : answers[i].length
    BY <2>3, WireWhileConnected
  <2>5. /\ answers' = Append(answers, Response(200, asked, close))
        /\ wire' \in Seq(HalfResponses) /\ out' \in Seq(HalfResponses)
        /\ writable' \in BOOLEAN /\ OutputInv'
    BY <1>t, <2>1, <2>2, <2>4, SendKeepsOutput
  <2>6. answers' \in Seq(Responses)
    BY <1>t, <2>2, <2>5, AppendProperties
  <2>7. status' \in {"connected", "closed"} /\ (close => status' = "closed")
    BY <2>1, <2>2, <2>3 DEF ForceClose
  <2>8. context' = NewContext /\ pc' = "select" /\ UNCHANGED <<requests, arrived, pos, waited>>
    BY <1>11 DEF OnRequest, ResetContext
  <2>9. TypesInv'
    BY <2>5, <2>6, <2>7, <2>8, NewContextFields, TypesOfOutput
  <2>10. ~Response(200, asked, close).length => status' # "connected"
    BY <2>2, <2>7 DEF Response
  <2>11. WireInOrder'
    BY <1>t, <2>2, <2>4, <2>5, <2>10, WireAfterSend
  <2> QED
    BY <2>9, <2>11
<1> QED
  BY <1>1, <1>2, <1>3, <1>4, <1>5, <1>6, <1>7, <1>8, <1>9, <1>10, <1>11 DEF HttpNext, LoopStep

\* For any requests, the types are right and the client sees the responses in
\* their order, without gaps, and none behind a response without a length.
THEOREM ResponsesInOrder == HttpSpec => []WireInOrder
<1>1. HttpSpec => []WireInv
  BY InitWireInv, NextWireInv, PTL DEF HttpSpec
<1>2. WireInv => WireInOrder
  BY DEF WireInv
<1> QED
  BY <1>1, <1>2, PTL

-----------------------------------------------------------------------------
(* What the parser makes of a request.                                     *)

\* Another line with a colon is added to the headers,
LEMMA CollectHeader ==
    ASSUME NEW lines, NEW k \in Nat, k >= 1, NEW headers, Collected(lines, k, headers),
           lines[k + 1].type = "header"
    PROVE  Collected(lines, k + 1, AddHeader(headers, lines[k + 1]))
<1> DEFINE l == lines[k + 1]
           h == AddHeader(headers, l)
<1>1. /\ DOMAIN h = DOMAIN headers \cup {l.field}
      /\ \A f \in DOMAIN headers : f # l.field => h[f] = headers[f]
      /\ h[l.field] = l.value
  BY DEF AddHeader
<1> HIDE DEF h
<1>2. CASE IsConnection(l)
  <2>1. l.field = "Connection"
    BY <1>2 DEF IsConnection
  <2>2. "Connection" \in DOMAIN h /\ h["Connection"] = l.value
    BY <1>1, <2>1
  <2>3. k + 1 \in 2..(k + 1) /\ LastOf(lines, k + 1, k + 1)
    BY <1>2 DEF LastOf
  <2> QED
    BY <2>2, <2>3 DEF Collected, h
<1>3. CASE ~IsConnection(l)
  <2>1. l.field # "Connection"
    BY <1>3 DEF IsConnection
  <2>2. /\ "Connection" \in DOMAIN h <=> "Connection" \in DOMAIN headers
        /\ "Connection" \in DOMAIN headers => h["Connection"] = headers["Connection"]
    BY <1>1, <2>1
  <2>3. ASSUME NEW i \in 2..(k + 1), IsConnection(lines[i]) PROVE "Connection" \in DOMAIN h
    <3>1. i \in 2..k
      BY <1>3, <2>3
    <3> QED
      BY <2>2, <2>3, <3>1 DEF Collected
  <2>4. ASSUME "Connection" \in DOMAIN h
        PROVE  \E i \in 2..(k + 1) :
                  LastOf(lines, k + 1, i) /\ h["Connection"] = lines[i].value
    <3>1. PICK i \in 2..k : LastOf(lines, k, i) /\ headers["Connection"] = lines[i].value
      BY <2>2, <2>4 DEF Collected
    <3>2. \A j \in (i + 1)..(k + 1) : j \in (i + 1)..k \/ j = k + 1
      OBVIOUS
    <3>3. LastOf(lines, k + 1, i)
      BY <1>3, <3>1, <3>2 DEF LastOf
    <3> QED
      BY <2>2, <2>4, <3>1, <3>3
  <2> QED
    BY <2>3, <2>4 DEF Collected, h
<1> QED
  BY <1>2, <1>3

\* and one without changes nothing.
LEMMA CollectOther ==
    ASSUME NEW lines, NEW k \in Nat, k >= 1, NEW headers, Collected(lines, k, headers),
           lines[k + 1].type # "header"
    PROVE  Collected(lines, k + 1, headers)
<1>0. ~IsConnection(lines[k + 1])
  BY DEF IsConnection
<1>1. ASSUME NEW i \in 2..(k + 1), IsConnection(lines[i]) PROVE "Connection" \in DOMAIN headers
  <2>1. i \in 2..k
    BY <1>0, <1>1
  <2> QED
    BY <1>1, <2>1 DEF Collected
<1>2. ASSUME "Connection" \in DOMAIN headers
      PROVE  \E i \in 2..(k + 1) :
                LastOf(lines, k + 1, i) /\ headers["Connection"] = lines[i].value
  <2>1. PICK i \in 2..k : LastOf(lines, k, i) /\ headers["Connection"] = lines[i].value
    BY <1>2 DEF Collected
  <2>2. \A j \in (i + 1)..(k + 1) : j \in (i + 1)..k \/ j = k + 1
    OBVIOUS
  <2>3. LastOf(lines, k + 1, i)
    BY <1>0, <2>1, <2>2 DEF LastOf
  <2> QED
    BY <2>1, <2>3
<1> QED
  BY <1>1, <1>2 DEF Collected

\* Before the first header there are none.
LEMMA NothingCollected == \A lines : Collected(lines, 1, <<>>)
<1>1. DOMAIN <<>> = {}
  OBVIOUS
<1> QED
  BY <1>1 DEF Collected

\* When all lines have been read, onRequest decides by what the request says.
LEMMA DecidesByRequest ==
    ASSUME NEW kind \in Kinds, WellFormedRequest(kind), NEW request,
           request.version = LinesOf[kind][1].version,
           Collected(LinesOf[kind], Len(LinesOf[kind]), request.headers)
    PROVE  Meaning(kind).status = 200 /\ AsksToClose(request) = Meaning(kind).asked
<1> DEFINE lines == LinesOf[kind]
           says(v) == \E i \in 2..Len(lines) : LastConnection(lines, i) /\ lines[i].value = v
           value == GetHeader(request.headers, "Connection")
           asked == says("close") \/ (lines[1].version = "HTTP/1.0" /\ ~says("Keep-Alive"))
<1>0. Len(lines) \in Nat
  BY RequestHasLines
<1>1. Meaning(kind) = [status |-> 200, asked |-> asked]
  BY DEF Meaning
<1>2. \A i \in 2..Len(lines) : LastConnection(lines, i) <=> LastOf(lines, Len(lines), i)
  BY DEF LastConnection, LastOf, IsConnection
<1>3. ASSUME NEW v, v # "" PROVE says(v) <=> value = v
  <2>1. ASSUME value = v PROVE says(v)
    <3>1. "Connection" \in DOMAIN request.headers /\ request.headers["Connection"] = v
      BY <1>3, <2>1 DEF GetHeader
    <3> QED
      BY <1>2, <3>1 DEF Collected
  <2>2. ASSUME says(v) PROVE value = v
    <3>1. PICK i \in 2..Len(lines) : LastOf(lines, Len(lines), i) /\ lines[i].value = v
      BY <1>2, <2>2
    <3>2. "Connection" \in DOMAIN request.headers
      BY <3>1 DEF Collected, LastOf
    <3>3. PICK j \in 2..Len(lines) :
            LastOf(lines, Len(lines), j) /\ request.headers["Connection"] = lines[j].value
      BY <3>2 DEF Collected
    <3>4. i = j
      <4>1. i < j => j \in (i + 1)..Len(lines)
        BY <1>0
      <4>2. j < i => i \in (j + 1)..Len(lines)
        BY <1>0
      <4> QED
        BY <1>0, <3>1, <3>3, <4>1, <4>2 DEF LastOf
    <3> QED
      BY <3>1, <3>2, <3>3, <3>4 DEF GetHeader
  <2> QED
    BY <2>1, <2>2
<1>4. /\ says("close") <=> value = "close"
      /\ says("Keep-Alive") <=> value = "Keep-Alive"
  <2> HIDE DEF says, value
  <2>1. "close" # "" /\ "Keep-Alive" # ""
    OBVIOUS
  <2> QED
    BY <1>3, <2>1
<1>5. AsksToClose(request) <=> asked
  <2>1. AsksToClose(request) <=>
          \/ value = "close"
          \/ request.version = "HTTP/1.0" /\ value # "Keep-Alive"
    BY DEF AsksToClose
  <2> HIDE DEF says, value
  <2> QED
    BY <1>4, <2>1
<1>6. AsksToClose(request) \in BOOLEAN /\ asked \in BOOLEAN
  BY Answers
<1> HIDE DEF asked
<1>7. AsksToClose(request) = asked
  BY <1>5, <1>6
<1> QED
  BY <1>1, <1>7

-----------------------------------------------------------------------------
(* The parser stays in step with the requests.                             *)

\* Every step keeps the state of the parser and the place in onMessage together.
LEMMA NextParserInv == TypesInv /\ ParserInv /\ [HttpNext]_httpVars => ParserInv'
<1> SUFFICES ASSUME TypesInv, ParserInv, [HttpNext]_httpVars PROVE ParserInv'
  OBVIOUS
<1>t. IsContext(context)
  BY DEF TypesInv
<1>1. CASE UNCHANGED httpVars
  BY <1>1 DEF httpVars, ParserInv
<1>2. ASSUME NEW kind \in Kinds, ClientSends(kind) PROVE ParserInv'
  BY <1>2 DEF ClientSends, ParserInv
<1>3. CASE HandleEof
  BY <1>3 DEF HandleEof, ParserInv
<1>4. CASE HandleRead
  BY <1>4 DEF HandleRead, ParserInv
<1>5. CASE HandleWrite
  BY <1>5 DEF HandleWrite, ParserInv
<1>6. CASE ParseRequestLine
  <2>1. \/ context'.state = "headers" /\ pc' = "parse"
        \/ context'.state = "requestLine" /\ pc' = "bad"
    <3>1. CASE /\ context' = [WithRequestLine(context, Line) EXCEPT !.state = "headers"]
               /\ pc' = "parse"
      BY <1>t, <3>1, RequestLineFields
    <3>2. CASE /\ context' = WithRequestLine(context, Line) /\ pc' = "bad"
               /\ context.state = "requestLine"
      BY <1>t, <3>2, RequestLineFields
    <3> QED
      BY <1>6, <3>1, <3>2 DEF ParseRequestLine
  <2> QED
    BY <1>6, <2>1 DEF ParserInv
<1>7. CASE ParseHeader
  <2>1. \/ context'.state = "headers" /\ pc' = "parse"
        \/ context'.state = "gotAll" /\ pc' = "request"
    <3>1. pc = "parse" /\ context.state = "headers"
      BY <1>7 DEF ParseHeader
    <3>2. CASE context' = [context EXCEPT !.request.headers = AddHeader(@, Line)]
               /\ UNCHANGED pc
      <4>1. PICK h : context' = [context EXCEPT !.request.headers = h]
        BY <3>2
      <4> QED
        BY <1>t, <3>1, <3>2, <4>1, HeaderFields
    <3>3. CASE context' = [context EXCEPT !.state = "gotAll"] /\ pc' = "request"
      BY <1>t, <3>3, HeaderFields
    <3> QED
      BY <1>7, <3>2, <3>3 DEF ParseHeader
  <2> QED
    BY <1>7, <2>1 DEF ParserInv
<1>8. CASE WaitForMore
  BY <1>8 DEF WaitForMore, ParserInv
<1>9. CASE FindStaleLineEnd
  BY <1>9 DEF FindStaleLineEnd, ParserInv
<1>10. CASE BadRequest
  BY <1>10 DEF BadRequest, ForceClose, ParserInv
<1>11. CASE OnRequest
  BY <1>11, NewContextFields DEF OnRequest, ResetContext, ParserInv
<1> QED
  BY <1>1, <1>2, <1>3, <1>4, <1>5, <1>6, <1>7, <1>8, <1>9, <1>10, <1>11 DEF HttpNext, LoopStep

\* InStep depends on the requests, the responses, pos, the context, the status
\* and on whether an error was found.
LEMMA InStepUntouched ==
    ASSUME InStep, UNCHANGED <<requests, answers, pos, context, status>>,
           pc' = "bad" => pc = "bad"
    PROVE  InStep'
BY DEF InStep, AllBounded, ReadUpTo

\* Bounded requests are among those that were sent.
LEMMA BoundedWereSent ==
    ASSUME TypesInv, AllBounded(Len(answers))
    PROVE  Len(answers) \in Nat /\ Len(answers) <= Len(requests) /\ Len(requests) \in Nat
<1>1. Len(answers) \in Nat /\ Len(requests) \in Nat
  BY LenProperties DEF TypesInv, HttpTypeOK
<1>2. CASE Len(answers) = 0
  BY <1>1, <1>2
<1>3. CASE Len(answers) # 0
  <2>1. Len(answers) \in 1..Len(answers)
    BY <1>1, <1>3
  <2> QED
    BY <1>1, <2>1 DEF AllBounded
<1> QED
  BY <1>2, <1>3

\* The client sends one more request.
LEMMA SendingKeepsStep ==
    ASSUME TypesInv, InStep, NoSurplus, AnswersMatchRequests,
           NEW kind \in Kinds, ClientSends(kind)
    PROVE  InStep' /\ NoSurplus' /\ \A i \in 1..Len(answers) :
             AllBounded(i)' => AllBounded(i) /\ i <= Len(requests) /\ requests'[i] = requests[i]
<1> DEFINE n == Len(answers)
<1>1. /\ requests \in Seq(Kinds) /\ requests' = Append(requests, kind)
      /\ n \in Nat /\ Len(requests) \in Nat
      /\ UNCHANGED <<arrived, pos, context, pc, status, out, writable, wire, answers>>
  BY LenProperties DEF ClientSends, TypesInv, HttpTypeOK
<1>2. Len(requests') = Len(requests) + 1 /\ \A j \in 1..Len(requests) : requests'[j] = requests[j]
  BY <1>1, AppendProperties
<1>3. ASSUME \A j \in 1..Len(requests) : Bounded(requests'[j])
      PROVE  n <= Len(requests)
  BY <1>2, <1>3 DEF NoSurplus
<1>4. ASSUME NEW i \in 0..n, AllBounded(i)' PROVE i <= Len(requests) /\ AllBounded(i)
  <2>1. i <= Len(requests)
    <3> SUFFICES ASSUME i > Len(requests) PROVE FALSE
      BY <1>1
    <3>1. \A j \in 1..Len(requests) : j \in 1..i
      BY <1>1
    <3>2. \A j \in 1..Len(requests) : Bounded(requests'[j])
      BY <1>4, <3>1 DEF AllBounded, Bounded, WellFormedRequest
    <3> QED
      BY <1>1, <1>3, <3>2
  <2>2. ASSUME NEW j \in 1..i PROVE j <= Len(requests) /\ Bounded(requests[j])
    <3>1. j \in 1..Len(requests)
      BY <1>1, <2>1
    <3>2. Bounded(requests'[j])
      BY <1>4 DEF AllBounded, Bounded, WellFormedRequest
    <3> QED
      BY <1>2, <3>1, <3>2
  <2> QED
    BY <2>1, <2>2 DEF AllBounded
<1>5. NoSurplus'
  <2> SUFFICES ASSUME \A j \in 1..Len(requests') : Bounded(requests'[j])
               PROVE  Len(answers') <= Len(requests')
    BY DEF NoSurplus, Bounded, WellFormedRequest
  <2>1. \A j \in 1..Len(requests) : Bounded(requests'[j])
    BY <1>1, <1>2
  <2> QED
    BY <1>1, <1>2, <1>3, <2>1
<1>6. InStep'
  <2> SUFFICES ASSUME status = "connected", AllBounded(n)' PROVE InStep'
    BY <1>1 DEF InStep, AllBounded, Bounded, WellFormedRequest
  <2>1. n <= Len(requests) /\ AllBounded(n)
    BY <1>1, <1>4
  <2>2. Taken(requests', n) = Taken(requests, n)
    BY <1>1, <2>1, StreamGrows
  <2>3. n < Len(requests) => n < Len(requests') /\ requests'[n + 1] = requests[n + 1]
    BY <1>1, <1>2
  <2>4. pc = "bad" \/ context.state # "requestLine" => n < Len(requests)
    BY <2>1 DEF InStep
  <2>5. \A k : n < Len(requests) /\ ReadUpTo(n, k) => ReadUpTo(n, k)'
    BY <1>1, <2>2, <2>3 DEF ReadUpTo
  <2> QED
    BY <1>1, <2>1, <2>2, <2>3, <2>4, <2>5 DEF InStep
<1>7. ASSUME NEW i \in 1..n, AllBounded(i)'
      PROVE  AllBounded(i) /\ i <= Len(requests) /\ requests'[i] = requests[i]
  <2>1. i \in 0..n
    BY <1>1
  <2>2. i <= Len(requests) /\ AllBounded(i)
    BY <1>4, <1>7, <2>1
  <2> QED
    BY <1>1, <1>2, <2>2
<1> QED
  BY <1>5, <1>6, <1>7

\* At a complete line, the parser reads the line of the request that is to be
\* answered next.
LEMMA ReadsRequestLine ==
    ASSUME TypesInv, InStep, status = "connected", AllBounded(Len(answers)),
           context.state = "requestLine", LineComplete
    PROVE  /\ Len(answers) < Len(requests)
           /\ Line = LinesOf[requests[Len(answers) + 1]][1]
<1> DEFINE n == Len(answers)
<1>1. n \in Nat /\ n <= Len(requests) /\ Len(requests) \in Nat /\ requests \in Seq(Kinds)
  BY BoundedWereSent DEF TypesInv, HttpTypeOK
<1>2. pos = Len(Taken(requests, n))
  BY DEF InStep
<1>3. Stream = Taken(requests, Len(requests)) /\ Len(Stream) \in Nat /\ pos + 1 \in 1..Len(Stream)
  BY StreamFacts DEF TypesInv
<1>4. n # Len(requests)
  BY <1>2, <1>3
<1>5. /\ requests[n + 1] \in Kinds
      /\ \A i \in 1..Len(LinesOf[requests[n + 1]]) :
           Stream[pos + i] = LinesOf[requests[n + 1]][i]
  BY <1>1, <1>2, <1>3, <1>4, RequestInStream
<1>6. 1 \in 1..Len(LinesOf[requests[n + 1]])
  BY <1>5, RequestHasLines
<1>7. Stream[pos + 1] = LinesOf[requests[n + 1]][1]
  BY <1>5, <1>6
<1> QED
  BY <1>1, <1>4, <1>7 DEF Line

\* The first line of a request begins it or refuses it.
LEMMA RequestLineKeepsStep ==
    ASSUME TypesInv, ParserInv, InStep, ParseRequestLine
    PROVE  InStep'
<1> DEFINE n == Len(answers)
           kind == requests[n + 1]
           lines == LinesOf[kind]
<1>1. /\ pc = "parse" /\ status = "connected" /\ context.state = "requestLine" /\ LineComplete
      /\ UNCHANGED <<requests, answers, status>>
  BY DEF ParseRequestLine
<1>2. SUFFICES ASSUME AllBounded(n) PROVE InStep'
  BY <1>1 DEF InStep, AllBounded, Bounded, WellFormedRequest
<1>3. n < Len(requests) /\ Line = lines[1] /\ n \in Nat
  BY <1>1, <1>2, ReadsRequestLine, BoundedWereSent
<1>4. pos = Len(Taken(requests, n)) /\ IsContext(context) /\ context = NewContext
  BY <1>1, <1>2 DEF InStep, TypesInv, ParserInv
<1>5. CASE /\ GoodRequestLine(Line) /\ pos' = pos + 1 /\ pc' = "parse"
           /\ context' = [WithRequestLine(context, Line) EXCEPT !.state = "headers"]
  <2>1. /\ context'.state = "headers" /\ context'.request.version = lines[1].version
        /\ context'.request.headers = <<>>
    <3>1. NewContext.request.headers = <<>>
      BY DEF NewContext, NewRequest
    <3> QED
      BY <1>3, <1>4, <1>5, <3>1, RequestLineFields
  <2>2. ReadUpTo(n, 1)'
    BY <1>1, <1>4, <1>5, <2>1, NothingCollected DEF ReadUpTo
  <2>3. ASSUME WellFormedRequest(kind) PROVE 1 \in 1..(Len(lines) - 1)
    <3>1. lines \in Seq(Lines) /\ Len(lines) \in Nat /\ Len(lines) >= 1
      <4>1. kind \in Kinds
        BY <1>3, RequestInStream DEF TypesInv, HttpTypeOK
      <4> QED
        BY <4>1, RequestHasLines
    <3>2. lines[1].type = "request" /\ lines[Len(lines)].type = "text"
      BY <2>3 DEF WellFormedRequest, GoodRequestLine
    <3>3. Len(lines) # 1
      BY <3>2
    <3>4. \A m \in Nat : m >= 1 /\ m # 1 => 1 \in 1..(m - 1)
      OBVIOUS
    <3> HIDE DEF lines
    <3> QED
      BY <3>1, <3>3, <3>4, Zenon
  <2> QED
    BY <1>1, <1>3, <1>5, <2>1, <2>2, <2>3 DEF InStep, WellFormedRequest
<1>6. CASE /\ ~GoodRequestLine(Line) /\ pos' = pos /\ pc' = "bad"
           /\ context' = WithRequestLine(context, Line)
  <2>1. context'.state = "requestLine"
    BY <1>1, <1>4, <1>6, RequestLineFields
  <2> QED
    BY <1>1, <1>3, <1>4, <1>6, <2>1 DEF InStep
<1> QED
  BY <1>1, <1>5, <1>6 DEF ParseRequestLine

\* A header, or the end of the headers.
LEMMA HeaderKeepsStep ==
    ASSUME TypesInv, ParserInv, InStep, ParseHeader
    PROVE  InStep'
<1> DEFINE n == Len(answers)
           kind == requests[n + 1]
           lines == LinesOf[kind]
<1>1. /\ pc = "parse" /\ context.state = "headers" /\ LineComplete /\ pos' = pos + 1
      /\ UNCHANGED <<requests, answers, status>>
  BY DEF ParseHeader
<1>2. SUFFICES ASSUME AllBounded(n), status = "connected" PROVE InStep'
  BY <1>1 DEF InStep, AllBounded, Bounded, WellFormedRequest
<1>3. /\ n < Len(requests) /\ GoodRequestLine(lines[1]) /\ n \in Nat /\ IsContext(context)
      /\ requests \in Seq(Kinds)
  BY <1>1, <1>2, BoundedWereSent DEF InStep, TypesInv, HttpTypeOK
<1>4. ASSUME WellFormedRequest(kind)
      PROVE  \E k \in 1..(Len(lines) - 1) :
               /\ ReadUpTo(n, k) /\ Line = lines[k + 1] /\ k \in Nat /\ Len(lines) \in Nat
               /\ Line.type = "header" => k + 1 \in 1..(Len(lines) - 1)
               /\ Line.type # "header" => k + 1 = Len(lines)
  <2>1. PICK k \in 1..(Len(lines) - 1) : ReadUpTo(n, k)
    BY <1>1, <1>2, <1>4 DEF InStep
  <2>2. /\ kind \in Kinds /\ Len(Taken(requests, n)) \in Nat
        /\ \A i \in 1..Len(lines) : Stream[Len(Taken(requests, n)) + i] = lines[i]
    <3>1. Stream = Taken(requests, Len(requests))
      BY StreamFacts DEF TypesInv
    <3> QED
      BY <1>3, <3>1, RequestInStream
  <2>3. Len(lines) \in Nat /\ k + 1 \in 1..Len(lines) /\ k \in Nat
    BY <2>2, RequestHasLines
  <2>4. pos + 1 = Len(Taken(requests, n)) + (k + 1)
    BY <2>1, <2>2, <2>3 DEF ReadUpTo
  <2>5. Line = lines[k + 1]
    BY <2>2, <2>3, <2>4 DEF Line
  <2>6. lines[Len(lines)].type = "text" /\ \A i \in 2..(Len(lines) - 1) : lines[i].type = "header"
    BY <1>4 DEF WellFormedRequest
  <2>7. Line.type = "header" => k + 1 # Len(lines)
    BY <2>5, <2>6
  <2>8. Line.type # "header" => ~(k + 1 \in 2..(Len(lines) - 1))
    BY <2>5, <2>6
  <2> QED
    BY <2>1, <2>3, <2>5, <2>7, <2>8
<1>5. CASE /\ Line.type = "header" /\ pc' = pc
           /\ context' = [context EXCEPT !.request.headers = AddHeader(@, Line)]
  <2> DEFINE h == AddHeader(context.request.headers, Line)
  <2>1. /\ context'.state = "headers" /\ context'.request.headers = h
        /\ context'.request.version = context.request.version
    <3>1. context' = [context EXCEPT !.request.headers = h]
      BY <1>3, <1>5 DEF IsContext
    <3> HIDE DEF h
    <3> QED
      BY <1>1, <1>3, <3>1, HeaderFields
  <2>2. ASSUME WellFormedRequest(kind) PROVE \E k \in 1..(Len(lines) - 1) : ReadUpTo(n, k)'
    <3>1. PICK k \in 1..(Len(lines) - 1) :
            /\ ReadUpTo(n, k) /\ Line = lines[k + 1] /\ k \in Nat
            /\ k + 1 \in 1..(Len(lines) - 1)
      BY <1>4, <1>5, <2>2
    <3>2. Collected(lines, k + 1, h)
      BY <1>5, <3>1, CollectHeader DEF ReadUpTo
    <3>3. pos' = Len(Taken(requests, n)) + (k + 1)
      <4>1. Len(Taken(requests, n)) \in Nat
        BY <1>3, RequestInStream
      <4> QED
        BY <1>1, <3>1, <4>1 DEF ReadUpTo
    <3>4. context.request.version = lines[1].version
      BY <3>1 DEF ReadUpTo
    <3> HIDE DEF h
    <3>5. ReadUpTo(n, k + 1)'
      BY <1>1, <2>1, <3>2, <3>3, <3>4 DEF ReadUpTo
    <3> QED
      BY <3>1, <3>5
  <2> HIDE DEF h
  <2> QED
    BY <1>1, <1>3, <1>5, <2>1, <2>2 DEF InStep, WellFormedRequest
<1>6. CASE /\ Line.type # "header" /\ pc' = "request"
           /\ context' = [context EXCEPT !.state = "gotAll"]
  <2>1. context'.state = "gotAll" /\ context'.request = context.request
    BY <1>3, <1>6, HeaderFields
  <2>2. ASSUME WellFormedRequest(kind) PROVE ReadUpTo(n, Len(lines))'
    <3>1. PICK k \in 1..(Len(lines) - 1) :
            ReadUpTo(n, k) /\ Line = lines[k + 1] /\ k \in Nat /\ k + 1 = Len(lines)
      BY <1>4, <1>6, <2>2
    <3>2. Collected(lines, k + 1, context.request.headers)
      BY <1>6, <3>1, CollectOther DEF ReadUpTo
    <3>3. pos' = Len(Taken(requests, n)) + (k + 1)
      <4>1. Len(Taken(requests, n)) \in Nat
        BY <1>3, RequestInStream
      <4> QED
        BY <1>1, <3>1, <4>1 DEF ReadUpTo
    <3>4. context.request.version = lines[1].version
      BY <3>1 DEF ReadUpTo
    <3>5. ReadUpTo(n, k + 1)'
      BY <1>1, <2>1, <3>2, <3>3, <3>4 DEF ReadUpTo
    <3> QED
      BY <3>1, <3>5, <1>1
  <2> QED
    BY <1>1, <1>3, <1>6, <2>1, <2>2 DEF InStep, WellFormedRequest
<1> QED
  BY <1>1, <1>5, <1>6 DEF ParseHeader

-----------------------------------------------------------------------------
(* The responses.                                                          *)

\* What AnswersMatchRequests says of the i-th response.
Matches(i) ==
    /\ answers[i].status = Meaning(requests[i]).status
    /\ answers[i].asked = Meaning(requests[i]).asked

\* AnswersMatchRequests in the terms of the proof.
LEMMA AnswersInTerms ==
    AnswersMatchRequests <=>
        /\ HttpTypeOK
        /\ pc = "parse" /\ context.state = "requestLine" => context.request.method = "invalid"
        /\ \A i \in 1..Len(answers) : AllBounded(i) => Matches(i)
BY DEF AnswersMatchRequests, AllBounded, Bounded, Matches

\* The same after a step.
LEMMA AnswersInTermsNext ==
    AnswersMatchRequests' <=>
        /\ HttpTypeOK'
        /\ (pc = "parse" /\ context.state = "requestLine")' => (context.request.method = "invalid")'
        /\ \A i \in 1..Len(answers') : AllBounded(i)' => Matches(i)'
BY DEF AnswersMatchRequests, AllBounded, Bounded, Matches, WellFormedRequest, Meaning

\* A step that sends no response and no request changes none.
LEMMA AnswersUntouched ==
    ASSUME \A i \in 1..Len(answers) : AllBounded(i) => Matches(i), NoSurplus,
           UNCHANGED <<requests, answers>>
    PROVE  /\ \A i \in 1..Len(answers') : AllBounded(i)' => Matches(i)'
           /\ NoSurplus'
BY DEF AllBounded, Matches, NoSurplus

\* A response that matches the request it answers keeps the others.
LEMMA AnswersGrow ==
    ASSUME TypesInv, \A i \in 1..Len(answers) : AllBounded(i) => Matches(i), NoSurplus,
           UNCHANGED requests,
           NEW answer \in Responses, answers' = Append(answers, answer),
           AllBounded(Len(answers)) => Len(answers) < Len(requests),
           AllBounded(Len(answers) + 1) =>
              LET kind == requests[Len(answers) + 1] IN
              answer.status = Meaning(kind).status /\ answer.asked = Meaning(kind).asked
    PROVE  /\ \A i \in 1..Len(answers') : AllBounded(i)' => Matches(i)'
           /\ NoSurplus'
<1> DEFINE n == Len(answers)
<1>1. /\ answers \in Seq(Responses) /\ n \in Nat /\ Len(answers') = n + 1
      /\ \A i \in 1..n : answers'[i] = answers[i]
      /\ Len(requests) \in Nat
  BY LenProperties, AppendProperties DEF TypesInv, HttpTypeOK
<1>a. answers'[n + 1] = answer
  BY <1>1, AppendProperties
<1>2. ASSUME NEW i \in 1..(n + 1), AllBounded(i)' PROVE Matches(i)'
  <2>1. AllBounded(i)
    BY <1>2 DEF AllBounded
  <2>2. CASE i = n + 1
    BY <1>a, <2>1, <2>2 DEF Matches
  <2>3. CASE i # n + 1
    <3>1. i \in 1..n
      BY <1>1, <2>3
    <3> QED
      BY <1>1, <2>1, <3>1 DEF Matches
  <2> QED
    BY <2>2, <2>3
<1>3. NoSurplus'
  <2> SUFFICES ASSUME \A j \in 1..Len(requests) : Bounded(requests[j])
               PROVE  n + 1 <= Len(requests)
    BY <1>1 DEF NoSurplus
  <2>1. n <= Len(requests)
    BY DEF NoSurplus
  <2>2. AllBounded(n)
    BY <1>1, <2>1 DEF AllBounded
  <2> QED
    BY <1>1, <2>2
<1> QED
  BY <1>1, <1>2, <1>3

\* 400 answers a request whose first line refuses it.
LEMMA BadRequestMatches ==
    ASSUME AnswerInv, BadRequest, HttpTypeOK'
    PROVE  AnswersMatchRequests' /\ NoSurplus' /\ InStep'
<1> DEFINE n == Len(answers)
           kind == requests[n + 1]
<1>1. /\ TypesInv /\ InStep /\ NoSurplus /\ pc = "bad" /\ status = "connected"
      /\ answers' = Append(answers, BadRequestResponse) /\ requests' = requests
      /\ pc' = "select" /\ status' = "closed"
      /\ \A i \in 1..n : AllBounded(i) => Matches(i)
  BY AnswersInTerms DEF AnswerInv, BadRequest, Send, ForceClose
<1>2. AllBounded(n) => n < Len(requests) /\ ~GoodRequestLine(LinesOf[kind][1])
  BY <1>1 DEF InStep
<1>3. ASSUME AllBounded(n + 1)
      PROVE  /\ BadRequestResponse.status = Meaning(kind).status
             /\ BadRequestResponse.asked = Meaning(kind).asked
  <2>1. AllBounded(n)
    <3>1. \A j \in 1..n : j \in 1..(n + 1)
      BY <1>1, LenProperties DEF TypesInv
    <3> QED
      BY <1>3, <3>1 DEF AllBounded
  <2>2. ~WellFormedRequest(kind)
    BY <1>2, <2>1 DEF WellFormedRequest
  <2> QED
    BY <2>2 DEF Meaning, BadRequestResponse
<1>4. (\A i \in 1..Len(answers') : AllBounded(i)' => Matches(i)') /\ NoSurplus'
  BY <1>1, <1>2, <1>3, Answers, AnswersGrow
<1>5. InStep'
  BY <1>1 DEF InStep
<1> QED
  BY <1>1, <1>4, <1>5, AnswersInTermsNext

\* The response to a request that was read as a whole, and the next one.
LEMMA OnRequestMatches ==
    ASSUME AnswerInv, OnRequest, HttpTypeOK'
    PROVE  AnswersMatchRequests' /\ NoSurplus' /\ InStep'
<1> DEFINE n == Len(answers)
           kind == requests[n + 1]
           lines == LinesOf[kind]
           asked == AsksToClose(context.request)
<1>1. PICK close \in BOOLEAN : Send(Response(200, asked, close))
  BY DEF OnRequest
<1>2. /\ TypesInv /\ InStep /\ NoSurplus /\ pc = "request" /\ status = "connected"
      /\ context.state = "gotAll"
      /\ answers' = Append(answers, Response(200, asked, close))
      /\ UNCHANGED <<requests, pos>>
      /\ pc' = "select" /\ context' = NewContext
      /\ \A i \in 1..n : AllBounded(i) => Matches(i)
  <2>1. AnswerInv /\ ParserInv
    BY DEF AnswerInv
  <2>2. pc = "request" /\ context' = NewContext /\ pc' = "select" /\ UNCHANGED <<requests, pos>>
    BY DEF OnRequest, ResetContext
  <2>3. status = "connected" /\ answers' = Append(answers, Response(200, asked, close))
    BY <1>1 DEF Send
  <2> QED
    BY <2>1, <2>2, <2>3, AnswersInTerms DEF AnswerInv, ParserInv
<1>3. asked \in BOOLEAN /\ close \in BOOLEAN /\ Response(200, asked, close) \in Responses
  BY <1>1, Answers
<1>4. /\ n \in Nat /\ requests \in Seq(Kinds) /\ answers \in Seq(Responses)
      /\ Len(answers') = n + 1
  BY <1>2, <1>3, LenProperties, AppendProperties DEF TypesInv, HttpTypeOK
<1> HIDE DEF asked
<1>5. AllBounded(n) =>
        /\ n < Len(requests) /\ GoodRequestLine(lines[1])
        /\ WellFormedRequest(kind) => ReadUpTo(n, Len(lines))
  BY <1>2 DEF InStep
<1>6. ASSUME AllBounded(n + 1)
      PROVE  /\ WellFormedRequest(kind) /\ ReadUpTo(n, Len(lines)) /\ n < Len(requests)
             /\ kind \in Kinds
  <2>1. AllBounded(n)
    <3>1. \A j \in 1..n : j \in 1..(n + 1)
      BY <1>4
    <3> QED
      BY <1>6, <3>1 DEF AllBounded
  <2>2. Bounded(kind)
    <3>1. n + 1 \in 1..(n + 1)
      BY <1>4
    <3> QED
      BY <1>6, <3>1 DEF AllBounded
  <2>3. WellFormedRequest(kind)
    BY <1>5, <2>1, <2>2 DEF Bounded
  <2> QED
    BY <1>4, <1>5, <2>1, <2>3, RequestInStream
<1>7. ASSUME AllBounded(n + 1)
      PROVE  /\ Response(200, asked, close).status = Meaning(kind).status
             /\ Response(200, asked, close).asked = Meaning(kind).asked
  <2>1. Meaning(kind).status = 200 /\ asked = Meaning(kind).asked
    BY <1>6, <1>7, DecidesByRequest DEF ReadUpTo, asked
  <2> QED
    BY <2>1 DEF Response
<1>8. (\A i \in 1..Len(answers') : AllBounded(i)' => Matches(i)') /\ NoSurplus'
  BY <1>2, <1>3, <1>5, <1>7, AnswersGrow
<1>9. InStep'
  <2>1. context'.state = "requestLine" /\ pc' # "bad" /\ Len(answers') = n + 1
    BY <1>2, <1>4, NewContextFields
  <2>2. pos' = pos /\ requests' = requests
    BY <1>2
  <2>3. AllBounded(Len(answers))' <=> AllBounded(n + 1)
    BY <2>1, <2>2 DEF AllBounded, Bounded, WellFormedRequest
  <2>4. AllBounded(n + 1) => pos = Len(Taken(requests, n + 1))
    BY <1>4, <1>6, RequestInStream DEF ReadUpTo
  <2> QED
    BY <2>1, <2>2, <2>3, <2>4 DEF InStep
<1> QED
  BY <1>2, <1>8, <1>9, NewContextFields, AnswersInTermsNext

\* A new connection has answered nothing.
LEMMA InitAnswerInv == HttpInit => AnswerInv
<1> SUFFICES ASSUME HttpInit PROVE AnswerInv
  OBVIOUS
<1>1. TypesInv /\ WireInOrder
  BY InitWireInv DEF WireInv
<1>2. /\ requests = <<>> /\ answers = <<>> /\ pos = 0 /\ context = NewContext
      /\ pc = "select"
  BY DEF HttpInit
<1>3. Len(requests) = 0 /\ Len(answers) = 0 /\ requests \in Seq(Kinds)
  BY <1>2, EmptySeq
<1>4. ParserInv
  BY <1>2, NewContextFields DEF ParserInv
<1>5. InStep
  <2>1. Taken(requests, 0) = <<>>
    BY <1>3, NothingTaken
  <2>2. Len(Taken(requests, 0)) = 0
    BY <2>1
  <2> QED
    BY <1>2, <1>3, <2>2, NewContextFields DEF InStep
<1>6. NoSurplus
  BY <1>3 DEF NoSurplus
<1>7. AnswersMatchRequests
  BY <1>1, <1>2, <1>3, AnswersInTerms DEF TypesInv
<1> QED
  BY <1>1, <1>4, <1>5, <1>6, <1>7 DEF AnswerInv

\* Every step keeps the parser and the responses in step with the requests.
LEMMA NextAnswerInv == AnswerInv /\ [HttpNext]_httpVars => AnswerInv'
<1> SUFFICES ASSUME AnswerInv, [HttpNext]_httpVars PROVE AnswerInv'
  OBVIOUS
<1>1. /\ TypesInv /\ WireInOrder /\ ParserInv /\ InStep /\ NoSurplus /\ AnswersMatchRequests
      /\ \A i \in 1..Len(answers) : AllBounded(i) => Matches(i)
  BY AnswersInTerms DEF AnswerInv
<1>2. TypesInv' /\ WireInOrder'
  BY <1>1, NextWireInv DEF WireInv
<1>3. ParserInv'
  BY <1>1, NextParserInv
<1>4. HttpTypeOK' /\ ((pc = "parse" /\ context.state = "requestLine")'
                    => (context.request.method = "invalid")')
  BY <1>2, <1>3, NewContextFields DEF ParserInv, TypesInv
<1>5. SUFFICES /\ InStep' /\ NoSurplus'
               /\ \A i \in 1..Len(answers') : AllBounded(i)' => Matches(i)'
  BY <1>2, <1>3, <1>4, AnswersInTermsNext DEF AnswerInv
<1>6. ASSUME UNCHANGED <<requests, answers>>, InStep'
      PROVE  /\ InStep' /\ NoSurplus'
             /\ \A i \in 1..Len(answers') : AllBounded(i)' => Matches(i)'
  BY <1>1, <1>6, AnswersUntouched
<1>7. CASE UNCHANGED httpVars
  BY <1>1, <1>6, <1>7, InStepUntouched DEF httpVars
<1>8. ASSUME NEW kind \in Kinds, ClientSends(kind)
      PROVE  /\ InStep' /\ NoSurplus'
             /\ \A i \in 1..Len(answers') : AllBounded(i)' => Matches(i)'
  <2>1. InStep' /\ NoSurplus' /\ \A i \in 1..Len(answers) :
          AllBounded(i)' => AllBounded(i) /\ i <= Len(requests) /\ requests'[i] = requests[i]
    BY <1>1, <1>8, SendingKeepsStep
  <2>2. answers' = answers
    BY <1>8 DEF ClientSends
  <2>3. ASSUME NEW i \in 1..Len(answers'), AllBounded(i)' PROVE Matches(i)'
    <3>1. AllBounded(i) /\ requests'[i] = requests[i] /\ i \in 1..Len(answers)
      BY <2>1, <2>2, <2>3
    <3>2. Matches(i)
      BY <1>1, <3>1
    <3>3. Meaning(requests[i])' = Meaning(requests'[i])
      BY DEF Meaning, WellFormedRequest, LastConnection, GoodRequestLine, Methods, Versions
    <3> QED
      BY <2>2, <3>1, <3>2, <3>3 DEF Matches
  <2> QED
    BY <2>1, <2>3
<1>9. CASE HandleEof
  <2>1. InStep'
    BY <1>9 DEF HandleEof, InStep
  <2> QED
    BY <1>6, <1>9, <2>1 DEF HandleEof
<1>10. CASE HandleRead
  BY <1>1, <1>6, <1>10, InStepUntouched DEF HandleRead
<1>11. CASE HandleWrite
  BY <1>1, <1>6, <1>11, InStepUntouched DEF HandleWrite
<1>12. CASE ParseRequestLine
  BY <1>1, <1>6, <1>12, RequestLineKeepsStep DEF ParseRequestLine
<1>13. CASE ParseHeader
  BY <1>1, <1>6, <1>13, HeaderKeepsStep DEF ParseHeader
<1>14. CASE WaitForMore
  BY <1>1, <1>6, <1>14, InStepUntouched DEF WaitForMore
<1>15. CASE FindStaleLineEnd
  <2>1. InStep'
    BY <1>15 DEF FindStaleLineEnd, InStep
  <2> QED
    BY <1>6, <1>15, <2>1 DEF FindStaleLineEnd
<1>16. CASE BadRequest
  BY <1>4, <1>16, BadRequestMatches, AnswersInTermsNext
<1>17. CASE OnRequest
  BY <1>4, <1>17, OnRequestMatches, AnswersInTermsNext
<1> QED
  BY <1>7, <1>8, <1>9, <1>10, <1>11, <1>12, <1>13, <1>14, <1>15, <1>16, <1>17
     DEF HttpNext, LoopStep

\* For any requests whose lines tell where they end, cut into any pieces, the
\* i-th response answers the i-th request, and nothing an earlier one said.
THEOREM ResponsesMatch == HttpSpec => []AnswersMatchRequests
<1>1. HttpSpec => []AnswerInv
  BY InitAnswerInv, NextAnswerInv, PTL DEF HttpSpec
<1>2. AnswerInv => AnswersMatchRequests
  BY DEF AnswerInv
<1> QED
  BY <1>1, <1>2, PTL

=============================================================================
