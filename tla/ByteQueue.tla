----------------------------- MODULE ByteQueue -----------------------------
(***************************************************************************)
(* What IoBuffer promises: a queue of bytes.  Bytes are appended at the    *)
(* end, prepended at the front, and taken or discarded from the front; the *)
(* bytes that are not taken stay what they were, in their order.           *)
(***************************************************************************)
EXTENDS Naturals, Sequences

CONSTANT Bytes

VARIABLES
    content,    \* the readable bytes
    moved       \* the bytes the last operation was given or handed over

queueVars == <<content, moved>>

Init == content = <<>> /\ moved = <<>>

\* The bytes moved' were put at the end, at the front.
PutBack == moved' \in Seq(Bytes) /\ content' = content \o moved'
PutFront == moved' \in Seq(Bytes) /\ content' = moved' \o content

\* The first n bytes leave the queue and are handed over, or are skipped.
Take ==
    \E n \in 0..Len(content) :
        /\ moved' \in {SubSeq(content, 1, n), <<>>}
        /\ content' = SubSeq(content, n + 1, Len(content))

Next == PutBack \/ PutFront \/ Take

Spec == Init /\ [][Next]_queueVars
=============================================================================
