----------------------------- MODULE OrderedMap -----------------------------
(***************************************************************************)
(* What base/rbtree promises to a caller that keeps the nodes it was given *)
(* as handles, as TimerQueueRbtree does: a map with one entry per key,     *)
(* each entry in a node.                                                   *)
(*                                                                         *)
(* Deleting a node removes the entry it holds.  It does not promise that   *)
(* the other entries stay where they are: the entry with the next key may  *)
(* move into the deleted node, and then it is that entry's node which is   *)
(* freed.  Only the entries with the least and with the greatest key are   *)
(* deleted without such a move.                                            *)
(***************************************************************************)
EXTENDS Integers, Functions

CONSTANTS Keys, Nodes

VARIABLE entry      \* partial function: the key of the entry in each used node

TypeOK == \E used \in SUBSET Nodes : entry \in [used -> Keys]

InUse(k) == \E n \in DOMAIN entry : entry[n] = k

\* m holds the entry that follows the one of n in the order of the keys.
Follows(m, n) ==
    /\ entry[n] < entry[m]
    /\ \A o \in DOMAIN entry : entry[o] > entry[n] => entry[o] >= entry[m]

Init == entry = [n \in {} |-> 0]

Insert(n, k) ==
    /\ n \notin DOMAIN entry
    /\ ~InUse(k)
    /\ entry' = [o \in DOMAIN entry \cup {n} |-> IF o = n THEN k ELSE entry[o]]

Delete(n) ==
    /\ n \in DOMAIN entry
    /\ entry' = Restrict(entry, DOMAIN entry \ {n})

\* The next entry moves into n and its own node is freed.
DeleteByMoving(n) ==
    /\ n \in DOMAIN entry
    /\ \E o \in DOMAIN entry : entry[o] < entry[n]
    /\ \E m \in DOMAIN entry :
        /\ Follows(m, n)
        /\ entry' = [Restrict(entry, DOMAIN entry \ {m}) EXCEPT ![n] = entry[m]]

Next == \E n \in Nodes :
            \/ \E k \in Keys : Insert(n, k)
            \/ Delete(n)
            \/ DeleteByMoving(n)

Spec == Init /\ [][Next]_entry
=============================================================================
