------------------------------- MODULE MCRbTree -------------------------------
(* Model checking of RbTree: the only bound is the set of keys, which also    *)
(* bounds the nodes in use at one time.                                       *)
EXTENDS RbTree

\* The tree by its keys.  Addresses are only compared for equality, and which
\* free one malloc returns makes no difference to what happens later, so two
\* states with the same Shape have the same future up to the names of the nodes.
Shape ==
    <<t.key[t.root], crashed, mirrored,
      {<<t.key[n], t.val[n], t.col[n], t.key[t.left[n]], t.key[t.right[n]],
         t.key[t.parent[n]]>> : n \in used}>>
===============================================================================
