---------------------------- MODULE MCTcpServer ----------------------------
(* Model checking of TcpServer: the bounds are the connections, the        *)
(* descriptors, the messages, each used at most once, and the threads that *)
(* call ForceClose once.                                                   *)
EXTENDS TcpServer, TLC

\* These are only compared for equality (NextId orders identifiers, which are
\* numbers).
Symmetry == Permutations(Conns) \cup Permutations(Fds)
                \cup Permutations(Messages) \cup Permutations(Threads)
=============================================================================
