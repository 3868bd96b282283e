---------------------------- MODULE MCThreadPool ----------------------------
(* Instances of ThreadPool for TLC.                                        *)
EXTENDS ThreadPool, TLC

\* Sound for the safety runs only: workers, addresses and clients are interchangeable.
Symmetry == Permutations(Worker) \cup Permutations(Node) \cup Permutations(Conn)
=============================================================================
