------------------------------ MODULE MCWebserv ------------------------------
(* Instances of Webserv for TLC.                                              *)
EXTENDS Webserv, TLC

\* Connections and process ids are interchangeable; descriptors are not, the
\* kernel hands them out in order.
Symmetry == Permutations(Conns) \cup Permutations(Pids)

=============================================================================
