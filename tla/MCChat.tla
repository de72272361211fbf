------------------------------- MODULE MCChat -------------------------------
(* Two sockets on one conversation, over the store in memory and over Redis. *)
EXTENDS ChatStream, TLC

CONSTANTS s1, s2, t1, t2

\* Two sockets in memory, one at a time over Redis, where an append is three commands.
BothStores == [memory |-> 2, redis |-> 1]

\* Sockets and tasks are interchangeable.
Interchangeable == Permutations({s1, s2}) \cup Permutations({t1, t2})

=============================================================================
