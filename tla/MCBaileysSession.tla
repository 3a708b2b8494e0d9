-------------------------- MODULE MCBaileysSession --------------------------
EXTENDS BaileysSession, TLC
\* Old sockets and requests are interchangeable.
Symmetric == Permutations(Socks) \cup Permutations(Requests) \cup Permutations(Objs)
=============================================================================
