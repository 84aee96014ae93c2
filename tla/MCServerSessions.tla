-------------------------- MODULE MCServerSessions --------------------------
\* Symmetry for TLC: rows, one-time tokens and requests are interchangeable.
EXTENDS ServerSessions, TLC

Symmetry == Permutations(Sessions) \cup Permutations(Resets) \cup Permutations(Requests)
=============================================================================
