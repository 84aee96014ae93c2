---------------------------- MODULE MCNextRouter ----------------------------
\* Symmetry for TLC: what is drawn at random, or only compared, is interchangeable.
EXTENDS NextRouter, TLC

Symmetry ==
    Permutations(Passwords) \cup Permutations(Sessions) \cup Permutations(Tokens)
        \cup Permutations(Links)
===========================================================================
