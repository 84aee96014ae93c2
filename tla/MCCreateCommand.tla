--------------------------- MODULE MCCreateCommand --------------------------
\* Answer files a journey meets: one that lacks an answer, one with a base the family does
\* not accept, and one that is complete.
EXTENDS CreateCommand

Complete ==
    [[q \in Questions |-> IF q \in DOMAIN Condition THEN "undefined" ELSE CHOOSE v \in Choices[q] : TRUE]
        EXCEPT ![Family] = "cloud", ![Base] = "neon"]

MCFiles ==
    {Complete, [Complete EXCEPT ![Payment] = "undefined"], [Complete EXCEPT ![Base] = "mysql"]}

MCRewritten == {Family, Vps, Shared, Hybrid, Base, Payment}
=============================================================================
