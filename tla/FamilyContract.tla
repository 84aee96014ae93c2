--------------------------- MODULE FamilyContract ---------------------------
(***************************************************************************)
(* What rotating sessions promise, whatever store keeps them.  A login     *)
(* opens a family of tokens.  At any time one token of a family is valid   *)
(* at most; a rotation replaces it by one that was never used before.      *)
(* When the family ends none of its tokens becomes valid again.            *)
(***************************************************************************)
CONSTANTS
    Families,      \* one for each login
    Tokens         \* tokens that may be handed out

VARIABLES
    issued,        \* tokens handed out so far
    opened,        \* families that were opened
    valid          \* valid[f]: tokens of f that open a session

Init ==
    /\ issued = {}
    /\ opened = {}
    /\ valid = [f \in Families |-> {}]

Issue(t) ==
    /\ t \notin issued
    /\ issued' = issued \cup {t}

\* A login, which may come too late: then its token is never valid.
Open(f, t) ==
    /\ f \notin opened
    /\ Issue(t)
    /\ opened' = opened \cup {f}
    /\ \/ valid' = [valid EXCEPT ![f] = {t}]
       \/ UNCHANGED valid

Rotate(f, t) ==
    /\ valid[f] # {}
    /\ Issue(t)
    /\ valid' = [valid EXCEPT ![f] = {t}]
    /\ UNCHANGED opened

\* Some families end together: a logout from everywhere, a new password, a cleanup.
End ==
    /\ valid' = [f \in Families |-> IF valid'[f] = {} THEN {} ELSE valid[f]]
    /\ UNCHANGED <<issued, opened>>

Next ==
    \/ \E f \in Families, t \in Tokens : Open(f, t) \/ Rotate(f, t)
    \/ End

Spec == Init /\ [][Next]_<<issued, opened, valid>>
=============================================================================
