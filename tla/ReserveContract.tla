--------------------------- MODULE ReserveContract ---------------------------
(***************************************************************************)
(* What the withdrawal subsystem promises about an owner's money, whatever *)
(* engine implements it: an amount is held when a withdrawal is requested, *)
(* and later either returned to the owner or spent, once and for ever.     *)
(* An amount is held only out of what is free at that moment.  The owner's *)
(* income is not its business: it may grow, and shrink by refunds, below   *)
(* what is held and spent as well.                                         *)
(***************************************************************************)
EXTENDS Integers, Functions

CONSTANTS
    Withdrawals,   \* withdrawal requests, each with its own idempotency key
    Amount         \* Amount[w]: amount of w in minor units

VARIABLES
    income,        \* what was credited to the owner and not refunded
    fund           \* fund[w]: what became of the amount of w

FundStates == {"idle", "held", "returned", "spent"}

\* What a withdrawal takes away from, or leaves in, the owner's balance.
Weight(w) == IF fund[w] \in {"held", "spent"} THEN -Amount[w] ELSE 0

Free == income + SumFunction([w \in Withdrawals |-> Weight(w)])

Init ==
    /\ income \in Nat
    /\ fund = [w \in Withdrawals |-> "idle"]

Moves(w, from, to) ==
    /\ fund[w] = from
    /\ fund' = [fund EXCEPT ![w] = to]
    /\ UNCHANGED income

Hold(w) ==
    /\ Amount[w] <= Free
    /\ Moves(w, "idle", "held")

Return(w) == Moves(w, "held", "returned")

Spend(w) == Moves(w, "held", "spent")

Earn ==
    /\ income' \in Nat
    /\ UNCHANGED fund

Next ==
    \/ Earn
    \/ \E w \in Withdrawals : Hold(w) \/ Return(w) \/ Spend(w)

Spec == Init /\ [][Next]_<<income, fund>>
=============================================================================
