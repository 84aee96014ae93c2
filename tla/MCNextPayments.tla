--------------------------- MODULE MCNextPayments ---------------------------
\* Providers of the payments for TLC: two orders with Orange, and one payment with Stripe
\* or with the simulator.
EXTENDS NextPayments, TLC

CONSTANTS o1, o2, s1, l1

ProviderOf ==
    [p \in Payments |-> CASE p \in {o1, o2} -> "orange_money_ml"
                          [] p = s1 -> "stripe"
                          [] OTHER -> "local"]

\* Bound: a behaviour has a payment with one of the providers that need no call.
OneDirect == payment[s1] = "NONE" \/ payment[l1] = "NONE"

Symmetry ==
    Permutations({o1, o2}) \cup Permutations(CheckoutKeys) \cup Permutations(RefundKeys)
        \cup Permutations(Servers)
=============================================================================
