--------------------------- MODULE MCServerPayments -------------------------
(***************************************************************************)
(* Bounds for TLC.  The free product of credits, orders and refunds is out *)
(* of its reach: each behaviour is about one of them.                      *)
(***************************************************************************)
EXTENDS ServerPayments, TLC

CONSTANTS o1, o2, r1, r2, r3, u2

VARIABLE area   \* bound: what a behaviour is about

\* Two parts of one order, which do not share its credits evenly, and the whole of it.
AskedRefunds ==
    [r \in Refunds |-> [order |-> o1, amount |-> CASE r = r1 -> 1 [] r = r2 -> 2 [] OTHER -> Amount]]

Untouched(reservations, requests) ==
    /\ now = 0 /\ \A l \in Grants : total[l] = 0
    /\ \A r \in reservations : held[r] = "NONE" /\ r \notin returned
    /\ \A r \in Refunds \cap reservations : refund[r] = "NONE"
    /\ \A s \in requests : state[s] = "NONE"

\* Lots that expire, with reservations; two orders, with subscriptions; one order, with
\* everything that may happen to its refunds and its credits.
Within ==
    CASE area = "credits" -> \A o \in Orders : order[o] = "NONE"
      [] area = "orders"  -> offered /\ Untouched(Reservations \ {r3}, Requests)
      [] area = "refunds" -> order[o2] = "NONE" /\ Untouched({u2}, {})

MCInit == Init /\ area \in {"credits", "orders", "refunds"}

MCNext == Next /\ UNCHANGED area /\ Within'

MCSpec == MCInit /\ [][MCNext]_<<vars, area>>

Symmetry == Permutations(Grants)
=============================================================================
