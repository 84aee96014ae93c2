----------------------------- MODULE MCPayouts -----------------------------
(***************************************************************************)
(* Small instances of Payouts: every withdrawal costs one unit.  The free  *)
(* product of two withdrawals with reconciliation, suspensions and         *)
(* deactivations is out of reach: each behaviour is about a pair of        *)
(* withdrawals, or about a single one and everything that can happen to    *)
(* it.  Only what the environment does is bounded, never a worker's step.  *)
(***************************************************************************)
EXTENDS Payouts

CONSTANTS w2

VARIABLE area   \* bound: what a behaviour is about

UnitAmount == [w \in Withdrawals |-> 1]

Within ==
    CASE area = "pair"   -> /\ providerUp /\ ownerActive /\ account # "SUSPENDED"
                            /\ crashes = 0 /\ Cardinality(mishap) <= 1
                            /\ \A r \in Reconcilers : recon[r].step = "idle"
      [] area = "single" -> /\ status[w2] = "NONE"
                            /\ account # "PENDING_VERIFICATION" => income = MaxIncome
                            /\ \A w \in Withdrawals : approved[w] => ownerActive /\ account = "VERIFIED"

MCInit == Init /\ area \in {"pair", "single"}

MCNext == Next /\ UNCHANGED area /\ Within'

MCFairness ==
    /\ \A k \in Workers : WF_vars(WorkerStep(k) /\ UNCHANGED area)
    /\ \A w \in Withdrawals :
         WF_vars(LeaseExpires(w) /\ UNCHANGED area) /\ WF_vars(BackoffElapses(w) /\ UNCHANGED area)

MCSpec == MCInit /\ [][MCNext]_<<vars, area>> /\ MCFairness
=============================================================================
