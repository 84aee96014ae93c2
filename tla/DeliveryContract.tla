-------------------------- MODULE DeliveryContract --------------------------
(***************************************************************************)
(* What an outbox promises about each message, whatever worker drains it:  *)
(* it waits until it is sent or given up, it is only recorded as sent if a *)
(* provider accepted it, and sent is for ever.  Where a message given up   *)
(* may be replayed, it waits again.  How often the provider accepts it is  *)
(* not promised: delivery is at least once.                                *)
(***************************************************************************)
CONSTANTS
    Messages,      \* messages that may be queued
    Replays        \* TRUE when an administrator may replay a message given up

VARIABLES
    state,         \* state[m]: absent, waiting, sent or dead
    accepted       \* accepted[m]: a provider accepted m at least once

Init ==
    /\ state = [m \in Messages |-> "absent"]
    /\ accepted = [m \in Messages |-> FALSE]

Queue(m) ==
    /\ state[m] = "absent"
    /\ state' = [state EXCEPT ![m] = "waiting"]
    /\ UNCHANGED accepted

\* A provider may accept a message late, when it is already settled.
Accept(m) ==
    /\ state[m] # "absent"
    /\ accepted' = [accepted EXCEPT ![m] = TRUE]
    /\ UNCHANGED state

Sent(m) ==
    /\ state[m] = "waiting"
    /\ accepted[m]
    /\ state' = [state EXCEPT ![m] = "sent"]
    /\ UNCHANGED accepted

GiveUp(m) ==
    /\ state[m] = "waiting"
    /\ state' = [state EXCEPT ![m] = "dead"]
    /\ UNCHANGED accepted

Replay(m) ==
    /\ Replays
    /\ state[m] = "dead"
    /\ state' = [state EXCEPT ![m] = "waiting"]
    /\ UNCHANGED accepted

Next == \E m \in Messages : Queue(m) \/ Accept(m) \/ Sent(m) \/ GiveUp(m) \/ Replay(m)

Spec == Init /\ [][Next]_<<state, accepted>>
=============================================================================
