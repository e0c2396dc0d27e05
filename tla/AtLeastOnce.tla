---------------------------- MODULE AtLeastOnce ----------------------------
(***************************************************************************)
(* What the messaging package promises for an entry that was recorded in   *)
(* the transaction of a business write: its event is given to the bus,     *)
(* delivered to all its handlers, once or more often, or given up after    *)
(* its retries; it is acknowledged only after the bus has accepted it, and *)
(* delivered only if it was recorded.                                      *)
(***************************************************************************)
CONSTANT Entries

VARIABLES
    recorded,       \* entries whose transaction has committed
    accepted,       \* entries that the bus has been given
    acknowledged,   \* entries that the outbox is done with
    delivered,      \* entries that all handlers have handled
    abandoned       \* entries that are FAILED, in the outbox or on the bus

vars == <<recorded, accepted, acknowledged, delivered, abandoned>>

Init ==
    /\ recorded = {} /\ accepted = {} /\ acknowledged = {}
    /\ delivered = {} /\ abandoned = {}

Record(e) ==
    /\ recorded' = recorded \cup {e}
    /\ UNCHANGED <<accepted, acknowledged, delivered, abandoned>>

Accept(e) ==
    /\ e \in recorded
    /\ accepted' = accepted \cup {e}
    /\ UNCHANGED <<recorded, acknowledged, delivered, abandoned>>

\* A late replica may acknowledge what another one gave up.
Acknowledge(e) ==
    /\ e \in accepted
    /\ acknowledged' = acknowledged \cup {e}
    /\ abandoned' \in {abandoned, abandoned \ {e}}
    /\ UNCHANGED <<recorded, accepted, delivered>>

Deliver(e) ==
    /\ e \in accepted
    /\ delivered' = delivered \cup {e}
    /\ UNCHANGED <<recorded, accepted, acknowledged, abandoned>>

\* Also what was delivered, or acknowledged by somebody else.
Abandon(e) ==
    /\ e \in recorded
    /\ abandoned' = abandoned \cup {e}
    /\ acknowledged' \in {acknowledged, acknowledged \ {e}}
    /\ UNCHANGED <<recorded, accepted, delivered>>

\* An acknowledgement that was reported as failed is tried again.
Reopen(e) ==
    /\ acknowledged' = acknowledged \ {e}
    /\ UNCHANGED <<recorded, accepted, delivered, abandoned>>

\* A late replica finishes what another one gave up, after it was delivered.
Revive(e) ==
    /\ e \in delivered
    /\ abandoned' = abandoned \ {e}
    /\ UNCHANGED <<recorded, accepted, acknowledged, delivered>>

Next ==
    \E e \in Entries :
        \/ Record(e) \/ Accept(e) \/ Acknowledge(e) \/ Deliver(e)
        \/ Abandon(e) \/ Reopen(e) \/ Revive(e)

Spec == Init /\ [][Next]_vars

\* Nothing recorded is left in between for ever.
Settles == \A e \in Entries : e \in recorded ~> e \in delivered \cup abandoned
=============================================================================
