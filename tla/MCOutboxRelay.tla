--------------------------- MODULE MCOutboxRelay ---------------------------
(* Small instances of OutboxRelay: two rows, two relay processes.          *)
EXTENDS OutboxRelay, TLC

CONSTANTS m1, m2, r1, r2

\* OUTBOX_RELAY_ID is set per replica.
DistinctIDs == r1 :> "relay-1" @@ r2 :> "relay-2"

ReviewTopics == m1 :> "review.run.acknowledged" @@ m2 :> "review.run.admitted"
=============================================================================
