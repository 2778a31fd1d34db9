---------------------------- MODULE OutboxRelay ----------------------------
(***************************************************************************)
(* The transactional outbox and its relays.  A business transaction        *)
(* inserts a row (insertOutbox); relay processes claim rows under a        *)
(* 30-second lease, publish them with publisher confirms and then mark or  *)
(* release them (internal/store/workflow.go, internal/messaging/relay.go   *)
(* and amqp.go).  Relays are fenced by the configured OUTBOX_RELAY_ID and  *)
(* not by a claim token, so two replicas may share an identity.            *)
(*                                                                         *)
(* Time is abstracted: a lease is live or it has lapsed, a backoff has     *)
(* elapsed or not.  BatchSize is left at its default of one by             *)
(* cmd/outbox-relay, so a relay holds one row at a time.                   *)
(***************************************************************************)
EXTENDS Broker

CONSTANTS
    Relays,    \* relay processes
    RelayID,   \* the OUTBOX_RELAY_ID each of them runs with
    Topic,     \* the topic of each message
    None       \* no owner, no message

ASSUME RelayAssumption ==
    /\ DOMAIN RelayID = Relays
    /\ \A r \in Relays : RelayID[r] # None
    /\ None \notin Messages
    /\ DOMAIN Topic = Messages

VARIABLES
    outbox, \* rows of outbox_messages
    relay,  \* what each relay process is doing
    wire    \* copies written to a socket that the broker has not decided

relayVars == <<outbox, relay, wire>>
vars == <<outbox, relay, wire, queue, dead, accepted, faults>>

RelayIDs == {RelayID[r] : r \in Relays}

Rows == [state : {"absent", "pending", "published"},
         lockedBy : RelayIDs \cup {None},
         leased : BOOLEAN,   \* locked_until is set and in the future
         due : BOOLEAN,      \* available_at has been reached
         attempts : Nat]     \* publish_attempts

RelayStates == [pc : {"idle", "claimed", "awaiting", "marking", "releasing"},
                msg : Messages \cup {None},
                attempt : Nat]

Idle == [pc |-> "idle", msg |-> None, attempt |-> 0]

TypeOK ==
    /\ BrokerTypeOK
    /\ outbox \in [Messages -> Rows]
    /\ relay \in [Relays -> RelayStates]
    /\ wire \subseteq Copies
    /\ \A r \in Relays : relay[r].pc # "idle" => relay[r].msg \in Messages

Init ==
    /\ BrokerInit
    /\ outbox = [m \in Messages |->
                    [state |-> "absent", lockedBy |-> None, leased |-> FALSE,
                     due |-> TRUE, attempts |-> 0]]
    /\ relay = [r \in Relays |-> Idle]
    /\ wire = {}

-----------------------------------------------------------------------------
(* Urgency, eligibility and ownership of rows.                             *)

\* The ORDER BY CASE of ClaimOutbox.
ClaimPriority(topic) ==
    CASE topic = "review.interaction.response" -> 31
      [] topic = "review.run.acknowledged" -> 28
      [] topic = "review.interaction.admission" -> 24
      [] topic \in {"review.run.cancelled", "review.run.superseded",
                    "review.run.failed", "review.run.needs_attention"} -> 16
      [] topic \in {"review.run.admitted:security", "external.issue.create"} -> 8
      [] topic = "notification.destination.test" -> 6
      [] OTHER -> 4

\* Mutant: the lease is not consulted.
ClaimableLeased(m) == outbox[m].state = "pending" /\ outbox[m].due

\* Mutant: a claim that was never given back is never taken over.
ClaimableUnowned(m) ==
    /\ outbox[m].state = "pending"
    /\ outbox[m].due
    /\ outbox[m].lockedBy = None

Claimable(m) ==
    /\ outbox[m].state = "pending"
    /\ outbox[m].due
    /\ ~outbox[m].leased

CopyOf(r) == <<relay[r].msg, relay[r].attempt>>

\* Mutant: the update is not restricted to the relay that holds the row.
OwnsAnyRow(r) == outbox[relay[r].msg].state = "pending"

\* The WHERE clause shared by MarkOutboxPublished and ReleaseOutbox.
OwnsRow(r) ==
    /\ outbox[relay[r].msg].lockedBy = RelayID[r]
    /\ outbox[relay[r].msg].state = "pending"

\* A process that still works on the latest claim of m.
LiveHolder(m) ==
    \E r \in Relays : /\ relay[r].pc # "idle"
                      /\ relay[r].msg = m
                      /\ relay[r].attempt = outbox[m].attempts

-----------------------------------------------------------------------------
(* The store and the relay loop.                                           *)

\* A business transaction commits the row; a second insert with the same
\* dedupe_key does nothing.
InsertOutbox(m) ==
    /\ outbox[m].state = "absent"
    /\ outbox' = [outbox EXCEPT ![m].state = "pending"]
    /\ UNCHANGED <<relay, wire, queue, dead, accepted, faults>>

ClaimOutbox(r, m) ==
    /\ relay[r].pc = "idle"
    /\ Claimable(m)
    /\ \A n \in Messages :
          Claimable(n) => ClaimPriority(Topic[m]) >= ClaimPriority(Topic[n])
    /\ outbox' = [outbox EXCEPT ![m].lockedBy = RelayID[r],
                                ![m].leased = TRUE,
                                ![m].attempts = @ + 1]
    /\ relay' = [relay EXCEPT ![r] = [pc |-> "claimed", msg |-> m,
                                      attempt |-> outbox[m].attempts + 1]]
    /\ UNCHANGED <<wire, queue, dead, accepted, faults>>

\* The frame is written; the relay now waits for this copy's confirm.
Publish(r) ==
    /\ relay[r].pc = "claimed"
    /\ relay' = [relay EXCEPT ![r].pc = "awaiting"]
    /\ wire' = wire \cup {CopyOf(r)}
    /\ UNCHANGED <<outbox, queue, dead, accepted, faults>>

BrokerAccepts(copy) ==
    /\ copy \in wire
    /\ wire' = wire \ {copy}
    /\ Accept(copy)
    /\ UNCHANGED <<outbox, relay, dead, faults>>

\* A negative confirm, a mandatory return or a broken connection: the copy
\* is in no queue, and a relay that still waits for it sees the error.
BrokerRefuses(copy) ==
    /\ copy \in wire
    /\ Fault
    /\ wire' = wire \ {copy}
    /\ relay' = [r \in Relays |->
                    IF relay[r].pc = "awaiting" /\ CopyOf(r) = copy
                    THEN [relay[r] EXCEPT !.pc = "releasing"]
                    ELSE relay[r]]
    /\ UNCHANGED <<outbox, queue, dead, accepted>>

Confirmed(r) ==
    /\ relay[r].pc = "awaiting"
    /\ CopyOf(r) \in accepted
    /\ relay' = [relay EXCEPT ![r].pc = "marking"]
    /\ UNCHANGED <<outbox, wire, queue, dead, accepted, faults>>

\* Mutant: a missing confirm is taken for success.
TimeoutIsSuccess(r) ==
    /\ relay[r].pc = "awaiting"
    /\ Fault
    /\ relay' = [relay EXCEPT ![r].pc = "marking"]
    /\ UNCHANGED <<outbox, wire, queue, dead, accepted>>

\* The deadline passes first.  The channel is dropped, so a late confirm is
\* never seen, but the broker may have accepted the copy or still accept it.
PublishTimesOut(r) ==
    /\ relay[r].pc = "awaiting"
    /\ Fault
    /\ relay' = [relay EXCEPT ![r].pc = "releasing"]
    /\ UNCHANGED <<outbox, wire, queue, dead, accepted>>

MarkOutboxPublished(r) ==
    /\ relay[r].pc = "marking"
    /\ OwnsRow(r)
    /\ outbox' = [outbox EXCEPT ![relay[r].msg].state = "published",
                                ![relay[r].msg].lockedBy = None,
                                ![relay[r].msg].leased = FALSE]
    /\ relay' = [relay EXCEPT ![r] = Idle]
    /\ UNCHANGED <<wire, queue, dead, accepted, faults>>

ReleaseOutbox(r) ==
    /\ relay[r].pc = "releasing"
    /\ OwnsRow(r)
    /\ outbox' = [outbox EXCEPT ![relay[r].msg].lockedBy = None,
                                ![relay[r].msg].leased = FALSE,
                                ![relay[r].msg].due = FALSE]
    /\ relay' = [relay EXCEPT ![r] = Idle]
    /\ UNCHANGED <<wire, queue, dead, accepted, faults>>

\* The update matched no row: ErrJobClaimLost, Flush returns the error.
RelayClaimLost(r) ==
    /\ relay[r].pc \in {"marking", "releasing"}
    /\ ~OwnsRow(r)
    /\ relay' = [relay EXCEPT ![r] = Idle]
    /\ UNCHANGED <<outbox, wire, queue, dead, accepted, faults>>

\* The process dies, or the store cannot be reached to mark or release.
RelayAbandons(r) ==
    /\ relay[r].pc # "idle"
    /\ Fault
    /\ relay' = [relay EXCEPT ![r] = Idle]
    /\ UNCHANGED <<outbox, wire, queue, dead, accepted>>

\* available_at is reached after a release pushed it into the future.
BackoffElapses(m) ==
    /\ ~outbox[m].due
    /\ outbox' = [outbox EXCEPT ![m].due = TRUE]
    /\ UNCHANGED <<relay, wire, queue, dead, accepted, faults>>

\* locked_until passes after the holder of the latest claim is gone.
OutboxLeaseLapses(m) ==
    /\ outbox[m].leased
    /\ ~LiveHolder(m)
    /\ outbox' = [outbox EXCEPT ![m].leased = FALSE]
    /\ UNCHANGED <<relay, wire, queue, dead, accepted, faults>>

\* locked_until passes while the holder is still at work (a stalled process
\* or a slow store: the 15s publish timeout normally ends well before).
OutboxLeaseOverruns(m) ==
    /\ outbox[m].leased
    /\ LiveHolder(m)
    /\ Fault
    /\ outbox' = [outbox EXCEPT ![m].leased = FALSE]
    /\ UNCHANGED <<relay, wire, queue, dead, accepted>>

\* The steps a relay takes once it holds a row (the body of Flush).
Flush(r) ==
    \/ Publish(r)
    \/ Confirmed(r)
    \/ MarkOutboxPublished(r)
    \/ ReleaseOutbox(r)
    \/ RelayClaimLost(r)

RelayNext ==
    \/ \E m \in Messages :
          \/ InsertOutbox(m)
          \/ BackoffElapses(m)
          \/ OutboxLeaseLapses(m)
          \/ OutboxLeaseOverruns(m)
    \/ \E r \in Relays :
          \/ \E m \in Messages : ClaimOutbox(r, m)
          \/ Flush(r)
          \/ PublishTimesOut(r)
          \/ RelayAbandons(r)
    \/ \E copy \in wire : BrokerAccepts(copy) \/ BrokerRefuses(copy)

Next == RelayNext

\* A running relay polls every second and finishes what it started; clocks
\* advance; a broker that is up answers.  Faults are never fair.
RelayFairness ==
    /\ \A r \in Relays : WF_vars(Flush(r))
    /\ WF_vars(\E r \in Relays, m \in Messages : ClaimOutbox(r, m))
    /\ WF_vars(\E copy \in wire : BrokerAccepts(copy))
    /\ \A m \in Messages : /\ WF_vars(BackoffElapses(m))
                           /\ WF_vars(OutboxLeaseLapses(m))

Spec == Init /\ [][Next]_vars /\ RelayFairness

-----------------------------------------------------------------------------
(* Properties.                                                             *)

\* A row is only recorded as published when the broker has durably accepted
\* a copy of it: Flush may mark a row only after Publish returned nil, i.e.
\* after the confirm of the copy this very relay wrote.
PublishedWasAccepted ==
    \A m \in Messages : outbox[m].state = "published" =>
        \E copy \in accepted : copy[1] = m

\* Every physical duplicate is paid for by a fault: without a lost confirm,
\* a crash, an overrun lease or a store error the lease of ClaimOutbox keeps
\* a row from being published twice.
DuplicatesNeedFaults ==
    Cardinality(accepted) =<
        Cardinality({m \in Messages : outbox[m].state # "absent"}) + faults

\* While a row is pending, its claim is given up only by the relay that made
\* the latest claim: a relay that stalled past its lease and finds another
\* owner can neither mark nor release the row (the locked_by predicate).
\* This needs relays with distinct identities.
LatestClaimDecides ==
    [][\A m \in Messages :
          (outbox[m].lockedBy # None /\ outbox'[m].lockedBy = None) =>
              \E r \in Relays : /\ relay[r].msg = m
                                /\ relay[r].attempt = outbox[m].attempts
                                /\ relay'[r] = Idle]_vars

\* A committed row is eventually published, whatever relays did before they
\* crashed, timed out or lost their claim.
EventuallyPublished ==
    \A m \in Messages :
        outbox[m].state = "pending" ~> outbox[m].state = "published"
=============================================================================
