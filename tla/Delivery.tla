------------------------------ MODULE Delivery ------------------------------
(***************************************************************************)
(* The whole hand-off: OutboxRelay and InboxConsumer share one broker      *)
(* queue.  A step is a step of one of them; the abstract Arrive of the     *)
(* consumer's environment is here the BrokerAccepts of a real relay.       *)
(***************************************************************************)
EXTENDS Naturals, FiniteSets

CONSTANTS Messages, RedeliveryLimit, MaxFaults,
          Relays, RelayID, Topic, None,
          Workers, NoDelivery

\* What the two sides assume of their constants (Broker, OutboxRelay).
ASSUME DeliveryAssumption ==
    /\ IsFiniteSet(Messages)
    /\ RedeliveryLimit \in Nat
    /\ MaxFaults \in Nat
    /\ DOMAIN RelayID = Relays
    /\ \A r \in Relays : RelayID[r] # None
    /\ None \notin Messages
    /\ DOMAIN Topic = Messages

VARIABLES queue, dead, accepted, faults,
          outbox, relay, wire,
          inbox, worker, effects

relayVars == <<outbox, relay, wire>>
inboxVars == <<inbox, worker, effects>>
vars == <<queue, dead, accepted, faults, relayVars, inboxVars>>

Producer == INSTANCE OutboxRelay
Consumer == INSTANCE InboxConsumer

Init == Producer!Init /\ Consumer!Init

Next ==
    \/ Producer!RelayNext /\ UNCHANGED inboxVars
    \/ Consumer!ConsumerNext /\ UNCHANGED relayVars

\* The fairness of the parts, stated over the variables of the whole.
Fairness ==
    /\ \A r \in Relays : WF_vars(Producer!Flush(r) /\ UNCHANGED inboxVars)
    /\ WF_vars(/\ \E r \in Relays, m \in Messages : Producer!ClaimOutbox(r, m)
               /\ UNCHANGED inboxVars)
    /\ WF_vars(/\ \E copy \in wire : Producer!BrokerAccepts(copy)
               /\ UNCHANGED inboxVars)
    /\ \A m \in Messages :
          /\ WF_vars(Producer!BackoffElapses(m) /\ UNCHANGED inboxVars)
          /\ WF_vars(Producer!OutboxLeaseLapses(m) /\ UNCHANGED inboxVars)
    /\ \A w \in Workers :
          WF_vars(Consumer!HandleExactlyOnce(w) /\ UNCHANGED relayVars)
    /\ WF_vars(/\ \E w \in Workers, delivery \in queue : Consumer!Receive(w, delivery)
               /\ UNCHANGED relayVars)

Spec == Init /\ [][Next]_vars /\ Fairness

-----------------------------------------------------------------------------
(* Properties.                                                             *)

\* The real relays are an environment the consumer was analysed under: the
\* composition implements InboxConsumer, every relay step being an Arrive,
\* a FaultElsewhere or a stutter.
ImplementsConsumer == Consumer!SafeSpec

\* Nothing committed to the outbox gets lost on the way: a row is waiting to
\* be published, or a broker copy, a dead letter or an inbox row accounts
\* for it.
CommittedIsAccountedFor ==
    \A m \in Messages : outbox[m].state # "absent" =>
        \/ outbox[m].state = "pending"
        \/ Consumer!LiveCopy(m)
        \/ inbox[m].state \in {"completed", "claimed"}

\* Every committed row is eventually handled, dead-lettered or left behind
\* as an abandoned claim.
EventuallyHandled ==
    \A m \in Messages : outbox[m].state = "pending" ~>
        \/ inbox[m].state = "completed"
        \/ \E copy \in dead : copy[1] = m
        \/ Consumer!Abandoned(m)
=============================================================================
