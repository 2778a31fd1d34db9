-------------------------- MODULE Delivery_proofs --------------------------
(***************************************************************************)
(* Proofs about the composition, drawn from the proofs about its two       *)
(* sides: what is proved of a relay step and of a consumer step is carried *)
(* over to steps of the whole.                                             *)
(***************************************************************************)
EXTENDS Delivery, FiniteSetTheorems, TLAPS

P == INSTANCE OutboxRelay_proofs
C == INSTANCE InboxConsumer_proofs

-----------------------------------------------------------------------------
(* Delivery's own instances and those of the proofs say the same.          *)

LEMMA SidesAssume ==
    /\ P!IsFiniteSet(Messages) /\ C!IsFiniteSet(Messages)
    /\ RedeliveryLimit \in Nat /\ MaxFaults \in Nat
    /\ DOMAIN RelayID = Relays
    /\ \A r \in Relays : RelayID[r] # None
    /\ None \notin Messages
    /\ DOMAIN Topic = Messages
<1>1. P!IsFiniteSet(Messages)
  BY DeliveryAssumption DEF P!IsFiniteSet, IsFiniteSet
<1>2. C!IsFiniteSet(Messages)
  BY DeliveryAssumption DEF C!IsFiniteSet, IsFiniteSet
<1> QED BY <1>1, <1>2, DeliveryAssumption

LEMMA SameRelayNext == Producer!RelayNext <=> P!RelayNext
BY Zenon
   DEF P!RelayNext, P!Flush, P!InsertOutbox, P!BackoffElapses, P!OutboxLeaseLapses,
       P!OutboxLeaseOverruns, P!ClaimOutbox, P!PublishTimesOut,
       P!RelayAbandons, P!BrokerAccepts, P!BrokerRefuses, P!Publish,
       P!Confirmed, P!MarkOutboxPublished, P!ReleaseOutbox, P!RelayClaimLost,
       P!LiveHolder, P!Claimable, P!ClaimPriority, P!CopyOf, P!OwnsRow,
       P!Idle, P!Fault, P!Accept, Producer!RelayNext, Producer!Flush,
       Producer!InsertOutbox, Producer!BackoffElapses,
       Producer!OutboxLeaseLapses, Producer!OutboxLeaseOverruns,
       Producer!ClaimOutbox, Producer!PublishTimesOut,
       Producer!RelayAbandons, Producer!BrokerAccepts,
       Producer!BrokerRefuses, Producer!Publish, Producer!Confirmed,
       Producer!MarkOutboxPublished, Producer!ReleaseOutbox,
       Producer!RelayClaimLost, Producer!LiveHolder, Producer!Claimable,
       Producer!ClaimPriority, Producer!CopyOf, Producer!OwnsRow,
       Producer!Idle, Producer!Fault, Producer!Accept

LEMMA SameConsumerNext == Consumer!ConsumerNext <=> C!ConsumerNext
BY Zenon
   DEF C!ConsumerNext, C!Receive, C!HandleExactlyOnce, C!HandlerFails,
       C!StoreUnavailable, C!WorkerCrashes, C!InboxLeaseLapses,
       C!InboxLeaseOverruns, C!ClaimInbox, C!ClaimRefused, C!HandlerSucceeds,
       C!CompleteInbox, C!ReleaseInbox, C!InboxClaimLost, C!Ack, C!Nack,
       C!Msg, C!Takeable, C!OwnsClaim, C!LiveClaim, C!MessageOf, C!Return,
       C!Idle, C!Fault, Consumer!ConsumerNext, Consumer!Receive,
       Consumer!HandleExactlyOnce, Consumer!HandlerFails,
       Consumer!StoreUnavailable, Consumer!WorkerCrashes,
       Consumer!InboxLeaseLapses, Consumer!InboxLeaseOverruns,
       Consumer!ClaimInbox, Consumer!ClaimRefused, Consumer!HandlerSucceeds,
       Consumer!CompleteInbox, Consumer!ReleaseInbox,
       Consumer!InboxClaimLost, Consumer!Ack, Consumer!Nack, Consumer!Msg,
       Consumer!Takeable, Consumer!OwnsClaim, Consumer!LiveClaim,
       Consumer!MessageOf, Consumer!Return, Consumer!Idle, Consumer!Fault

LEMMA SameNext == Consumer!Next <=> C!Next
BY SameConsumerNext, Zenon
   DEF Consumer!Next, C!Next, Consumer!Arrive, C!Arrive, Consumer!Accept,
       C!Accept, Consumer!FaultElsewhere, C!FaultElsewhere, Consumer!Fault,
       C!Fault

LEMMA SameInit == (Producer!Init <=> P!Init) /\ (Consumer!Init <=> C!Init)
BY Zenon
   DEF Producer!Init, P!Init, Producer!BrokerInit, P!BrokerInit,
       Producer!Idle, P!Idle, Consumer!Init, C!Init, Consumer!BrokerInit,
       C!BrokerInit, Consumer!Idle, C!Idle

LEMMA SameLiveCopy == \A m : Consumer!LiveCopy(m) <=> C!LiveCopy(m)
BY Zenon
   DEF Consumer!LiveCopy, C!LiveCopy, Consumer!MessageOf, C!MessageOf,
       Consumer!Msg, C!Msg

-----------------------------------------------------------------------------
(* The invariant and the steps of the two sides.                           *)

\* What the relays keep, what the consumer keeps.
RelayInv == P!PaidInv /\ P!FreshCopies /\ P!Inv
DeliveryInv == RelayInv /\ C!TypeOK /\ C!UnfinishedWorkIsVisible

LEMMA InvInit == Init => DeliveryInv
<1> SUFFICES ASSUME Init PROVE DeliveryInv
  OBVIOUS
<1>1. P!Init /\ C!Init
  BY SameInit DEF Init
<1>2. P!PaidInv
  BY <1>1, P!PaidInit, SidesAssume
<1>3. C!TypeOK
  BY <1>1, C!InitType, SidesAssume
<1>4. accepted = {} /\ wire = {}
  BY <1>1 DEF P!Init, P!BrokerInit
<1>5. \A r \in Relays : relay[r].pc = "idle"
  BY <1>1 DEF P!Init, P!Idle
<1>6. \A m \in Messages : outbox[m].state = "absent"
  BY <1>1 DEF P!Init
<1>7. P!FreshCopies
  BY <1>4, <1>5 DEF P!FreshCopies
<1>8. P!Inv
  BY <1>2, <1>5, <1>6 DEF P!Inv, P!PaidInv, P!MarkingWasAccepted, P!PublishedWasAccepted
<1>9. C!UnfinishedWorkIsVisible
  BY <1>4 DEF C!UnfinishedWorkIsVisible, C!Arrived
<1> QED BY <1>2, <1>3, <1>7, <1>8, <1>9 DEF DeliveryInv, RelayInv

\* A consumer step leaves the relays and what was accepted alone.
LEMMA ConsumerFrame ==
    ASSUME C!ConsumerNext
    PROVE  accepted' = accepted /\ (faults' = faults \/ faults' = faults + 1)
BY Zenon
   DEF C!ConsumerNext, C!HandleExactlyOnce, C!Receive, C!ClaimInbox,
       C!ClaimRefused, C!HandlerSucceeds, C!HandlerFails, C!CompleteInbox,
       C!ReleaseInbox, C!InboxClaimLost, C!StoreUnavailable, C!Ack, C!Nack,
       C!WorkerCrashes, C!InboxLeaseLapses, C!InboxLeaseOverruns, C!Fault

\* A relay step hands a copy to the broker, or it touches nothing that the
\* consumer sees but the count of faults.
LEMMA RelayFrame ==
    ASSUME P!RelayNext
    PROVE  \/ \E copy \in wire : P!BrokerAccepts(copy)
           \/ UNCHANGED <<queue, dead, accepted, faults>>
           \/ P!Fault /\ UNCHANGED <<queue, dead, accepted>>
BY ZenonT(60)
   DEF P!RelayNext, P!Flush, P!InsertOutbox, P!BackoffElapses,
       P!OutboxLeaseLapses, P!OutboxLeaseOverruns, P!ClaimOutbox, P!Publish,
       P!Confirmed, P!MarkOutboxPublished, P!ReleaseOutbox, P!RelayClaimLost,
       P!PublishTimesOut, P!RelayAbandons, P!BrokerRefuses

\* A copy that the broker accepts is a new one, and its number is within the
\* bound that the consumer's environment assumes.
LEMMA AcceptsArrive ==
    ASSUME DeliveryInv, NEW copy \in wire, P!BrokerAccepts(copy),
           UNCHANGED inboxVars
    PROVE  \E m \in Messages : C!Arrive(m)
<1>1. /\ wire \subseteq P!Copies /\ outbox \in [Messages -> P!Rows]
      /\ faults \in 0..MaxFaults
  BY DEF DeliveryInv, RelayInv, P!PaidInv, P!TypeOK, P!BrokerTypeOK
<1>2. PICK m \in Messages, n \in Nat : copy = <<m, n>>
  BY <1>1 DEF P!Copies
<1>3. n \in 1..outbox[m].attempts /\ outbox[m].attempts \in Nat
  BY <1>1, <1>2 DEF DeliveryInv, RelayInv, P!PaidInv, P!ClaimsNumbered, P!Rows
<1>4. outbox[m].attempts <= 1 + faults
  BY P!ClaimsBounded, SidesAssume DEF DeliveryInv, RelayInv
<1>5. n \in 1..(1 + MaxFaults)
  BY <1>1, <1>3, <1>4, SidesAssume
<1>6. <<m, n>> \notin accepted
  BY <1>2 DEF DeliveryInv, RelayInv, P!FreshCopies
<1>7. C!Accept(<<m, n>>) /\ UNCHANGED <<inbox, worker, effects, dead, faults>>
  BY <1>2, Zenon DEF P!BrokerAccepts, P!Accept, C!Accept, inboxVars
<1> QED BY <1>5, <1>6, <1>7 DEF C!Arrive

\* Every step of the composition is a step of the consumer analysed alone.
LEMMA StepImplements ==
    ASSUME DeliveryInv, [Next]_vars
    PROVE  [C!Next]_C!vars
<1>1. CASE UNCHANGED vars
  BY <1>1 DEF vars, inboxVars, C!vars
<1>2. CASE C!ConsumerNext
  BY <1>2 DEF C!Next
<1>3. CASE P!RelayNext /\ UNCHANGED inboxVars
  <2>1. CASE \E copy \in wire : P!BrokerAccepts(copy)
    BY <1>3, <2>1, AcceptsArrive DEF C!Next
  <2>2. CASE UNCHANGED <<queue, dead, accepted, faults>>
    BY <1>3, <2>2 DEF inboxVars, C!vars
  <2>3. CASE P!Fault /\ UNCHANGED <<queue, dead, accepted>>
    <3>1. C!FaultElsewhere
      BY <1>3, <2>3 DEF C!FaultElsewhere, C!Fault, P!Fault, inboxVars
    <3> QED BY <3>1 DEF C!Next
  <2> QED BY <1>3, <2>1, <2>2, <2>3, RelayFrame
<1> QED BY <1>1, <1>2, <1>3, SameRelayNext, SameConsumerNext DEF Next

\* The relays' invariants mind neither the consumer's steps nor its faults.
LEMMA ConsumerKeepsRelays ==
    ASSUME RelayInv, C!TypeOK', UNCHANGED relayVars, accepted' = accepted,
           faults' = faults \/ faults' = faults + 1
    PROVE  RelayInv'
<1>1. UNCHANGED <<outbox, relay, wire>>
  BY DEF relayVars
<1>2. P!TypeOK'
  <2>1. P!BrokerTypeOK'
    BY DEF C!TypeOK, C!BrokerTypeOK, P!BrokerTypeOK, C!Deliveries, P!Deliveries,
           C!Copies, P!Copies
  <2> QED BY <1>1, <2>1 DEF RelayInv, P!Inv, P!TypeOK
<1>3. P!ClaimsNumbered'
  BY <1>1 DEF RelayInv, P!PaidInv, P!ClaimsNumbered, P!Working
<1>4. P!Debts' = P!Debts
  BY <1>1 DEF P!Debts, P!Reclaimable, P!LiveHolder, P!Copies
<1>5. P!DebtsArePaid'
  BY <1>4, P!FaultsElsewhere, SidesAssume DEF RelayInv, P!PaidInv
<1>6. P!FreshCopies'
  BY <1>1 DEF RelayInv, P!FreshCopies, P!CopyOf
<1>7. P!MarkingWasAccepted' /\ P!PublishedWasAccepted'
  BY <1>1 DEF RelayInv, P!Inv, P!MarkingWasAccepted, P!PublishedWasAccepted, P!CopyOf
<1> QED BY <1>2, <1>3, <1>5, <1>6, <1>7 DEF RelayInv, P!PaidInv, P!Inv

\* And their own steps keep them.
LEMMA RelaysKeepRelays ==
    ASSUME RelayInv, [P!Next]_P!vars
    PROVE  RelayInv'
<1>1. P!PaidInv'
  BY P!PaidStep, SidesAssume DEF RelayInv
<1>2. P!FreshCopies'
  BY P!FreshKept, SidesAssume DEF RelayInv
<1>3. P!MarkingWasAccepted'
  BY P!StepMarking, SidesAssume DEF RelayInv
<1>4. P!PublishedWasAccepted'
  BY P!StepPublished, SidesAssume DEF RelayInv
<1> QED BY <1>1, <1>2, <1>3, <1>4 DEF RelayInv, P!PaidInv, P!Inv

LEMMA InvStep ==
    ASSUME DeliveryInv, [Next]_vars
    PROVE  DeliveryInv'
<1>1. [C!Next]_C!vars
  BY StepImplements
<1>2. C!TypeOK'
  BY <1>1, C!StepType, SidesAssume DEF DeliveryInv
<1>3. C!UnfinishedWorkIsVisible'
  BY <1>1, C!StepVisible, SidesAssume DEF DeliveryInv
<1>4. CASE P!RelayNext
  BY <1>2, <1>3, <1>4, RelaysKeepRelays DEF DeliveryInv, P!Next
<1>5. CASE C!ConsumerNext /\ UNCHANGED relayVars
  BY <1>2, <1>3, <1>5, ConsumerFrame, ConsumerKeepsRelays DEF DeliveryInv
<1>6. CASE UNCHANGED vars
  <2>1. UNCHANGED P!vars
    BY <1>6 DEF vars, relayVars, P!vars
  <2> QED BY <1>2, <1>3, <2>1, RelaysKeepRelays DEF DeliveryInv
<1> QED BY <1>4, <1>5, <1>6, SameRelayNext, SameConsumerNext DEF Next

-----------------------------------------------------------------------------
(* Results.                                                                *)

\* The composition implements the consumer analysed alone: whatever relays
\* do, with any identities, timeouts, crashes and overrun leases, the broker
\* sees each copy once and numbered within the bound of Arrive.
THEOREM RefinesConsumer == Spec => ImplementsConsumer
<1>1. Init => DeliveryInv
  BY InvInit
<1>2. DeliveryInv /\ [Next]_vars => DeliveryInv'
  BY InvStep
<1>3. Init => Consumer!Init
  BY DEF Init
<1>4. DeliveryInv /\ [Next]_vars => [Consumer!Next]_(Consumer!vars)
  BY StepImplements, SameNext DEF C!vars, Consumer!vars
<1> QED BY <1>1, <1>2, <1>3, <1>4, PTL DEF Spec, ImplementsConsumer, Consumer!SafeSpec

LEMMA Accounted == DeliveryInv => CommittedIsAccountedFor
<1> SUFFICES ASSUME DeliveryInv, NEW m \in Messages,
                    outbox[m].state # "absent", outbox[m].state # "pending"
             PROVE  C!LiveCopy(m) \/ inbox[m].state \in {"completed", "claimed"}
  BY SameLiveCopy, Zenon DEF CommittedIsAccountedFor
<1>1. outbox[m].state = "published"
  BY DEF DeliveryInv, RelayInv, P!PaidInv, P!TypeOK, P!Rows
<1>2. C!Arrived(m)
  BY <1>1 DEF DeliveryInv, RelayInv, P!Inv, P!PublishedWasAccepted, C!Arrived
<1> QED BY <1>2 DEF DeliveryInv, C!UnfinishedWorkIsVisible

\* Nothing committed to the outbox gets lost on the way: for any relays,
\* workers, redelivery limit and number of faults, a row is still pending,
\* or a broker copy, a dead letter or an inbox row accounts for it.
THEOREM NothingIsLost == Spec => []CommittedIsAccountedFor
<1>1. Init => DeliveryInv
  BY InvInit
<1>2. DeliveryInv /\ [Next]_vars => DeliveryInv'
  BY InvStep
<1>3. DeliveryInv => CommittedIsAccountedFor
  BY Accounted
<1> QED BY <1>1, <1>2, <1>3, PTL DEF Spec

\* End to end: whatever goes wrong on either side, the handler's effect for a
\* committed row lands at most once and once more for every fault of the
\* whole system.
THEOREM EffectsEndToEnd == Spec => []Consumer!RepeatedEffectsNeedFaults
<1>1. Init => DeliveryInv
  BY InvInit
<1>2. DeliveryInv /\ [Next]_vars => DeliveryInv'
  BY InvStep
<1>3. Init => C!Init
  BY SameInit DEF Init
<1>4. DeliveryInv /\ [Next]_vars => [C!Next]_(C!vars)
  BY StepImplements
<1>5. Spec => C!SafeSpec
  BY <1>1, <1>2, <1>3, <1>4, PTL DEF Spec, C!SafeSpec
<1>6. /\ C!IsFiniteSet(Messages)
      /\ RedeliveryLimit \in Nat
      /\ MaxFaults \in Nat
  BY SidesAssume
<1>7. C!SafeSpec => []C!RepeatedEffectsNeedFaults
  BY <1>6, C!RepeatedEffectsHold, PTL
<1>8. C!RepeatedEffectsNeedFaults => Consumer!RepeatedEffectsNeedFaults
  BY Zenon DEF C!RepeatedEffectsNeedFaults, Consumer!RepeatedEffectsNeedFaults
<1> QED BY <1>5, <1>7, <1>8, PTL
=============================================================================
