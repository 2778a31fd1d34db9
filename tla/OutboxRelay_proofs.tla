------------------------- MODULE OutboxRelay_proofs -------------------------
(***************************************************************************)
(* Proofs about OutboxRelay for any set of messages, any relays and any    *)
(* assignment of identities, shared or not.                                *)
(***************************************************************************)
EXTENDS OutboxRelay, FiniteSetTheorems, TLAPS

\* Each step of the relays, the broker or the clock is one of these.
LEMMA StepCases ==
    ASSUME Next
    PROVE  \/ \E m \in Messages : InsertOutbox(m) \/ BackoffElapses(m)
           \/ \E m \in Messages : OutboxLeaseLapses(m) \/ OutboxLeaseOverruns(m)
           \/ \E r \in Relays, m \in Messages : ClaimOutbox(r, m)
           \/ \E r \in Relays : Publish(r) \/ Confirmed(r)
           \/ \E r \in Relays : MarkOutboxPublished(r) \/ ReleaseOutbox(r)
           \/ \E r \in Relays : RelayClaimLost(r) \/ PublishTimesOut(r)
           \/ \E r \in Relays : RelayAbandons(r)
           \/ \E copy \in wire : BrokerAccepts(copy) \/ BrokerRefuses(copy)
BY Zenon DEF Next, RelayNext, Flush

-----------------------------------------------------------------------------
(* Types.                                                                  *)

LEMMA InitType == Init => TypeOK
BY BrokerAssumption, RelayAssumption
   DEF Init, BrokerInit, TypeOK, BrokerTypeOK, Rows, RelayStates, Idle

\* Setting a flag of a row leaves it a row.
LEMMA RowTypes ==
    ASSUME outbox \in [Messages -> Rows], NEW m \in Messages
    PROVE  /\ [outbox EXCEPT ![m].due = TRUE] \in [Messages -> Rows]
           /\ [outbox EXCEPT ![m].leased = FALSE] \in [Messages -> Rows]
<1>1. outbox[m] \in Rows
  OBVIOUS
<1>2. [outbox[m] EXCEPT !.due = TRUE] \in Rows
  BY <1>1, Zenon DEF Rows
<1>3. [outbox[m] EXCEPT !.leased = FALSE] \in Rows
  BY <1>1, Zenon DEF Rows
<1>4. ASSUME NEW row \in Rows
      PROVE  [outbox EXCEPT ![m] = row] \in [Messages -> Rows]
  OBVIOUS
<1> QED BY <1>2, <1>3, <1>4, Zenon

LEMMA StepType ==
    ASSUME TypeOK, [Next]_vars
    PROVE  TypeOK'
<1> USE BrokerAssumption, RelayAssumption
<1> USE DEF TypeOK, BrokerTypeOK, Rows, RelayStates, RelayIDs, Deliveries, Copies
<1>1. CASE \E m \in Messages : InsertOutbox(m) \/ BackoffElapses(m)
  <2>1. PICK m \in Messages : InsertOutbox(m) \/ BackoffElapses(m)
    BY <1>1
  <2>2. outbox' \in [Messages -> Rows]
    <3>1. CASE InsertOutbox(m)
      BY <3>1 DEF InsertOutbox
    <3>2. CASE BackoffElapses(m)
      <4>1. outbox' = [outbox EXCEPT ![m].due = TRUE]
        BY <3>2, Zenon DEF BackoffElapses
      <4> QED BY <4>1, RowTypes
    <3> QED BY <2>1, <3>1, <3>2
  <2> QED BY <2>1, <2>2 DEF InsertOutbox, BackoffElapses
<1>2. CASE \E m \in Messages : OutboxLeaseLapses(m) \/ OutboxLeaseOverruns(m)
  <2>1. PICK m \in Messages : OutboxLeaseLapses(m) \/ OutboxLeaseOverruns(m)
    BY <1>2
  <2>2. outbox' = [outbox EXCEPT ![m].leased = FALSE]
    BY <2>1, Zenon DEF OutboxLeaseLapses, OutboxLeaseOverruns
  <2>3. outbox' \in [Messages -> Rows]
    BY <2>2, RowTypes
  <2> QED BY <2>1, <2>3 DEF OutboxLeaseLapses, OutboxLeaseOverruns, Fault
<1>3. CASE \E r \in Relays, m \in Messages : ClaimOutbox(r, m)
  BY <1>3 DEF ClaimOutbox
<1>4. CASE \E r \in Relays : Publish(r) \/ Confirmed(r)
  BY <1>4 DEF Publish, Confirmed, CopyOf
<1>5. CASE \E r \in Relays : MarkOutboxPublished(r) \/ ReleaseOutbox(r)
  <2>1. PICK r \in Relays : MarkOutboxPublished(r) \/ ReleaseOutbox(r)
    BY <1>5
  <2>2. relay[r].msg \in Messages
    BY <2>1 DEF MarkOutboxPublished, ReleaseOutbox
  <2>3. outbox' \in [Messages -> Rows]
    BY <2>1, <2>2 DEF MarkOutboxPublished, ReleaseOutbox
  <2>4. relay' = [relay EXCEPT ![r] = Idle] /\ UNCHANGED <<wire, brokerVars>>
    BY <2>1 DEF MarkOutboxPublished, ReleaseOutbox, brokerVars
  <2> QED BY <2>3, <2>4 DEF Idle, brokerVars
<1>6. CASE \E r \in Relays : RelayClaimLost(r) \/ PublishTimesOut(r)
  BY <1>6 DEF RelayClaimLost, PublishTimesOut, Idle, Fault
<1>7. CASE \E r \in Relays : RelayAbandons(r)
  BY <1>7 DEF RelayAbandons, Idle, Fault
<1>8. CASE \E copy \in wire : BrokerAccepts(copy) \/ BrokerRefuses(copy)
  <2>1. PICK copy \in wire : BrokerAccepts(copy) \/ BrokerRefuses(copy)
    BY <1>8
  <2>2. CASE BrokerAccepts(copy)
    BY <2>2 DEF BrokerAccepts, Accept
  <2>3. CASE BrokerRefuses(copy)
    BY <2>3 DEF BrokerRefuses, Fault, CopyOf
  <2> QED BY <2>1, <2>2, <2>3
<1>9. CASE UNCHANGED vars
  BY <1>9 DEF vars
<1> QED BY <1>1, <1>2, <1>3, <1>4, <1>5, <1>6, <1>7, <1>8, <1>9, StepCases

\* Every row, relay and queue keeps its type: in particular a relay that is
\* not idle always holds one of the messages.
THEOREM TypeCorrect == Spec => []TypeOK
<1>1. Init => TypeOK
  BY InitType
<1>2. TypeOK /\ [Next]_vars => TypeOK'
  BY StepType
<1> QED BY <1>1, <1>2, PTL DEF Spec

-----------------------------------------------------------------------------
(* A published row has a copy at the broker.                               *)

\* A relay that is about to mark its row has seen the confirm of its copy.
MarkingWasAccepted ==
    \A r \in Relays : relay[r].pc = "marking" => CopyOf(r) \in accepted

Inv == TypeOK /\ MarkingWasAccepted /\ PublishedWasAccepted

\* The broker never forgets a copy.
LEMMA AcceptedGrows ==
    ASSUME [Next]_vars
    PROVE  accepted \subseteq accepted'
<1>1. CASE Next
  BY <1>1, StepCases
     DEF InsertOutbox, BackoffElapses, OutboxLeaseLapses, OutboxLeaseOverruns,
         ClaimOutbox, Publish, Confirmed, MarkOutboxPublished, ReleaseOutbox,
         RelayClaimLost, PublishTimesOut, RelayAbandons, BrokerAccepts,
         BrokerRefuses, Accept
<1>2. CASE UNCHANGED vars
  BY <1>2 DEF vars
<1> QED BY <1>1, <1>2

LEMMA StepMarking ==
    ASSUME Inv, [Next]_vars
    PROVE  MarkingWasAccepted'
<1> USE DEF Inv, MarkingWasAccepted, CopyOf
<1>0. accepted \subseteq accepted'
  BY AcceptedGrows
<1>T. relay \in [Relays -> RelayStates]
  BY DEF TypeOK
<1>1. CASE UNCHANGED relay
  BY <1>0, <1>1
<1>2. CASE \E r \in Relays, m \in Messages : ClaimOutbox(r, m)
  BY <1>0, <1>T, <1>2 DEF ClaimOutbox, RelayStates
<1>3. CASE \E r \in Relays : Publish(r) \/ Confirmed(r)
  BY <1>0, <1>T, <1>3 DEF Publish, Confirmed, RelayStates
<1>4. CASE \E r \in Relays : MarkOutboxPublished(r) \/ ReleaseOutbox(r)
  BY <1>0, <1>T, <1>4 DEF MarkOutboxPublished, ReleaseOutbox, Idle, RelayStates
<1>5. CASE \E r \in Relays : RelayClaimLost(r) \/ PublishTimesOut(r)
  BY <1>0, <1>T, <1>5 DEF RelayClaimLost, PublishTimesOut, Idle, RelayStates
<1>6. CASE \E r \in Relays : RelayAbandons(r)
  BY <1>0, <1>T, <1>6 DEF RelayAbandons, Idle, RelayStates
<1>7. CASE \E copy \in wire : BrokerRefuses(copy)
  BY <1>0, <1>T, <1>7 DEF BrokerRefuses, RelayStates
<1>8. (\E m \in Messages : InsertOutbox(m) \/ BackoffElapses(m)) => UNCHANGED relay
  BY DEF InsertOutbox, BackoffElapses
<1>9. (\E m \in Messages : OutboxLeaseLapses(m) \/ OutboxLeaseOverruns(m))
        => UNCHANGED relay
  BY DEF OutboxLeaseLapses, OutboxLeaseOverruns
<1>10. (\E copy \in wire : BrokerAccepts(copy)) => UNCHANGED relay
  BY DEF BrokerAccepts
<1>11. UNCHANGED vars => UNCHANGED relay
  BY DEF vars
<1> QED
  BY <1>1, <1>2, <1>3, <1>4, <1>5, <1>6, <1>7, <1>8, <1>9, <1>10, <1>11,
     StepCases, Zenon

LEMMA StepPublished ==
    ASSUME Inv, [Next]_vars
    PROVE  PublishedWasAccepted'
<1> USE DEF Inv, PublishedWasAccepted
<1>0. accepted \subseteq accepted'
  BY AcceptedGrows
<1>T. outbox \in [Messages -> Rows]
  BY DEF TypeOK
<1>1. CASE \A m \in Messages : outbox'[m].state = "published"
                                  => outbox[m].state = "published"
  BY <1>0, <1>1
<1>2. CASE \E r \in Relays : MarkOutboxPublished(r)
  <2>1. PICK r \in Relays : MarkOutboxPublished(r)
    BY <1>2
  <2>2. relay[r].msg \in Messages /\ CopyOf(r) \in accepted
    BY <2>1 DEF MarkOutboxPublished, TypeOK, MarkingWasAccepted
  <2>3. \E copy \in accepted : copy[1] = relay[r].msg
    BY <2>2 DEF CopyOf
  <2>4. ASSUME NEW m \in Messages, outbox'[m].state = "published",
               m # relay[r].msg
        PROVE  outbox[m].state = "published"
    BY <1>T, <2>1, <2>4 DEF MarkOutboxPublished, Rows
  <2> QED BY <1>0, <2>3, <2>4
<1>3. ASSUME ~\E r \in Relays : MarkOutboxPublished(r)
      PROVE  \A m \in Messages : outbox'[m].state = "published"
                                    => outbox[m].state = "published"
  <2>1. CASE UNCHANGED outbox
    BY <2>1
  <2>2. CASE \E m \in Messages : InsertOutbox(m) \/ BackoffElapses(m)
    BY <1>T, <2>2 DEF InsertOutbox, BackoffElapses, Rows
  <2>3. CASE \E m \in Messages : OutboxLeaseLapses(m) \/ OutboxLeaseOverruns(m)
    BY <1>T, <2>3 DEF OutboxLeaseLapses, OutboxLeaseOverruns, Rows
  <2>4. CASE \E r \in Relays, m \in Messages : ClaimOutbox(r, m)
    BY <1>T, <2>4 DEF ClaimOutbox, Rows
  <2>5. CASE \E r \in Relays : ReleaseOutbox(r)
    <3>1. PICK r \in Relays : ReleaseOutbox(r)
      BY <2>5
    <3>2. \A m \in Messages : outbox'[m].state = outbox[m].state
      BY <1>T, <3>1 DEF ReleaseOutbox, Rows
    <3> QED BY <3>2
  <2>6. (\E r \in Relays : Publish(r) \/ Confirmed(r)) => UNCHANGED outbox
    BY DEF Publish, Confirmed
  <2>7. (\E r \in Relays : RelayClaimLost(r) \/ PublishTimesOut(r)) => UNCHANGED outbox
    BY DEF RelayClaimLost, PublishTimesOut
  <2>8. (\E r \in Relays : RelayAbandons(r)) => UNCHANGED outbox
    BY DEF RelayAbandons
  <2>9. (\E copy \in wire : BrokerAccepts(copy) \/ BrokerRefuses(copy)) => UNCHANGED outbox
    BY DEF BrokerAccepts, BrokerRefuses
  <2>10. UNCHANGED vars => UNCHANGED outbox
    BY DEF vars
  <2> QED
    BY <1>3, <2>1, <2>2, <2>3, <2>4, <2>5, <2>6, <2>7, <2>8, <2>9, <2>10,
       StepCases, Zenon
<1> QED BY <1>1, <1>2, <1>3

\* No row is recorded as published unless the broker holds, or has held, a
\* copy of it: for every number of relays, also when they share an identity,
\* and whatever confirms are lost, leases overrun or processes die.
THEOREM PublishedImpliesAccepted == Spec => []PublishedWasAccepted
<1>1. Init => Inv
  <2>1. Init => TypeOK
    BY InitType
  <2>2. Init => MarkingWasAccepted /\ PublishedWasAccepted
    BY DEF Init, Idle, MarkingWasAccepted, PublishedWasAccepted
  <2> QED BY <2>1, <2>2 DEF Inv
<1>2. Inv /\ [Next]_vars => Inv'
  <2> SUFFICES ASSUME Inv, [Next]_vars PROVE Inv'
    OBVIOUS
  <2>1. TypeOK'
    BY StepType DEF Inv
  <2>2. MarkingWasAccepted'
    BY StepMarking
  <2>3. PublishedWasAccepted'
    BY StepPublished
  <2> QED BY <2>1, <2>2, <2>3 DEF Inv
<1>3. Inv => PublishedWasAccepted
  BY DEF Inv
<1> QED BY <1>1, <1>2, <1>3, PTL DEF Spec

-----------------------------------------------------------------------------
(* Every claim after the first is paid for by a fault.                     *)

Working(r, m) == relay[r].pc # "idle" /\ relay[r].msg = m

\* Claims are numbered: no two relays hold the same one, a leased row is the
\* row of the relay that holds its latest claim, and every copy carries the
\* number of a claim.
ClaimsNumbered ==
    /\ \A r \in Relays, m \in Messages :
          Working(r, m) => relay[r].attempt \in 1..outbox[m].attempts
    /\ \A r, s \in Relays, m \in Messages :
          Working(r, m) /\ Working(s, m) /\ relay[r].attempt = relay[s].attempt => r = s
    /\ \A m \in Messages :
          /\ outbox[m].leased => outbox[m].state = "pending"
          /\ outbox[m].attempts # 0 => outbox[m].state # "absent"
    /\ \A r \in Relays, m \in Messages :
          Working(r, m) /\ relay[r].attempt = outbox[m].attempts /\ outbox[m].leased =>
              outbox[m].lockedBy = RelayID[r]
    /\ \A copy \in wire \cup accepted : copy[2] \in 1..outbox[copy[1]].attempts

\* What faults have to pay for: the claims after the first, the rows that can
\* be claimed again without another fault, and the relays about to give one
\* back.
Reclaimable(m) ==
    /\ outbox[m].attempts # 0 /\ outbox[m].state = "pending"
    /\ outbox[m].leased => ~LiveHolder(m)

Debts ==
    {d \in {"claim"} \X Copies : d[2][2] \in 2..outbox[d[2][1]].attempts}
    \cup {d \in {"row"} \X Messages : Reclaimable(d[2])}
    \cup {d \in {"relay"} \X Relays : relay[d[2]].pc = "releasing"}

DebtsArePaid == IsFiniteSet(Debts) /\ Cardinality(Debts) <= faults

\* Every step but a claim: relays go on with what they have, claims keep
\* their numbers, and what reaches the broker was claimed.
Quiet ==
    /\ \A r \in Relays : relay'[r].pc # "idle" =>
          /\ relay[r].pc # "idle"
          /\ relay'[r].msg = relay[r].msg /\ relay'[r].attempt = relay[r].attempt
    /\ \A m \in Messages :
          /\ outbox'[m].attempts = outbox[m].attempts
          /\ outbox'[m].leased => outbox[m].leased /\ outbox'[m].lockedBy = outbox[m].lockedBy
                                  /\ outbox'[m].state = outbox[m].state
          /\ outbox[m].state # "absent" => outbox'[m].state # "absent"
    /\ \A copy \in wire' \cup accepted' :
          \/ copy \in wire \cup accepted
          \/ \E r \in Relays : relay[r].pc # "idle" /\ copy = CopyOf(r)

RelaysKeep == \A r \in Relays : relay'[r].pc # "idle" =>
                  /\ relay[r].pc # "idle"
                  /\ relay'[r].msg = relay[r].msg /\ relay'[r].attempt = relay[r].attempt

RowsKeep == \A m \in Messages :
                /\ outbox'[m].attempts = outbox[m].attempts
                /\ outbox'[m].leased => outbox[m].leased /\ outbox'[m].lockedBy = outbox[m].lockedBy
                                        /\ outbox'[m].state = outbox[m].state
                /\ outbox[m].state # "absent" => outbox'[m].state # "absent"

LEMMA QuietSteps ==
    ASSUME TypeOK, ClaimsNumbered, [Next]_vars
    PROVE  Quiet \/ \E r \in Relays, m \in Messages : ClaimOutbox(r, m)
<1>T. outbox \in [Messages -> Rows] /\ relay \in [Relays -> RelayStates]
  BY DEF TypeOK
<1>a. ASSUME RelaysKeep, RowsKeep,
             \/ UNCHANGED <<wire, accepted>>
             \/ \E r \in Relays : relay[r].pc # "idle" /\ wire' = wire \cup {CopyOf(r)}
                                  /\ accepted' = accepted
             \/ \E copy \in wire : wire' = wire \ {copy} /\ accepted' \in {accepted, accepted \cup {copy}}
      PROVE  Quiet
  BY <1>a DEF RelaysKeep, RowsKeep, Quiet
<1>b. outbox' = outbox => RowsKeep
  BY DEF RowsKeep
<1>c. relay' = relay => RelaysKeep
  BY DEF RelaysKeep
<1>d. ASSUME NEW r \in Relays, relay' = [relay EXCEPT ![r] = Idle] PROVE RelaysKeep
  BY <1>T, <1>d DEF RelaysKeep, Idle
<1>1. ASSUME NEW m \in Messages, InsertOutbox(m) PROVE Quiet
  <2>1. RowsKeep
    BY <1>T, <1>1 DEF InsertOutbox, RowsKeep, Rows, ClaimsNumbered
  <2> QED BY <1>1, <1>a, <1>c, <2>1, Zenon DEF InsertOutbox
<1>2. ASSUME NEW m \in Messages, BackoffElapses(m) PROVE Quiet
  <2>1. RowsKeep
    BY <1>T, <1>2 DEF BackoffElapses, RowsKeep, Rows
  <2> QED BY <1>2, <1>a, <1>c, <2>1, Zenon DEF BackoffElapses
<1>3. ASSUME NEW m \in Messages, OutboxLeaseLapses(m) \/ OutboxLeaseOverruns(m) PROVE Quiet
  <2>1. RowsKeep
    BY <1>T, <1>3 DEF OutboxLeaseLapses, OutboxLeaseOverruns, RowsKeep, Rows
  <2> QED BY <1>3, <1>a, <1>c, <2>1, Zenon DEF OutboxLeaseLapses, OutboxLeaseOverruns
<1>4. ASSUME NEW r \in Relays, Publish(r) PROVE Quiet
  <2>1. RelaysKeep
    BY <1>T, <1>4 DEF Publish, RelaysKeep, RelayStates
  <2>2. relay[r].pc # "idle" /\ wire' = wire \cup {CopyOf(r)} /\ accepted' = accepted
        /\ outbox' = outbox
    BY <1>4 DEF Publish
  <2> QED BY <1>a, <1>b, <2>1, <2>2
<1>5. ASSUME NEW r \in Relays, Confirmed(r) \/ PublishTimesOut(r) PROVE Quiet
  <2>1. RelaysKeep
    BY <1>T, <1>5 DEF Confirmed, PublishTimesOut, RelaysKeep, RelayStates
  <2> QED BY <1>5, <1>a, <1>b, <2>1, Zenon DEF Confirmed, PublishTimesOut
<1>6. ASSUME NEW r \in Relays, MarkOutboxPublished(r) \/ ReleaseOutbox(r) PROVE Quiet
  <2>1. relay[r].msg \in Messages /\ outbox[relay[r].msg].state = "pending"
    BY <1>6 DEF MarkOutboxPublished, ReleaseOutbox, OwnsRow, TypeOK
  <2>2. RowsKeep
    BY <1>T, <1>6, <2>1 DEF MarkOutboxPublished, ReleaseOutbox, RowsKeep, Rows
  <2>3. relay' = [relay EXCEPT ![r] = Idle] /\ UNCHANGED <<wire, accepted>>
    BY <1>6, Zenon DEF MarkOutboxPublished, ReleaseOutbox
  <2> QED BY <1>a, <1>d, <2>2, <2>3
<1>7. ASSUME NEW r \in Relays, RelayClaimLost(r) \/ RelayAbandons(r) PROVE Quiet
  BY <1>7, <1>a, <1>b, <1>d, Zenon DEF RelayClaimLost, RelayAbandons
<1>8. ASSUME NEW copy \in wire, BrokerAccepts(copy) PROVE Quiet
  <2>1. relay' = relay /\ outbox' = outbox /\ wire' = wire \ {copy}
        /\ accepted' = accepted \cup {copy}
    BY <1>8 DEF BrokerAccepts, Accept
  <2> QED BY <1>a, <1>b, <1>c, <2>1
<1>9. ASSUME NEW copy \in wire, BrokerRefuses(copy) PROVE Quiet
  <2>1. RelaysKeep
    BY <1>T, <1>9 DEF BrokerRefuses, RelaysKeep, RelayStates
  <2>2. outbox' = outbox /\ wire' = wire \ {copy} /\ accepted' = accepted
    BY <1>9 DEF BrokerRefuses
  <2> QED BY <1>a, <1>b, <2>1, <2>2
<1>10. CASE UNCHANGED vars
  BY <1>10, <1>a, <1>b, <1>c DEF vars
<1>11. CASE Next
  BY <1>11, <1>1, <1>2, <1>3, <1>4, <1>5, <1>6, <1>7, <1>8, <1>9, StepCases
<1> QED BY <1>10, <1>11

LEMMA NumberedKept ==
    ASSUME TypeOK, ClaimsNumbered, [Next]_vars
    PROVE  ClaimsNumbered'
<1>T. outbox \in [Messages -> Rows] /\ relay \in [Relays -> RelayStates]
      /\ wire \subseteq Copies /\ accepted \subseteq Copies
      /\ \A r \in Relays : relay[r].pc # "idle" => relay[r].msg \in Messages
  BY DEF TypeOK, BrokerTypeOK
<1>1. CASE Quiet
  <2>1. \A copy \in wire' \cup accepted' : copy[2] \in 1..outbox'[copy[1]].attempts
    <3> SUFFICES ASSUME NEW copy \in wire' \cup accepted'
                 PROVE  copy[2] \in 1..outbox'[copy[1]].attempts
      OBVIOUS
    <3>1. CASE copy \in wire \cup accepted
      BY <1>T, <1>1, <3>1 DEF Quiet, ClaimsNumbered, Copies
    <3>2. ASSUME NEW r \in Relays, relay[r].pc # "idle", copy = CopyOf(r)
          PROVE  copy[2] \in 1..outbox'[copy[1]].attempts
      BY <1>T, <1>1, <3>2 DEF Quiet, ClaimsNumbered, CopyOf, Working
    <3> QED BY <1>1, <3>1, <3>2 DEF Quiet
  <2>2. \A r \in Relays, m \in Messages : Working(r, m)' =>
            Working(r, m) /\ relay'[r].attempt = relay[r].attempt
    BY <1>1 DEF Quiet, Working
  <2>3. \A m \in Messages :
            /\ outbox'[m].leased => outbox'[m].state = "pending"
            /\ outbox'[m].attempts # 0 => outbox'[m].state # "absent"
    BY <1>1 DEF Quiet, ClaimsNumbered
  <2>4. \A r \in Relays, m \in Messages :
            Working(r, m)' /\ relay'[r].attempt = outbox'[m].attempts /\ outbox'[m].leased =>
                outbox'[m].lockedBy = RelayID[r]
    BY <1>1, <2>2 DEF Quiet, ClaimsNumbered
  <2>5. \A r \in Relays, m \in Messages :
            Working(r, m)' => relay'[r].attempt \in 1..outbox'[m].attempts
    BY <1>1, <2>2 DEF Quiet, ClaimsNumbered
  <2>6. \A r, s \in Relays, m \in Messages :
            Working(r, m)' /\ Working(s, m)' /\ relay'[r].attempt = relay'[s].attempt => r = s
    BY <2>2 DEF ClaimsNumbered
  <2> QED BY <2>1, <2>3, <2>4, <2>5, <2>6 DEF ClaimsNumbered
<1>2. ASSUME NEW r \in Relays, NEW m \in Messages, ClaimOutbox(r, m) PROVE ClaimsNumbered'
  <2>1. /\ outbox'[m].attempts = outbox[m].attempts + 1 /\ outbox'[m].lockedBy = RelayID[r]
        /\ outbox'[m].state = "pending"
        /\ \A n \in Messages : n # m => outbox'[n] = outbox[n]
    BY <1>2, <1>T DEF ClaimOutbox, Claimable, Rows
  <2>2. /\ relay'[r] = [pc |-> "claimed", msg |-> m, attempt |-> outbox[m].attempts + 1]
        /\ relay[r].pc = "idle"
        /\ \A s \in Relays : s # r => relay'[s] = relay[s]
    BY <1>2, <1>T DEF ClaimOutbox
  <2>3. UNCHANGED <<wire, accepted>>
    BY <1>2 DEF ClaimOutbox
  <2>4. outbox[m].attempts \in Nat
    BY <1>T DEF Rows
  <2>5. \A s \in Relays, n \in Messages : Working(s, n)' =>
            \/ s = r /\ n = m /\ relay'[s].attempt = outbox[m].attempts + 1
            \/ s # r /\ Working(s, n) /\ relay'[s].attempt = relay[s].attempt
    BY <2>2 DEF Working
  <2>6. \A s \in Relays, n \in Messages : Working(s, n) => relay[s].attempt \in 1..outbox[n].attempts
    BY DEF ClaimsNumbered
  <2>7. \A s \in Relays, n \in Messages :
            Working(s, n)' => relay'[s].attempt \in 1..outbox'[n].attempts
    BY <2>1, <2>4, <2>5, <2>6
  <2>8. \A s, q \in Relays, n \in Messages :
            Working(s, n)' /\ Working(q, n)' /\ relay'[s].attempt = relay'[q].attempt => s = q
    BY <2>1, <2>4, <2>5, <2>6 DEF ClaimsNumbered
  <2>9. \A n \in Messages : /\ outbox'[n].leased => outbox'[n].state = "pending"
                            /\ outbox'[n].attempts # 0 => outbox'[n].state # "absent"
    BY <2>1 DEF ClaimsNumbered
  <2>10. \A s \in Relays, n \in Messages :
            Working(s, n)' /\ relay'[s].attempt = outbox'[n].attempts /\ outbox'[n].leased =>
                outbox'[n].lockedBy = RelayID[s]
    <3> SUFFICES ASSUME NEW s \in Relays, NEW n \in Messages, Working(s, n)',
                        relay'[s].attempt = outbox'[n].attempts, outbox'[n].leased
                 PROVE  outbox'[n].lockedBy = RelayID[s]
      OBVIOUS
    <3>1. CASE n = m
      BY <2>1, <2>4, <2>5, <2>6, <3>1
    <3>2. CASE n # m
      BY <2>1, <2>5, <3>2 DEF ClaimsNumbered
    <3> QED BY <3>1, <3>2
  <2>11. \A copy \in wire' \cup accepted' : copy[2] \in 1..outbox'[copy[1]].attempts
    <3> SUFFICES ASSUME NEW copy \in wire \cup accepted
                 PROVE  copy[2] \in 1..outbox'[copy[1]].attempts
      BY <2>3
    <3>1. copy[2] \in 1..outbox[copy[1]].attempts /\ copy[1] \in Messages
      BY <1>T DEF ClaimsNumbered, Copies
    <3> QED BY <2>1, <2>4, <3>1
  <2> QED BY <2>7, <2>8, <2>9, <2>10, <2>11 DEF ClaimsNumbered
<1> QED BY <1>1, <1>2, QuietSteps

\* A debt that is exchanged for another one, or paid for by a fault, leaves
\* the debts within the faults.
LEMMA DebtsPaid ==
    ASSUME NEW A, NEW B, NEW y, NEW n \in Nat,
           IsFiniteSet(A), Cardinality(A) <= n, B \subseteq A \cup {y}
    PROVE  /\ IsFiniteSet(B)
           /\ Cardinality(B) <= n + 1
           /\ B \subseteq A => Cardinality(B) <= n
           /\ \A x \in A : x \notin B => Cardinality(B) <= n
<1>1. IsFiniteSet(A \cup {y}) /\ Cardinality(A) \in Nat
  BY FS_AddElement, FS_CardinalityType
<1>2. Cardinality(A \cup {y}) = IF y \in A THEN Cardinality(A) ELSE Cardinality(A) + 1
  BY FS_AddElement
<1>3. IsFiniteSet(B) /\ Cardinality(B) \in Nat
  BY <1>1, FS_Subset, FS_CardinalityType
<1>4. Cardinality(B) <= Cardinality(A \cup {y})
  BY <1>1, FS_Subset
<1>5. Cardinality(B) <= n + 1
  BY <1>1, <1>2, <1>3, <1>4
<1>6. ASSUME B \subseteq A PROVE Cardinality(B) <= n
  <2>1. Cardinality(B) <= Cardinality(A)
    BY <1>6, FS_Subset
  <2> QED BY <1>1, <1>3, <2>1
<1>7. ASSUME NEW x \in A, x \notin B PROVE Cardinality(B) <= n
  <2>1. CASE B = A \cup {y}
    BY <1>7, <2>1
  <2>2. CASE B # A \cup {y}
    <3>1. Cardinality(B) # Cardinality(A \cup {y})
      BY <1>1, <2>2, FS_Subset
    <3> QED BY <1>1, <1>2, <1>3, <1>4, <3>1
  <2> QED BY <2>1, <2>2
<1> QED BY <1>3, <1>5, <1>6, <1>7

\* One debt settled for one incurred.
LEMMA DebtExchanged ==
    ASSUME NEW A, NEW B, NEW x, NEW y, NEW n \in Nat,
           IsFiniteSet(A), Cardinality(A) <= n, B \subseteq A \cup {y},
           x \in A, x \notin B
    PROVE  IsFiniteSet(B) /\ Cardinality(B) <= n
<1>1. IsFiniteSet(B)
  BY DebtsPaid
<1>2. \A z \in A : z \notin B => Cardinality(B) <= n
  BY DebtsPaid
<1> QED BY <1>1, <1>2

ClaimDebt(m, n) == <<"claim", <<m, n>>>>
RowDebt(m) == <<"row", m>>
RelayDebt(r) == <<"relay", r>>

\* Debts are compared kind by kind.
LEMMA DebtsCompared ==
    ASSUME TypeOK, NEW y,
           \A m \in Messages, n \in Nat :
              n \in 2..outbox'[m].attempts =>
                  n \in 2..outbox[m].attempts \/ y = ClaimDebt(m, n),
           \A m \in Messages : Reclaimable(m)' => Reclaimable(m) \/ y = RowDebt(m),
           \A r \in Relays : relay'[r].pc = "releasing" =>
                                 relay[r].pc = "releasing" \/ y = RelayDebt(r)
    PROVE  Debts' \subseteq Debts \cup {y}
<1> SUFFICES ASSUME NEW d \in Debts', d # y
             PROVE  d \in Debts
  OBVIOUS
<1>1. CASE d \in {"claim"} \X Copies /\ d[2][2] \in 2..outbox'[d[2][1]].attempts
  <2>1. d[2][1] \in Messages /\ d[2][2] \in Nat /\ d = ClaimDebt(d[2][1], d[2][2])
    BY <1>1 DEF Copies, ClaimDebt
  <2>2. d[2][2] \in 2..outbox[d[2][1]].attempts
    BY <1>1, <2>1
  <2> QED BY <1>1, <2>2 DEF Debts
<1>2. CASE d \in {"row"} \X Messages /\ Reclaimable(d[2])'
  <2>1. d[2] \in Messages /\ d = RowDebt(d[2])
    BY <1>2 DEF RowDebt
  <2>2. Reclaimable(d[2])
    BY <1>2, <2>1
  <2> QED BY <1>2, <2>2 DEF Debts
<1>3. CASE d \in {"relay"} \X Relays /\ relay'[d[2]].pc = "releasing"
  <2>1. d[2] \in Relays /\ d = RelayDebt(d[2])
    BY <1>3 DEF RelayDebt
  <2> QED BY <1>3, <2>1 DEF Debts
<1> QED BY <1>1, <1>2, <1>3 DEF Debts

\* What a row or a relay has to look like for its debt to be there.
LEMMA DebtIsThere ==
    ASSUME TypeOK
    PROVE  /\ \A m \in Messages : RowDebt(m) \in Debts <=> Reclaimable(m)
           /\ \A r \in Relays : RelayDebt(r) \in Debts <=> relay[r].pc = "releasing"
           /\ \A m \in Messages, n \in Nat :
                 ClaimDebt(m, n) \in Debts <=> n \in 2..outbox[m].attempts
<1>1. \A m \in Messages : RowDebt(m) \in Debts <=> Reclaimable(m)
  BY DEF Debts, RowDebt
<1>2. \A r \in Relays : RelayDebt(r) \in Debts <=> relay[r].pc = "releasing"
  BY DEF Debts, RelayDebt
<1>3. \A m \in Messages, n \in Nat :
         ClaimDebt(m, n) \in Debts <=> n \in 2..outbox[m].attempts
  BY DEF Debts, ClaimDebt, Copies
<1> QED BY <1>1, <1>2, <1>3

\* Nothing new is owed: rows and relays that owe did so before.
ClaimsSame == \A m \in Messages : outbox'[m].attempts = outbox[m].attempts
RowsOweNoMore == \A m \in Messages : Reclaimable(m)' => Reclaimable(m)
RelaysOweNoMore ==
    \A r \in Relays : relay'[r].pc = "releasing" => relay[r].pc = "releasing"

LEMMA NothingNewIsOwed ==
    ASSUME TypeOK, DebtsArePaid, faults' = faults,
           ClaimsSame, RowsOweNoMore, RelaysOweNoMore
    PROVE  DebtsArePaid'
<1>1. Debts' \subseteq Debts \cup {<<"none", 0>>}
  BY DebtsCompared DEF ClaimsSame, RowsOweNoMore, RelaysOweNoMore
<1>2. <<"none", 0>> \notin Debts'
  BY DEF Debts
<1>3. Debts' \subseteq Debts
  BY <1>1, <1>2
<1>4. faults \in Nat
  BY BrokerAssumption DEF TypeOK, BrokerTypeOK
<1> QED BY <1>3, <1>4, DebtsPaid DEF DebtsArePaid

\* With one more fault one more debt is paid.
LEMMA FaultPays ==
    ASSUME TypeOK, DebtsArePaid, Fault, NEW y, Debts' \subseteq Debts \cup {y}
    PROVE  DebtsArePaid'
<1>1. faults \in Nat
  BY BrokerAssumption DEF TypeOK, BrokerTypeOK
<1> QED BY <1>1, DebtsPaid DEF DebtsArePaid, Fault

\* So do faults that nobody here has to pay with.
LEMMA FaultsElsewhere ==
    ASSUME TypeOK, DebtsArePaid, Debts' = Debts, faults' = faults \/ faults' = faults + 1
    PROVE  DebtsArePaid'
<1>1. faults \in Nat
  BY BrokerAssumption DEF TypeOK, BrokerTypeOK
<1>2. Cardinality(Debts) \in Nat
  BY FS_CardinalityType DEF DebtsArePaid
<1> QED BY <1>1, <1>2 DEF DebtsArePaid

\* A claim that is still held after a step keeps its row covered.
LEMMA HolderStays ==
    ASSUME NEW m \in Messages, outbox'[m].attempts = outbox[m].attempts,
           \A r \in Relays : Working(r, m) =>
               Working(r, m)' /\ relay'[r].attempt = relay[r].attempt
    PROVE  LiveHolder(m) => LiveHolder(m)'
BY DEF LiveHolder, Working

LEMMA FlushSteps ==
    ASSUME TypeOK, ClaimsNumbered, DebtsArePaid,
           NEW r \in Relays, Flush(r)
    PROVE  DebtsArePaid'
<1>T. outbox \in [Messages -> Rows] /\ relay \in [Relays -> RelayStates]
      /\ faults \in Nat
  BY BrokerAssumption DEF TypeOK, BrokerTypeOK
<1>1. CASE Publish(r) \/ Confirmed(r)
  <2>1. ClaimsSame /\ faults' = faults /\ outbox' = outbox
    BY <1>1 DEF Publish, Confirmed, ClaimsSame
  <2>2. RelaysOweNoMore
    BY <1>T, <1>1 DEF Publish, Confirmed, RelaysOweNoMore, RelayStates
  <2>3. \A s \in Relays, m \in Messages : Working(s, m) =>
            Working(s, m)' /\ relay'[s].attempt = relay[s].attempt
    BY <1>T, <1>1 DEF Publish, Confirmed, Working, RelayStates
  <2>4. \A m \in Messages : LiveHolder(m) => LiveHolder(m)'
    BY <2>1, <2>3, HolderStays
  <2>5. RowsOweNoMore
    BY <2>1, <2>4 DEF RowsOweNoMore, Reclaimable
  <2> QED BY <2>1, <2>2, <2>5, NothingNewIsOwed
<1>2. ASSUME relay[r].pc \in {"marking", "releasing"}, relay[r].msg \in Messages,
             relay' = [relay EXCEPT ![r] = Idle]
      PROVE  /\ RelaysOweNoMore
             /\ \A m \in Messages : m # relay[r].msg /\ outbox'[m] = outbox[m] =>
                    (Reclaimable(m)' => Reclaimable(m))
  <2>1. RelaysOweNoMore
    BY <1>T, <1>2 DEF Idle, RelaysOweNoMore
  <2>2. \A s \in Relays, m \in Messages : Working(s, m) /\ m # relay[r].msg =>
            Working(s, m)' /\ relay'[s].attempt = relay[s].attempt
    BY <1>T, <1>2 DEF Working
  <2>3. \A m \in Messages : m # relay[r].msg /\ outbox'[m] = outbox[m] =>
            (LiveHolder(m) => LiveHolder(m)')
    BY <2>2, HolderStays
  <2> QED BY <2>1, <2>3 DEF Reclaimable
<1>3. CASE MarkOutboxPublished(r)
  <2>1. /\ relay[r].pc = "marking" /\ relay[r].msg \in Messages
        /\ relay' = [relay EXCEPT ![r] = Idle] /\ faults' = faults
    BY <1>3 DEF MarkOutboxPublished, TypeOK
  <2>2. /\ outbox'[relay[r].msg].state = "published"
        /\ \A m \in Messages : outbox'[m].attempts = outbox[m].attempts
        /\ \A m \in Messages : m # relay[r].msg => outbox'[m] = outbox[m]
    BY <1>T, <1>3, <2>1 DEF MarkOutboxPublished, Rows
  <2>3. RowsOweNoMore
    BY <1>2, <2>1, <2>2 DEF RowsOweNoMore, Reclaimable
  <2> QED BY <1>2, <2>1, <2>2, <2>3, NothingNewIsOwed DEF ClaimsSame
<1>4. CASE ReleaseOutbox(r)
  <2>1. /\ relay[r].pc = "releasing" /\ relay[r].msg \in Messages
        /\ relay' = [relay EXCEPT ![r] = Idle] /\ faults' = faults
    BY <1>4 DEF ReleaseOutbox, TypeOK
  <2>2. /\ \A m \in Messages : outbox'[m].attempts = outbox[m].attempts
        /\ \A m \in Messages : m # relay[r].msg => outbox'[m] = outbox[m]
    BY <1>T, <1>4, <2>1 DEF ReleaseOutbox, Rows
  <2>3. relay'[r].pc = "idle"
    BY <1>T, <2>1 DEF Idle
  <2>4. Debts' \subseteq Debts \cup {RowDebt(relay[r].msg)}
    BY <1>2, <2>1, <2>2, DebtsCompared DEF RelaysOweNoMore
  <2>5. RelayDebt(r) \in Debts
    BY <2>1, DebtIsThere
  <2>6. RelayDebt(r) \notin Debts'
    BY <2>3 DEF RelayDebt, Debts
  <2>7. faults \in Nat /\ IsFiniteSet(Debts) /\ Cardinality(Debts) <= faults
    BY <1>T DEF DebtsArePaid
  <2>8. IsFiniteSet(Debts') /\ Cardinality(Debts') <= faults
    BY <2>4, <2>5, <2>6, <2>7, DebtExchanged
  <2> QED BY <2>1, <2>8 DEF DebtsArePaid
<1>5. CASE RelayClaimLost(r)
  <2>1. /\ relay[r].pc \in {"marking", "releasing"} /\ relay[r].msg \in Messages
        /\ relay' = [relay EXCEPT ![r] = Idle]
        /\ faults' = faults /\ outbox' = outbox /\ ~OwnsRow(r)
    BY <1>5 DEF RelayClaimLost, TypeOK
  <2>2. ASSUME NEW m \in Messages, m = relay[r].msg,
               Reclaimable(m)', ~Reclaimable(m)
        PROVE  FALSE
    <3>1. outbox[m].leased /\ outbox[m].state = "pending" /\ LiveHolder(m) /\ ~LiveHolder(m)'
      BY <2>1, <2>2 DEF Reclaimable
    <3>2. PICK s \in Relays : Working(s, m) /\ relay[s].attempt = outbox[m].attempts
      BY <3>1 DEF LiveHolder, Working
    <3>3. CASE s = r
      BY <2>1, <2>2, <3>1, <3>2, <3>3 DEF OwnsRow, ClaimsNumbered
    <3>4. CASE s # r
      <4>1. relay'[s] = relay[s]
        BY <1>T, <2>1, <3>4
      <4> QED BY <2>1, <3>1, <3>2, <4>1 DEF LiveHolder, Working
    <3> QED BY <3>3, <3>4
  <2>3. RowsOweNoMore
    BY <1>2, <2>1, <2>2 DEF RowsOweNoMore
  <2> QED BY <1>2, <2>1, <2>3, NothingNewIsOwed DEF ClaimsSame
<1> QED BY <1>1, <1>3, <1>4, <1>5 DEF Flush

LEMMA ClaimSteps ==
    ASSUME TypeOK, ClaimsNumbered, DebtsArePaid,
           NEW r \in Relays, NEW m \in Messages, ClaimOutbox(r, m)
    PROVE  DebtsArePaid'
<1>T. outbox \in [Messages -> Rows] /\ relay \in [Relays -> RelayStates]
      /\ faults \in Nat
  BY BrokerAssumption DEF TypeOK, BrokerTypeOK
<1>1. /\ outbox'[m].attempts = outbox[m].attempts + 1
      /\ outbox'[m].leased
      /\ outbox[m].state = "pending" /\ ~outbox[m].leased
      /\ \A n \in Messages : n # m => outbox'[n] = outbox[n]
  BY <1>T DEF ClaimOutbox, Claimable, Rows
<1>2. /\ relay'[r] = [pc |-> "claimed", msg |-> m, attempt |-> outbox[m].attempts + 1]
      /\ relay[r].pc = "idle"
      /\ \A s \in Relays : s # r => relay'[s] = relay[s]
  BY <1>T DEF ClaimOutbox
<1>3. faults' = faults
  BY DEF ClaimOutbox
<1>4. ~Reclaimable(m)'
  BY <1>1, <1>2 DEF Reclaimable, LiveHolder
<1>5. \A n \in Messages : n # m => (LiveHolder(n) => LiveHolder(n)')
  <2>1. \A s \in Relays, n \in Messages : Working(s, n) =>
            Working(s, n)' /\ relay'[s].attempt = relay[s].attempt
    BY <1>2 DEF Working
  <2> QED BY <1>1, <2>1, HolderStays
<1>6. \A n \in Messages : Reclaimable(n)' => Reclaimable(n)
  BY <1>1, <1>4, <1>5 DEF Reclaimable
<1>7. \A s \in Relays : relay'[s].pc = "releasing" => relay[s].pc = "releasing"
  BY <1>2
<1>8. outbox[m].attempts \in Nat
  BY <1>T DEF Rows
<1>9. CASE outbox[m].attempts = 0
  <2>1. \A n \in Messages, i \in Nat :
            i \in 2..outbox'[n].attempts => i \in 2..outbox[n].attempts
    BY <1>1, <1>9
  <2>2. Debts' \subseteq Debts \cup {<<"none", 0>>}
    BY <1>6, <1>7, <2>1, DebtsCompared
  <2>3. <<"none", 0>> \notin Debts'
    BY DEF Debts
  <2>4. Debts' \subseteq Debts
    BY <2>2, <2>3
  <2> QED BY <1>T, <1>3, <2>4, DebtsPaid DEF DebtsArePaid
<1>10. CASE outbox[m].attempts # 0
  <2>1. \A n \in Messages, i \in Nat : i \in 2..outbox'[n].attempts =>
            i \in 2..outbox[n].attempts \/ ClaimDebt(m, outbox[m].attempts + 1) = ClaimDebt(n, i)
    BY <1>1, <1>8
  <2>2. Debts' \subseteq Debts \cup {ClaimDebt(m, outbox[m].attempts + 1)}
    BY <1>6, <1>7, <2>1, DebtsCompared
  <2>3. RowDebt(m) \in Debts
    BY <1>1, <1>10, DebtIsThere DEF Reclaimable
  <2>4. RowDebt(m) \notin Debts'
    BY <1>4 DEF RowDebt, Debts
  <2>5. faults \in Nat /\ IsFiniteSet(Debts) /\ Cardinality(Debts) <= faults
    BY <1>T DEF DebtsArePaid
  <2>6. IsFiniteSet(Debts') /\ Cardinality(Debts') <= faults
    BY <2>2, <2>3, <2>4, <2>5, DebtExchanged
  <2> QED BY <1>3, <2>6 DEF DebtsArePaid
<1> QED BY <1>9, <1>10

\* The clock, the business transactions and the broker.
LEMMA RowSteps ==
    ASSUME TypeOK, ClaimsNumbered, DebtsArePaid, NEW m \in Messages,
           \/ InsertOutbox(m) \/ BackoffElapses(m)
           \/ OutboxLeaseLapses(m) \/ OutboxLeaseOverruns(m)
    PROVE  DebtsArePaid'
<1>T. outbox \in [Messages -> Rows]
  BY DEF TypeOK
<1>1. /\ relay' = relay
      /\ \A n \in Messages : outbox'[n].attempts = outbox[n].attempts
      /\ \A n \in Messages : n # m => outbox'[n] = outbox[n]
  <2>1. CASE InsertOutbox(m)
    BY <1>T, <2>1 DEF InsertOutbox, Rows
  <2>2. CASE BackoffElapses(m)
    BY <1>T, <2>2 DEF BackoffElapses, Rows
  <2>3. CASE OutboxLeaseLapses(m) \/ OutboxLeaseOverruns(m)
    BY <1>T, <2>3 DEF OutboxLeaseLapses, OutboxLeaseOverruns, Rows
  <2> QED BY <2>1, <2>2, <2>3
<1>2. \A n \in Messages : LiveHolder(n)' <=> LiveHolder(n)
  BY <1>1 DEF LiveHolder
<1>3. ClaimsSame /\ RelaysOweNoMore
  BY <1>1 DEF ClaimsSame, RelaysOweNoMore
<1>4. \A n \in Messages : n # m => (Reclaimable(n)' => Reclaimable(n))
  BY <1>1, <1>2 DEF Reclaimable
<1>5. CASE InsertOutbox(m)
  <2>1. outbox'[m].attempts = 0
    BY <1>1, <1>5 DEF InsertOutbox, ClaimsNumbered
  <2>2. faults' = faults
    BY <1>5 DEF InsertOutbox
  <2> QED BY <1>3, <1>4, <2>1, <2>2, NothingNewIsOwed DEF RowsOweNoMore, Reclaimable
<1>6. CASE BackoffElapses(m)
  <2>1. outbox'[m].state = outbox[m].state /\ outbox'[m].leased = outbox[m].leased
        /\ faults' = faults
    BY <1>T, <1>6 DEF BackoffElapses, Rows
  <2> QED BY <1>1, <1>2, <1>3, <1>4, <2>1, NothingNewIsOwed DEF RowsOweNoMore, Reclaimable
<1>7. CASE OutboxLeaseLapses(m)
  <2>1. outbox'[m].state = outbox[m].state /\ ~LiveHolder(m) /\ faults' = faults
    BY <1>T, <1>7 DEF OutboxLeaseLapses, Rows
  <2> QED BY <1>1, <1>2, <1>3, <1>4, <2>1, NothingNewIsOwed DEF RowsOweNoMore, Reclaimable
<1>8. CASE OutboxLeaseOverruns(m)
  <2>1. Debts' \subseteq Debts \cup {RowDebt(m)}
    BY <1>1, <1>4, DebtsCompared
  <2>2. Fault
    BY <1>8 DEF OutboxLeaseOverruns
  <2> QED BY <2>1, <2>2, FaultPays
<1> QED BY <1>5, <1>6, <1>7, <1>8

LEMMA FaultSteps ==
    ASSUME TypeOK, ClaimsNumbered, DebtsArePaid, NEW r \in Relays,
           PublishTimesOut(r) \/ RelayAbandons(r)
    PROVE  DebtsArePaid'
<1>T. relay \in [Relays -> RelayStates]
  BY DEF TypeOK
<1>1. outbox' = outbox /\ Fault
  BY DEF PublishTimesOut, RelayAbandons
<1>2. CASE PublishTimesOut(r)
  <2>1. \A s \in Relays : /\ relay'[s].pc = "releasing" =>
                                 relay[s].pc = "releasing" \/ RelayDebt(r) = RelayDebt(s)
                          /\ relay'[s].pc # "idle" <=> relay[s].pc # "idle"
                          /\ relay'[s].msg = relay[s].msg /\ relay'[s].attempt = relay[s].attempt
    BY <1>T, <1>2 DEF PublishTimesOut, RelayStates
  <2>2. \A m \in Messages : LiveHolder(m)' <=> LiveHolder(m)
    BY <1>1, <2>1 DEF LiveHolder
  <2>3. \A m \in Messages : Reclaimable(m)' => Reclaimable(m)
    BY <1>1, <2>2 DEF Reclaimable
  <2>4. Debts' \subseteq Debts \cup {RelayDebt(r)}
    BY <1>1, <2>1, <2>3, DebtsCompared
  <2> QED BY <1>1, <2>4, FaultPays
<1>3. CASE RelayAbandons(r)
  <2>1. relay' = [relay EXCEPT ![r] = Idle] /\ relay[r].msg \in Messages
    BY <1>3 DEF RelayAbandons, TypeOK
  <2>2. \A s \in Relays : relay'[s].pc = "releasing" => relay[s].pc = "releasing"
    BY <1>T, <2>1 DEF Idle
  <2>3. \A s \in Relays, m \in Messages : Working(s, m) /\ m # relay[r].msg =>
            Working(s, m)' /\ relay'[s].attempt = relay[s].attempt
    BY <1>T, <2>1 DEF Working
  <2>4. \A m \in Messages : m # relay[r].msg => (LiveHolder(m) => LiveHolder(m)')
    BY <1>1, <2>3, HolderStays
  <2>5. \A m \in Messages : Reclaimable(m)' =>
            Reclaimable(m) \/ RowDebt(relay[r].msg) = RowDebt(m)
    BY <1>1, <2>4 DEF Reclaimable
  <2>6. Debts' \subseteq Debts \cup {RowDebt(relay[r].msg)}
    BY <1>1, <2>2, <2>5, DebtsCompared
  <2> QED BY <1>1, <2>6, FaultPays
<1> QED BY <1>2, <1>3

LEMMA BrokerSteps ==
    ASSUME TypeOK, ClaimsNumbered, DebtsArePaid, NEW copy \in wire,
           BrokerAccepts(copy) \/ BrokerRefuses(copy)
    PROVE  DebtsArePaid'
<1>T. relay \in [Relays -> RelayStates]
      /\ \A r \in Relays : relay[r].pc # "idle" => relay[r].msg \in Messages
  BY DEF TypeOK
<1>1. CASE BrokerAccepts(copy)
  <2>1. relay' = relay /\ outbox' = outbox /\ faults' = faults
    BY <1>1 DEF BrokerAccepts
  <2>2. \A m \in Messages : LiveHolder(m)' <=> LiveHolder(m)
    BY <2>1 DEF LiveHolder
  <2> QED
    BY <2>1, <2>2, NothingNewIsOwed
       DEF ClaimsSame, RowsOweNoMore, RelaysOweNoMore, Reclaimable
<1>2. CASE BrokerRefuses(copy)
  <2>1. outbox' = outbox /\ Fault
    BY <1>2 DEF BrokerRefuses
  <2>2. \A s \in Relays :
            /\ relay'[s].pc = "releasing" => \/ relay[s].pc = "releasing"
                                             \/ relay[s].pc = "awaiting" /\ CopyOf(s) = copy
            /\ relay'[s].pc # "idle" <=> relay[s].pc # "idle"
            /\ relay'[s].msg = relay[s].msg /\ relay'[s].attempt = relay[s].attempt
    BY <1>T, <1>2 DEF BrokerRefuses, RelayStates
  <2>3. \A m \in Messages : LiveHolder(m)' <=> LiveHolder(m)
    BY <2>1, <2>2 DEF LiveHolder
  <2>4. \A m \in Messages : Reclaimable(m)' => Reclaimable(m)
    BY <2>1, <2>3 DEF Reclaimable
  <2>5. \A s, q \in Relays : relay[s].pc = "awaiting" /\ CopyOf(s) = copy
                             /\ relay[q].pc = "awaiting" /\ CopyOf(q) = copy => s = q
    BY <1>T DEF CopyOf, ClaimsNumbered, Working
  <2>6. PICK y : \A s \in Relays : relay[s].pc = "awaiting" /\ CopyOf(s) = copy =>
                     y = RelayDebt(s)
    <3>1. CASE \E s \in Relays : relay[s].pc = "awaiting" /\ CopyOf(s) = copy
      BY <2>5, <3>1
    <3>2. CASE ~\E s \in Relays : relay[s].pc = "awaiting" /\ CopyOf(s) = copy
      BY <3>2
    <3> QED BY <3>1, <3>2
  <2>7. Debts' \subseteq Debts \cup {y}
    BY <2>1, <2>2, <2>4, <2>6, DebtsCompared
  <2> QED BY <2>1, <2>7, FaultPays
<1> QED BY <1>1, <1>2

LEMMA DebtsKept ==
    ASSUME TypeOK, ClaimsNumbered, DebtsArePaid, [Next]_vars
    PROVE  DebtsArePaid'
<1>1. CASE UNCHANGED vars
  <2>1. outbox' = outbox /\ relay' = relay /\ faults' = faults
    BY <1>1 DEF vars
  <2>2. \A m \in Messages : LiveHolder(m)' <=> LiveHolder(m)
    BY <2>1 DEF LiveHolder
  <2> QED
    BY <2>1, <2>2, NothingNewIsOwed
       DEF ClaimsSame, RowsOweNoMore, RelaysOweNoMore, Reclaimable
<1>2. CASE Next
  <2>1. ASSUME NEW m \in Messages,
               \/ InsertOutbox(m) \/ BackoffElapses(m)
               \/ OutboxLeaseLapses(m) \/ OutboxLeaseOverruns(m)
        PROVE  DebtsArePaid'
    BY <2>1, RowSteps
  <2>2. ASSUME NEW r \in Relays, NEW m \in Messages, ClaimOutbox(r, m)
        PROVE  DebtsArePaid'
    BY <2>2, ClaimSteps
  <2>3. ASSUME NEW r \in Relays, Flush(r) PROVE DebtsArePaid'
    BY <2>3, FlushSteps
  <2>4. ASSUME NEW r \in Relays, PublishTimesOut(r) \/ RelayAbandons(r)
        PROVE  DebtsArePaid'
    BY <2>4, FaultSteps
  <2>5. ASSUME NEW copy \in wire, BrokerAccepts(copy) \/ BrokerRefuses(copy)
        PROVE  DebtsArePaid'
    BY <2>5, BrokerSteps
  <2> QED BY <1>2, <2>1, <2>2, <2>3, <2>4, <2>5, Zenon DEF Next, RelayNext
<1> QED BY <1>1, <1>2

PaidInv == TypeOK /\ ClaimsNumbered /\ DebtsArePaid

LEMMA PaidInit == Init => PaidInv
<1> SUFFICES ASSUME Init PROVE PaidInv
  OBVIOUS
<1>1. TypeOK
  BY InitType
<1>2. /\ \A r \in Relays : relay[r].pc = "idle"
      /\ \A m \in Messages : outbox[m].attempts = 0 /\ ~outbox[m].leased
      /\ wire = {} /\ accepted = {} /\ faults = 0
  BY DEF Init, BrokerInit, Idle
<1>3. ClaimsNumbered
  BY <1>2 DEF ClaimsNumbered, Working
<1>4. Debts = {}
  <2> SUFFICES ASSUME NEW d \in Debts PROVE FALSE
    OBVIOUS
  <2>1. ~(d \in {"claim"} \X Copies /\ d[2][2] \in 2..outbox[d[2][1]].attempts)
    <3> SUFFICES ASSUME d \in {"claim"} \X Copies, d[2][2] \in 2..outbox[d[2][1]].attempts
                 PROVE  FALSE
      OBVIOUS
    <3>1. d[2][1] \in Messages /\ d[2][2] \in Nat
      BY DEF Copies
    <3> QED BY <1>2, <3>1
  <2>2. ~(d \in {"row"} \X Messages /\ Reclaimable(d[2]))
    BY <1>2 DEF Reclaimable
  <2>3. ~(d \in {"relay"} \X Relays /\ relay[d[2]].pc = "releasing")
    BY <1>2
  <2> QED BY <2>1, <2>2, <2>3 DEF Debts
<1>5. DebtsArePaid
  BY <1>2, <1>4, FS_EmptySet DEF DebtsArePaid
<1> QED BY <1>1, <1>3, <1>5 DEF PaidInv

LEMMA PaidStep ==
    ASSUME PaidInv, [Next]_vars
    PROVE  PaidInv'
BY StepType, NumberedKept, DebtsKept DEF PaidInv

\* The copies of first claims are no more than the rows, the others no more
\* than the debts.
LEMMA PaidDuplicates == PaidInv => DuplicatesNeedFaults
<1> SUFFICES ASSUME PaidInv PROVE DuplicatesNeedFaults
  OBVIOUS
<1> DEFINE first == {copy \in accepted : copy[2] = 1}
           later == {copy \in accepted : copy[2] # 1}
           rows == {m \in Messages : outbox[m].state # "absent"}
<1>T. accepted \subseteq Copies /\ faults \in Nat /\ outbox \in [Messages -> Rows]
  BY BrokerAssumption DEF PaidInv, TypeOK, BrokerTypeOK
<1>1. \A copy \in accepted : /\ copy[1] \in Messages /\ copy[2] \in Nat
                             /\ copy[2] \in 1..outbox[copy[1]].attempts
                             /\ copy = <<copy[1], copy[2]>>
                             /\ outbox[copy[1]].attempts \in Nat
  BY <1>T DEF PaidInv, ClaimsNumbered, Copies, Rows
<1>2. IsFiniteSet(first) /\ Cardinality(first) <= Cardinality(rows)
  <2>1. IsFiniteSet(rows)
    BY BrokerAssumption, FS_Subset
  <2>2. \A copy \in first : copy[1] \in rows
    BY <1>1 DEF PaidInv, ClaimsNumbered
  <2>3. [copy \in first |-> copy[1]] \in Injection(first, rows)
    BY <1>1, <2>2 DEF Injection, IsInjective
  <2> QED BY <2>1, <2>3, FS_Injection
<1>3. IsFiniteSet(later) /\ Cardinality(later) <= Cardinality(Debts)
  <2>1. IsFiniteSet(Debts)
    BY DEF PaidInv, DebtsArePaid
  <2>2. \A copy \in later : <<"claim", copy>> \in Debts
    <3> SUFFICES ASSUME NEW copy \in later PROVE <<"claim", copy>> \in Debts
      OBVIOUS
    <3>1. copy[2] \in 2..outbox[copy[1]].attempts /\ copy \in Copies
      BY <1>1, <1>T
    <3> QED BY <3>1 DEF Debts
  <2>3. [copy \in later |-> <<"claim", copy>>] \in Injection(later, Debts)
    BY <2>2 DEF Injection, IsInjective
  <2> QED BY <2>1, <2>3, FS_Injection
<1>4. accepted = first \cup later /\ first \cap later = {}
  OBVIOUS
<1>5. IsFiniteSet(rows)
  BY BrokerAssumption, FS_Subset
<1>6. /\ Cardinality(first) \in Nat /\ Cardinality(later) \in Nat
      /\ Cardinality(rows) \in Nat /\ Cardinality(Debts) \in Nat
  BY <1>2, <1>3, <1>5, FS_CardinalityType DEF PaidInv, DebtsArePaid
<1>7. Cardinality(accepted) = Cardinality(first) + Cardinality(later)
  <2>1. Cardinality(first \cup later)
          = Cardinality(first) + Cardinality(later) - Cardinality(first \cap later)
    BY <1>2, <1>3, FS_Union
  <2>2. Cardinality(first \cap later) = 0
    BY <1>4, FS_EmptySet
  <2> HIDE DEF first, later
  <2> QED BY <1>4, <1>6, <2>1, <2>2
<1>8. Cardinality(Debts) <= faults
  BY DEF PaidInv, DebtsArePaid
<1>9. Cardinality(accepted) <= Cardinality(rows) + faults
  <2> HIDE DEF first, later, rows
  <2> QED BY <1>T, <1>2, <1>3, <1>6, <1>7, <1>8
<1> QED BY <1>9 DEF DuplicatesNeedFaults

\* Every physical duplicate costs a fault: for any number of relays, with
\* shared identities too, the broker holds at most one copy per inserted row
\* and one more per lost confirm, crash, overrun lease or store error.
THEOREM DuplicatesHold == Spec => []DuplicatesNeedFaults
<1>1. Init => PaidInv
  BY PaidInit
<1>2. PaidInv /\ [Next]_vars => PaidInv'
  BY PaidStep
<1>3. PaidInv => DuplicatesNeedFaults
  BY PaidDuplicates
<1> QED BY <1>1, <1>2, <1>3, PTL DEF Spec

\* A row is claimed once and once more for every fault.
LEMMA ClaimsBounded ==
    ASSUME PaidInv, NEW m \in Messages
    PROVE  outbox[m].attempts <= 1 + faults
<1>T. outbox[m].attempts \in Nat /\ faults \in Nat
  BY BrokerAssumption DEF PaidInv, TypeOK, BrokerTypeOK, Rows
<1> DEFINE later == 2..outbox[m].attempts
<1>1. \A n \in later : ClaimDebt(m, n) \in Debts
  BY DebtIsThere DEF PaidInv
<1>2. [n \in later |-> ClaimDebt(m, n)] \in Injection(later, Debts)
  BY <1>1 DEF Injection, IsInjective, ClaimDebt
<1>3. IsFiniteSet(Debts) /\ Cardinality(Debts) <= faults
  BY DEF PaidInv, DebtsArePaid
<1>4. IsFiniteSet(later) /\ Cardinality(later) <= Cardinality(Debts)
  BY <1>2, <1>3, FS_Injection
<1>5. Cardinality(later) = IF 2 > outbox[m].attempts THEN 0 ELSE outbox[m].attempts - 2 + 1
  <2> DEFINE b == outbox[m].attempts
  <2>1. 2 \in Int /\ b \in Int
    BY <1>T
  <2> HIDE DEF b
  <2>2. Cardinality(2..b) = IF 2 > b THEN 0 ELSE b - 2 + 1
    BY <2>1, FS_Interval
  <2> QED BY <2>2 DEF b
<1>6. Cardinality(Debts) \in Nat
  BY <1>3, FS_CardinalityType
<1> QED BY <1>T, <1>3, <1>4, <1>5, <1>6

-----------------------------------------------------------------------------
(* With distinct identities the latest claim decides.                      *)

DistinctIdentities == \A r, s \in Relays : RelayID[r] = RelayID[s] => r = s

\* A relay whose identity is on the row holds the latest claim of it.
OwnerIsLatest ==
    \A r \in Relays, m \in Messages :
        Working(r, m) /\ outbox[m].lockedBy = RelayID[r] /\ outbox[m].state = "pending" =>
            relay[r].attempt = outbox[m].attempts

\* A step other than a claim leaves the owner of a row alone, or it is the
\* owner who gives the row up.
OwnerGivesUp(m) ==
    \E r \in Relays : /\ Working(r, m) /\ outbox[m].state = "pending"
                      /\ outbox[m].lockedBy = RelayID[r]
                      /\ relay'[r] = Idle

OwnersKeep ==
    \A m \in Messages :
        /\ \/ outbox'[m].lockedBy = outbox[m].lockedBy
           \/ outbox'[m].lockedBy = None /\ OwnerGivesUp(m)
        /\ outbox'[m].state = "pending" => outbox[m].state \in {"absent", "pending"}

LEMMA OwnersMove ==
    ASSUME TypeOK, [Next]_vars
    PROVE  OwnersKeep \/ \E r \in Relays, m \in Messages : ClaimOutbox(r, m)
<1>T. outbox \in [Messages -> Rows] /\ relay \in [Relays -> RelayStates]
  BY DEF TypeOK
<1>S. \A m \in Messages : outbox[m].state \in {"absent", "pending", "published"}
  BY <1>T DEF Rows
<1>1. CASE outbox' = outbox
  BY <1>1, <1>S DEF OwnersKeep
<1>2. ASSUME NEW m \in Messages, InsertOutbox(m) PROVE OwnersKeep
  BY <1>T, <1>2 DEF InsertOutbox, OwnersKeep, Rows
<1>3. ASSUME NEW m \in Messages, BackoffElapses(m) PROVE OwnersKeep
  BY <1>T, <1>3 DEF BackoffElapses, OwnersKeep, Rows
<1>4. ASSUME NEW m \in Messages, OutboxLeaseLapses(m) \/ OutboxLeaseOverruns(m) PROVE OwnersKeep
  BY <1>T, <1>4 DEF OutboxLeaseLapses, OutboxLeaseOverruns, OwnersKeep, Rows
<1>5. ASSUME NEW r \in Relays, MarkOutboxPublished(r) \/ ReleaseOutbox(r) PROVE OwnersKeep
  <2>1. Working(r, relay[r].msg) /\ relay[r].msg \in Messages /\ OwnsRow(r) /\ relay'[r] = Idle
    BY <1>T, <1>5 DEF MarkOutboxPublished, ReleaseOutbox, Working, TypeOK
  <2>2. \A m \in Messages : m # relay[r].msg => outbox'[m] = outbox[m]
    BY <1>T, <1>5, <2>1 DEF MarkOutboxPublished, ReleaseOutbox
  <2>3. outbox'[relay[r].msg].lockedBy = None
    BY <1>T, <1>5, <2>1 DEF MarkOutboxPublished, ReleaseOutbox, Rows
  <2>4. ASSUME NEW m \in Messages, m = relay[r].msg PROVE OwnerGivesUp(m)
    BY <2>1, <2>4 DEF OwnerGivesUp, OwnsRow
  <2> QED BY <1>S, <2>1, <2>2, <2>3, <2>4 DEF OwnersKeep, OwnsRow
<1>6. (\E r \in Relays : Publish(r) \/ Confirmed(r)) => outbox' = outbox
  BY DEF Publish, Confirmed
<1>7. (\E r \in Relays : RelayClaimLost(r) \/ PublishTimesOut(r)) => outbox' = outbox
  BY DEF RelayClaimLost, PublishTimesOut
<1>8. (\E r \in Relays : RelayAbandons(r)) => outbox' = outbox
  BY DEF RelayAbandons
<1>9. (\E copy \in wire : BrokerAccepts(copy) \/ BrokerRefuses(copy)) => outbox' = outbox
  BY DEF BrokerAccepts, BrokerRefuses
<1>10. UNCHANGED vars => outbox' = outbox
  BY DEF vars
<1> QED
  BY <1>1, <1>2, <1>3, <1>4, <1>5, <1>6, <1>7, <1>8, <1>9, <1>10, StepCases, Zenon

OwnerInv == TypeOK /\ ClaimsNumbered /\ OwnerIsLatest

LEMMA OwnerStep ==
    ASSUME DistinctIdentities, OwnerInv, [Next]_vars
    PROVE  OwnerIsLatest'
<1>T. outbox \in [Messages -> Rows] /\ relay \in [Relays -> RelayStates]
  BY DEF OwnerInv, TypeOK
<1>1. ASSUME OwnersKeep, Quiet PROVE OwnerIsLatest'
  <2> SUFFICES ASSUME NEW r \in Relays, NEW m \in Messages, Working(r, m)',
                      outbox'[m].lockedBy = RelayID[r], outbox'[m].state = "pending"
               PROVE  relay'[r].attempt = outbox'[m].attempts
    BY DEF OwnerIsLatest
  <2>1. Working(r, m) /\ relay'[r].attempt = relay[r].attempt
        /\ outbox'[m].attempts = outbox[m].attempts
    BY <1>1 DEF Quiet, Working
  <2>2. outbox[m].lockedBy = RelayID[r]
    BY <1>1, RelayAssumption DEF OwnersKeep
  <2>3. outbox[m].state # "absent"
    <3>1. relay[r].attempt \in 1..outbox[m].attempts /\ outbox[m].attempts \in Nat
      BY <1>T, <2>1 DEF OwnerInv, ClaimsNumbered, Rows
    <3> QED BY <3>1 DEF OwnerInv, ClaimsNumbered
  <2>4. outbox[m].state = "pending"
    BY <1>1, <2>3 DEF OwnersKeep
  <2> QED BY <2>1, <2>2, <2>4 DEF OwnerInv, OwnerIsLatest
<1>2. ASSUME NEW r \in Relays, NEW m \in Messages, ClaimOutbox(r, m) PROVE OwnerIsLatest'
  <2>1. /\ outbox'[m].attempts = outbox[m].attempts + 1 /\ outbox'[m].lockedBy = RelayID[r]
        /\ \A n \in Messages : n # m => outbox'[n] = outbox[n]
    BY <1>2, <1>T DEF ClaimOutbox, Claimable, Rows
  <2>2. /\ relay'[r] = [pc |-> "claimed", msg |-> m, attempt |-> outbox[m].attempts + 1]
        /\ \A s \in Relays : s # r => relay'[s] = relay[s]
    BY <1>2, <1>T DEF ClaimOutbox
  <2> QED
    BY <2>1, <2>2 DEF OwnerInv, OwnerIsLatest, Working, DistinctIdentities
<1>3. TypeOK /\ ClaimsNumbered
  BY DEF OwnerInv
<1> QED BY <1>1, <1>2, <1>3, OwnersMove, QuietSteps

LEMMA LatestStep ==
    ASSUME OwnerInv, [Next]_vars
    PROVE  \A m \in Messages :
              (outbox[m].lockedBy # None /\ outbox'[m].lockedBy = None) =>
                  \E r \in Relays : /\ relay[r].msg = m
                                    /\ relay[r].attempt = outbox[m].attempts
                                    /\ relay'[r] = Idle
<1>1. CASE OwnersKeep
  BY <1>1 DEF OwnersKeep, OwnerGivesUp, OwnerInv, OwnerIsLatest, Working
<1>2. ASSUME NEW r \in Relays, NEW n \in Messages, ClaimOutbox(r, n),
             NEW m \in Messages, outbox[m].lockedBy # None
      PROVE  outbox'[m].lockedBy # None
  <2>T. outbox \in [Messages -> Rows]
    BY DEF OwnerInv, TypeOK
  <2> QED BY <1>2, <2>T, RelayAssumption DEF ClaimOutbox, Rows
<1> QED BY <1>1, <1>2, OwnersMove DEF OwnerInv

\* When every relay has an identity of its own, only the relay that made the
\* latest claim of a pending row can mark or release it: a relay that stalled
\* past its lease finds another owner's name.
THEOREM LatestClaimHolds ==
    ASSUME DistinctIdentities
    PROVE  Spec => LatestClaimDecides
<1>1. Init => OwnerInv
  <2>1. Init => OwnerIsLatest
    BY DEF Init, Idle, OwnerIsLatest, Working
  <2> QED BY <2>1, PaidInit DEF OwnerInv, PaidInv
<1>2. OwnerInv /\ [Next]_vars => OwnerInv'
  BY StepType, NumberedKept, OwnerStep DEF OwnerInv
<1>3. OwnerInv /\ [Next]_vars =>
        [\A m \in Messages :
            (outbox[m].lockedBy # None /\ outbox'[m].lockedBy = None) =>
                \E r \in Relays : /\ relay[r].msg = m
                                  /\ relay[r].attempt = outbox[m].attempts
                                  /\ relay'[r] = Idle]_vars
  BY LatestStep
<1> QED BY <1>1, <1>2, <1>3, PTL DEF Spec, LatestClaimDecides

-----------------------------------------------------------------------------
(* A copy reaches the broker at most once.                                 *)

FreshCopies ==
    /\ wire \cap accepted = {}
    /\ \A r \in Relays : relay[r].pc = "claimed" => CopyOf(r) \notin wire \cup accepted

LEMMA FreshKept ==
    ASSUME PaidInv, FreshCopies, [Next]_vars
    PROVE  FreshCopies'
<1>T. /\ outbox \in [Messages -> Rows] /\ relay \in [Relays -> RelayStates]
      /\ wire \subseteq Copies /\ accepted \subseteq Copies
      /\ \A r \in Relays : relay[r].pc # "idle" => relay[r].msg \in Messages
  BY DEF PaidInv, TypeOK, BrokerTypeOK
<1>0. ASSUME \A r \in Relays : relay'[r].pc = "claimed" => relay'[r] = relay[r],
             wire' \subseteq wire, accepted' = accepted
      PROVE  FreshCopies'
  BY <1>0 DEF FreshCopies, CopyOf
<1>1. CASE UNCHANGED <<relay, wire, accepted>>
  BY <1>0, <1>1
<1>2. ASSUME NEW r \in Relays, NEW m \in Messages, ClaimOutbox(r, m) PROVE FreshCopies'
  <2>1. /\ relay'[r] = [pc |-> "claimed", msg |-> m, attempt |-> outbox[m].attempts + 1]
        /\ \A s \in Relays : s # r => relay'[s] = relay[s]
        /\ UNCHANGED <<wire, accepted>>
    BY <1>T, <1>2 DEF ClaimOutbox
  <2>2. outbox[m].attempts \in Nat
    BY <1>T DEF Rows
  <2>3. <<m, outbox[m].attempts + 1>> \notin wire \cup accepted
    <3> SUFFICES ASSUME <<m, outbox[m].attempts + 1>> \in wire \cup accepted PROVE FALSE
      OBVIOUS
    <3>1. <<m, outbox[m].attempts + 1>>[2] \in 1..outbox[<<m, outbox[m].attempts + 1>>[1]].attempts
      BY Zenon DEF PaidInv, ClaimsNumbered
    <3> QED BY <2>2, <3>1
  <2> QED BY <2>1, <2>3 DEF FreshCopies, CopyOf
<1>3. ASSUME NEW r \in Relays, Publish(r) PROVE FreshCopies'
  <2>1. /\ relay[r].pc = "claimed" /\ relay'[r].pc = "awaiting"
        /\ \A s \in Relays : s # r => relay'[s] = relay[s]
        /\ wire' = wire \cup {CopyOf(r)} /\ accepted' = accepted
    BY <1>T, <1>3 DEF Publish, RelayStates
  <2>2. \A s \in Relays : s # r /\ relay[s].pc = "claimed" => CopyOf(s) # CopyOf(r)
    BY <1>T, <2>1 DEF CopyOf, PaidInv, ClaimsNumbered, Working
  <2>3. \A s \in Relays : relay'[s].pc = "claimed" =>
            s # r /\ relay[s].pc = "claimed" /\ CopyOf(s)' = CopyOf(s)
    BY <2>1 DEF CopyOf
  <2> QED BY <2>1, <2>2, <2>3 DEF FreshCopies
<1>4. ASSUME NEW r \in Relays, Confirmed(r) \/ PublishTimesOut(r) PROVE FreshCopies'
  BY <1>0, <1>T, <1>4 DEF Confirmed, PublishTimesOut, RelayStates
<1>5. ASSUME NEW r \in Relays,
             \/ MarkOutboxPublished(r) \/ ReleaseOutbox(r)
             \/ RelayClaimLost(r) \/ RelayAbandons(r)
      PROVE  FreshCopies'
  <2>1. relay' = [relay EXCEPT ![r] = Idle] /\ UNCHANGED <<wire, accepted>>
    BY <1>5, Zenon DEF MarkOutboxPublished, ReleaseOutbox, RelayClaimLost, RelayAbandons
  <2> QED BY <1>0, <1>T, <2>1 DEF Idle
<1>6. ASSUME NEW copy \in wire, BrokerAccepts(copy) PROVE FreshCopies'
  <2>1. relay' = relay /\ wire' = wire \ {copy} /\ accepted' = accepted \cup {copy}
    BY <1>6 DEF BrokerAccepts, Accept
  <2> QED BY <2>1 DEF FreshCopies, CopyOf
<1>7. ASSUME NEW copy \in wire, BrokerRefuses(copy) PROVE FreshCopies'
  BY <1>0, <1>T, <1>7 DEF BrokerRefuses, RelayStates
<1>8. (\E m \in Messages : InsertOutbox(m) \/ BackoffElapses(m))
        => UNCHANGED <<relay, wire, accepted>>
  BY DEF InsertOutbox, BackoffElapses
<1>9. (\E m \in Messages : OutboxLeaseLapses(m) \/ OutboxLeaseOverruns(m))
        => UNCHANGED <<relay, wire, accepted>>
  BY DEF OutboxLeaseLapses, OutboxLeaseOverruns
<1>10. UNCHANGED vars => UNCHANGED <<relay, wire, accepted>>
  BY DEF vars
<1> QED
  BY <1>1, <1>2, <1>3, <1>4, <1>5, <1>6, <1>7, <1>8, <1>9, <1>10, StepCases, Zenon
=============================================================================
