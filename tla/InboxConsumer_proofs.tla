------------------------ MODULE InboxConsumer_proofs ------------------------
(***************************************************************************)
(* Proofs about InboxConsumer for any messages, any number of workers, any *)
(* redelivery limit and any number of faults.                              *)
(***************************************************************************)
EXTENDS InboxConsumer, FiniteSetTheorems, TLAPS

\* Each step of a worker, the broker, the clock or the producing side is one
\* of these.
LEMMA StepCases ==
    ASSUME Next
    PROVE  \/ \E m \in Messages : Arrive(m)
           \/ FaultElsewhere
           \/ \E w \in Workers, delivery \in queue : Receive(w, delivery)
           \/ \E w \in Workers : ClaimInbox(w)
           \/ \E w \in Workers : ClaimRefused(w)
           \/ \E w \in Workers : HandlerSucceeds(w) \/ HandlerFails(w)
           \/ \E w \in Workers : CompleteInbox(w)
           \/ \E w \in Workers : ReleaseInbox(w)
           \/ \E w \in Workers : InboxClaimLost(w) \/ StoreUnavailable(w)
           \/ \E w \in Workers : Ack(w)
           \/ \E w \in Workers : Nack(w) \/ WorkerCrashes(w)
           \/ \E m \in Messages : InboxLeaseLapses(m) \/ InboxLeaseOverruns(m)
BY Zenon DEF Next, ConsumerNext, HandleExactlyOnce

-----------------------------------------------------------------------------
(* Types.                                                                  *)

LEMMA InitType == Init => TypeOK
BY BrokerAssumption
   DEF Init, BrokerInit, TypeOK, BrokerTypeOK, Rows, WorkerStates, Idle

\* A delivery is a delivery of one of the messages.
LEMMA DeliveryType ==
    ASSUME NEW delivery \in Deliveries
    PROVE  MessageOf(delivery) \in Messages
BY DEF Deliveries, Copies, MessageOf

\* A worker that is not idle works on one of the messages.
LEMMA MsgType ==
    ASSUME TypeOK, NEW w \in Workers, worker[w].pc # "idle"
    PROVE  Msg(w) \in Messages
BY DeliveryType DEF TypeOK, Msg

\* Returning a delivery keeps the queue's and the dead letters' types.
LEMMA ReturnType ==
    ASSUME BrokerTypeOK, NEW delivery \in Deliveries, Return(delivery)
    PROVE  queue' \subseteq Deliveries /\ dead' \subseteq Copies
<1>1. CASE delivery.returns < RedeliveryLimit
  <2>1. [delivery EXCEPT !.returns = @ + 1] \in Deliveries
    BY <1>1, BrokerAssumption DEF Deliveries
  <2> QED BY <1>1, <2>1, BrokerAssumption DEF Return, BrokerTypeOK
<1>2. CASE delivery.returns = RedeliveryLimit
  <2>1. delivery.copy \in Copies
    BY DEF Deliveries
  <2> QED BY <1>2, <2>1, BrokerAssumption DEF Return, BrokerTypeOK
<1> QED BY <1>1, <1>2 DEF Return

LEMMA StepType ==
    ASSUME TypeOK, [Next]_vars
    PROVE  TypeOK'
<1> USE BrokerAssumption
<1> USE DEF TypeOK, BrokerTypeOK
<1>1. CASE \E m \in Messages : Arrive(m)
  <2>1. PICK m \in Messages, n \in 1..(1 + MaxFaults) : Accept(<<m, n>>)
    BY <1>1 DEF Arrive
  <2>2. <<m, n>> \in Copies /\ [copy |-> <<m, n>>, returns |-> 0] \in Deliveries
    BY DEF Copies, Deliveries
  <2> QED BY <1>1, <2>1, <2>2 DEF Arrive, Accept
<1>2. CASE FaultElsewhere
  BY <1>2 DEF FaultElsewhere, Fault
<1>3. CASE \E w \in Workers, delivery \in queue : Receive(w, delivery)
  BY <1>3 DEF Receive, WorkerStates
<1>4. CASE \E w \in Workers : ClaimInbox(w)
  <2>1. PICK w \in Workers : ClaimInbox(w)
    BY <1>4
  <2>2. Msg(w) \in Messages
    BY <2>1, MsgType DEF ClaimInbox
  <2>3. inbox[Msg(w)].attempt \in Nat
    BY <2>2 DEF Rows
  <2>4. [state |-> "claimed", leased |-> TRUE,
         attempt |-> inbox[Msg(w)].attempt + 1] \in Rows
    BY <2>3 DEF Rows
  <2>5. inbox' \in [Messages -> Rows]
    <3>1. inbox' = [inbox EXCEPT ![Msg(w)] =
                      [state |-> "claimed", leased |-> TRUE,
                       attempt |-> inbox[Msg(w)].attempt + 1]]
      BY <2>1, Zenon DEF ClaimInbox
    <3>2. ASSUME NEW row \in Rows, NEW m \in Messages
          PROVE  [inbox EXCEPT ![m] = row] \in [Messages -> Rows]
      OBVIOUS
    <3> QED BY <2>2, <2>4, <3>1, <3>2, Zenon
  <2>6. worker' \in [Workers -> WorkerStates]
    <3>1. worker' = [worker EXCEPT ![w].pc = "handling",
                                   ![w].token = inbox[Msg(w)].attempt + 1]
      BY <2>1, Zenon DEF ClaimInbox
    <3>2. inbox[Msg(w)].attempt + 1 \in Nat
      BY <2>3
    <3> QED BY <3>1, <3>2, ZenonT(60) DEF WorkerStates
  <2> QED BY <2>1, <2>5, <2>6 DEF ClaimInbox, WorkerStates
<1>5. CASE \E w \in Workers : ClaimRefused(w)
  BY <1>5 DEF ClaimRefused, WorkerStates
<1>6. CASE \E w \in Workers : HandlerSucceeds(w) \/ HandlerFails(w)
  <2>1. PICK w \in Workers : HandlerSucceeds(w) \/ HandlerFails(w)
    BY <1>6
  <2>2. Msg(w) \in Messages
    BY <2>1, MsgType DEF HandlerSucceeds, HandlerFails
  <2>3. effects' \in [Messages -> Nat]
    BY <2>1, <2>2 DEF HandlerSucceeds, HandlerFails
  <2> QED BY <2>1, <2>3 DEF HandlerSucceeds, HandlerFails, Fault, WorkerStates
<1>7. CASE \E w \in Workers : CompleteInbox(w)
  <2>1. PICK w \in Workers : CompleteInbox(w)
    BY <1>7
  <2>2. Msg(w) \in Messages
    BY <2>1, MsgType DEF CompleteInbox
  <2>3. inbox' \in [Messages -> Rows]
    BY <2>1, <2>2 DEF CompleteInbox, Rows
  <2> QED BY <2>1, <2>3 DEF CompleteInbox, WorkerStates
<1>8. CASE \E w \in Workers : ReleaseInbox(w)
  <2>1. PICK w \in Workers : ReleaseInbox(w)
    BY <1>8
  <2>2. Msg(w) \in Messages
    BY <2>1, MsgType DEF ReleaseInbox
  <2>3. inbox' \in [Messages -> Rows]
    BY <2>1, <2>2 DEF ReleaseInbox, Rows
  <2> QED BY <2>1, <2>3 DEF ReleaseInbox, WorkerStates
<1>9. CASE \E w \in Workers : InboxClaimLost(w) \/ StoreUnavailable(w)
  BY <1>9 DEF InboxClaimLost, StoreUnavailable, Fault, WorkerStates
<1>10. CASE \E w \in Workers : Ack(w)
  BY <1>10 DEF Ack, Idle, WorkerStates
<1>11. CASE \E w \in Workers : Nack(w) \/ WorkerCrashes(w)
  <2>1. PICK w \in Workers : Nack(w) \/ WorkerCrashes(w)
    BY <1>11
  <2>2. queue' \subseteq Deliveries /\ dead' \subseteq Copies
    BY <2>1, ReturnType DEF Nack, WorkerCrashes
  <2>3. worker' = [worker EXCEPT ![w] = Idle]
    BY <2>1 DEF Nack, WorkerCrashes
  <2>4. UNCHANGED <<inbox, effects, accepted>> /\ (UNCHANGED faults \/ Fault)
    BY <2>1 DEF Nack, WorkerCrashes
  <2> QED BY <2>2, <2>3, <2>4 DEF Fault, Idle, WorkerStates
<1>12. CASE \E m \in Messages : InboxLeaseLapses(m) \/ InboxLeaseOverruns(m)
  <2>1. PICK m \in Messages : InboxLeaseLapses(m) \/ InboxLeaseOverruns(m)
    BY <1>12
  <2>2. inbox' = [inbox EXCEPT ![m].leased = FALSE]
    BY <2>1, Zenon DEF InboxLeaseLapses, InboxLeaseOverruns
  <2>3. [inbox[m] EXCEPT !.leased = FALSE] \in Rows
    BY Zenon DEF Rows
  <2>4. inbox' \in [Messages -> Rows]
    BY <2>2, <2>3
  <2>5. UNCHANGED <<worker, effects, queue, dead, accepted>>
        /\ (UNCHANGED faults \/ Fault)
    BY <2>1, Zenon DEF InboxLeaseLapses, InboxLeaseOverruns
  <2> QED BY <2>4, <2>5 DEF Fault
<1>13. CASE UNCHANGED vars
  BY <1>13 DEF vars
<1> QED
  BY <1>1, <1>2, <1>3, <1>4, <1>5, <1>6, <1>7, <1>8, <1>9, <1>10, <1>11,
     <1>12, <1>13, StepCases, Zenon

\* Every inbox row, worker and delivery keeps its type: in particular a
\* worker that is not idle always holds a delivery, whose return count never
\* passes the queue's redelivery limit.
THEOREM TypeCorrect == SafeSpec => []TypeOK
<1>1. Init => TypeOK
  BY InitType
<1>2. TypeOK /\ [Next]_vars => TypeOK'
  BY StepType
<1> QED BY <1>1, <1>2, PTL DEF SafeSpec

-----------------------------------------------------------------------------
(* Claim tokens.                                                           *)

Holding(w) == worker[w].pc \in {"handling", "completing", "releasing"}

\* The token of a worker was issued by a claim of its row, and no two workers
\* hold the same token of a row.
TokensAreFresh ==
    /\ \A w \in Workers : Holding(w) => worker[w].token =< inbox[Msg(w)].attempt
    /\ \A v, w \in Workers :
          (Holding(v) /\ Holding(w) /\ Msg(v) = Msg(w)
             /\ worker[v].token = worker[w].token) => v = w

\* A step that neither claims nor grants anything keeps the tokens fresh:
\* attempt numbers stay, and whoever holds a claim afterwards held it before.
LEMMA TokensKept ==
    ASSUME TypeOK, TokensAreFresh,
           \A m \in Messages : inbox'[m].attempt = inbox[m].attempt,
           \A w \in Workers : Holding(w)' =>
               /\ Holding(w)
               /\ worker'[w].token = worker[w].token
               /\ worker'[w].delivery = worker[w].delivery
    PROVE  TokensAreFresh'
<1>1. ASSUME NEW w \in Workers, Holding(w)'
      PROVE  /\ Holding(w) /\ Msg(w)' = Msg(w) /\ Msg(w) \in Messages
             /\ worker'[w].token = worker[w].token
  BY <1>1, MsgType DEF Holding, Msg
<1> QED BY <1>1 DEF TokensAreFresh

LEMMA StepTokens ==
    ASSUME TypeOK, TokensAreFresh, [Next]_vars
    PROVE  TokensAreFresh'
<1>T. worker \in [Workers -> WorkerStates] /\ inbox \in [Messages -> Rows]
  BY DEF TypeOK
<1>1. CASE \E w \in Workers : ClaimInbox(w)
  <2>1. PICK w \in Workers : ClaimInbox(w)
    BY <1>1
  <2>2. Msg(w) \in Messages
    BY <2>1, MsgType DEF ClaimInbox
  <2>3. inbox[Msg(w)].attempt \in Nat
    BY <1>T, <2>2 DEF Rows
  <2>4. /\ worker'[w].token = inbox[Msg(w)].attempt + 1
        /\ worker'[w].delivery = worker[w].delivery
        /\ inbox'[Msg(w)].attempt = inbox[Msg(w)].attempt + 1
    BY <1>T, <2>1, <2>2 DEF ClaimInbox, WorkerStates
  <2>5. \A v \in Workers \ {w} : worker'[v] = worker[v]
    BY <1>T, <2>1 DEF ClaimInbox
  <2>6. \A m \in Messages \ {Msg(w)} : inbox'[m] = inbox[m]
    BY <1>T, <2>1, <2>2 DEF ClaimInbox
  <2>7. Msg(w)' = Msg(w) /\ \A v \in Workers \ {w} : Msg(v)' = Msg(v)
    BY <2>4, <2>5 DEF Msg
  <2>8. ASSUME NEW v \in Workers \ {w}, Holding(v)'
        PROVE  /\ Holding(v) /\ Msg(v) \in Messages /\ worker[v].token \in Nat
               /\ worker[v].token =< inbox[Msg(v)].attempt
    BY <1>T, <2>5, <2>8, MsgType DEF Holding, TokensAreFresh, WorkerStates
  <2>9. ASSUME NEW v \in Workers, Holding(v)'
        PROVE  worker'[v].token =< inbox'[Msg(v)'].attempt
    <3>1. CASE v = w
      BY <2>3, <2>4, <2>7, <3>1
    <3>2. CASE v # w /\ Msg(v) = Msg(w)
      BY <2>3, <2>4, <2>5, <2>7, <2>8, <2>9, <3>2
    <3>3. CASE v # w /\ Msg(v) # Msg(w)
      BY <2>5, <2>6, <2>7, <2>8, <2>9, <3>3
    <3> QED BY <3>1, <3>2, <3>3
  <2>10. ASSUME NEW u \in Workers, NEW v \in Workers, Holding(u)', Holding(v)',
                Msg(u)' = Msg(v)', worker'[u].token = worker'[v].token, u # v
         PROVE  FALSE
    <3>1. CASE u = w
      BY <2>3, <2>4, <2>5, <2>7, <2>8, <2>10, <3>1
    <3>2. CASE v = w
      BY <2>3, <2>4, <2>5, <2>7, <2>8, <2>10, <3>2
    <3>3. CASE u # w /\ v # w
      BY <2>5, <2>7, <2>8, <2>10, <3>3 DEF TokensAreFresh
    <3> QED BY <3>1, <3>2, <3>3
  <2> QED BY <2>9, <2>10 DEF TokensAreFresh
<1>2. ASSUME ~\E w \in Workers : ClaimInbox(w)
      PROVE  /\ \A m \in Messages : inbox'[m].attempt = inbox[m].attempt
             /\ \A w \in Workers : Holding(w)' =>
                    /\ Holding(w)
                    /\ worker'[w].token = worker[w].token
                    /\ worker'[w].delivery = worker[w].delivery
  <2> USE <1>T DEF Holding
  <2>1. CASE UNCHANGED <<inbox, worker>>
    BY <2>1
  <2>2. CASE \E w \in Workers, delivery \in queue : Receive(w, delivery)
    BY <2>2 DEF Receive
  <2>3. CASE \E w \in Workers : ClaimRefused(w)
    BY <2>3 DEF ClaimRefused, WorkerStates
  <2>4. CASE \E w \in Workers : HandlerSucceeds(w) \/ HandlerFails(w)
    BY <2>4 DEF HandlerSucceeds, HandlerFails, WorkerStates
  <2>5. CASE \E w \in Workers : CompleteInbox(w)
    BY <2>5 DEF CompleteInbox, Rows, WorkerStates
  <2>6. CASE \E w \in Workers : ReleaseInbox(w)
    BY <2>6 DEF ReleaseInbox, Rows, WorkerStates
  <2>7. CASE \E w \in Workers : InboxClaimLost(w) \/ StoreUnavailable(w)
    BY <2>7 DEF InboxClaimLost, StoreUnavailable, WorkerStates
  <2>8. CASE \E w \in Workers : Ack(w)
    BY <2>8 DEF Ack, Idle
  <2>9. CASE \E w \in Workers : Nack(w) \/ WorkerCrashes(w)
    BY <2>9 DEF Nack, WorkerCrashes, Idle
  <2>10. CASE \E m \in Messages : InboxLeaseLapses(m) \/ InboxLeaseOverruns(m)
    <3>1. UNCHANGED worker
          /\ \E m \in Messages : inbox' = [inbox EXCEPT ![m].leased = FALSE]
      BY <2>10, Zenon DEF InboxLeaseLapses, InboxLeaseOverruns
    <3> QED BY <3>1 DEF Rows
  <2>11. (\E m \in Messages : Arrive(m)) => UNCHANGED <<inbox, worker>>
    BY DEF Arrive
  <2>12. FaultElsewhere => UNCHANGED <<inbox, worker>>
    BY DEF FaultElsewhere
  <2>13. UNCHANGED vars => UNCHANGED <<inbox, worker>>
    BY DEF vars
  <2> QED
    BY <1>2, <2>1, <2>2, <2>3, <2>4, <2>5, <2>6, <2>7, <2>8, <2>9, <2>10,
       <2>11, <2>12, <2>13, StepCases, Zenon
<1> QED BY <1>1, <1>2, TokensKept, Zenon

\* For any number of workers and whatever leases lapse under them, at most
\* one at a time can complete or release the row of a message.
THEOREM ClaimsAreExclusive == SafeSpec => []OneWorkerOwnsClaim
<1> DEFINE IInv == TypeOK /\ TokensAreFresh
<1>1. Init => IInv
  <2>1. Init => TypeOK
    BY InitType
  <2>2. Init => TokensAreFresh
    BY DEF Init, Idle, TokensAreFresh, Holding
  <2> QED BY <2>1, <2>2
<1>2. IInv /\ [Next]_vars => IInv'
  BY StepType, StepTokens
<1>3. IInv => OneWorkerOwnsClaim
  BY DEF TokensAreFresh, Holding, OneWorkerOwnsClaim, OwnsClaim
<1> QED BY <1>1, <1>2, <1>3, PTL DEF SafeSpec

-----------------------------------------------------------------------------
(* A completed receipt stands for an effect.                               *)

\* A worker that is about to complete its row has seen its handler succeed.
CompletingHadEffect ==
    \A w \in Workers : worker[w].pc = "completing" => effects[Msg(w)] >= 1

\* Effects are only ever added.
LEMMA EffectsGrow ==
    ASSUME TypeOK, [Next]_vars
    PROVE  \A m \in Messages : effects'[m] >= effects[m]
<1>T. effects \in [Messages -> Nat]
  BY DEF TypeOK
<1>1. CASE UNCHANGED effects
  BY <1>T, <1>1
<1>2. CASE \E w \in Workers : HandlerSucceeds(w) \/ HandlerFails(w)
  <2>1. PICK w \in Workers, k \in {0, 1} :
            effects' = [effects EXCEPT ![Msg(w)] = @ + k]
    BY <1>2 DEF HandlerSucceeds, HandlerFails
  <2> QED BY <1>T, <2>1
<1>3. ASSUME ~\E w \in Workers : HandlerSucceeds(w) \/ HandlerFails(w)
      PROVE  UNCHANGED effects
  BY <1>3, StepCases, Zenon
     DEF Arrive, FaultElsewhere, Receive, ClaimInbox, ClaimRefused,
         CompleteInbox, ReleaseInbox, InboxClaimLost, StoreUnavailable, Ack,
         Nack, WorkerCrashes, InboxLeaseLapses, InboxLeaseOverruns, vars
<1> QED BY <1>1, <1>2, <1>3

LEMMA StepCompleting ==
    ASSUME TypeOK, CompletingHadEffect, [Next]_vars
    PROVE  CompletingHadEffect'
<1>T. /\ worker \in [Workers -> WorkerStates]
      /\ effects \in [Messages -> Nat] /\ effects' \in [Messages -> Nat]
  BY StepType DEF TypeOK
<1>1. CASE \A w \in Workers : worker'[w].pc = "completing" =>
               worker[w].pc = "completing" /\ worker'[w].delivery = worker[w].delivery
  <2>1. ASSUME NEW w \in Workers, worker'[w].pc = "completing"
        PROVE  effects'[Msg(w)'] >= 1
    <3>1. /\ Msg(w)' = Msg(w) /\ Msg(w) \in Messages /\ effects[Msg(w)] >= 1
      BY <1>1, <2>1, MsgType DEF Msg, CompletingHadEffect
    <3>2. effects'[Msg(w)] >= effects[Msg(w)]
      BY <3>1, EffectsGrow
    <3> QED BY <1>T, <3>1, <3>2
  <2> QED BY <2>1 DEF CompletingHadEffect
<1>2. CASE \E w \in Workers : HandlerSucceeds(w)
  <2>1. PICK w \in Workers : HandlerSucceeds(w)
    BY <1>2
  <2>2. Msg(w) \in Messages
    BY <2>1, MsgType DEF HandlerSucceeds
  <2>3. effects'[Msg(w)] >= 1 /\ worker'[w].delivery = worker[w].delivery
    BY <1>T, <2>1, <2>2 DEF HandlerSucceeds, WorkerStates
  <2>4. \A v \in Workers \ {w} : worker'[v] = worker[v]
    BY <1>T, <2>1 DEF HandlerSucceeds
  <2>5. ASSUME NEW v \in Workers, worker'[v].pc = "completing"
        PROVE  effects'[Msg(v)'] >= 1
    <3>1. CASE v = w
      BY <2>3, <3>1 DEF Msg
    <3>2. CASE v # w
      <4>1. /\ Msg(v)' = Msg(v) /\ Msg(v) \in Messages /\ effects[Msg(v)] >= 1
        BY <2>4, <2>5, <3>2, MsgType DEF Msg, CompletingHadEffect
      <4>2. effects'[Msg(v)] >= effects[Msg(v)]
        BY <4>1, EffectsGrow
      <4> QED BY <1>T, <4>1, <4>2
    <3> QED BY <3>1, <3>2
  <2> QED BY <2>5 DEF CompletingHadEffect
<1>3. ASSUME ~\E w \in Workers : HandlerSucceeds(w)
      PROVE  \A w \in Workers : worker'[w].pc = "completing" =>
               worker[w].pc = "completing" /\ worker'[w].delivery = worker[w].delivery
  <2> USE <1>T
  <2>1. CASE UNCHANGED worker
    BY <2>1
  <2>2. CASE \E w \in Workers, delivery \in queue : Receive(w, delivery)
    BY <2>2 DEF Receive
  <2>3. CASE \E w \in Workers : ClaimRefused(w)
    BY <2>3 DEF ClaimRefused, WorkerStates
  <2>4. CASE \E w \in Workers : HandlerFails(w)
    BY <2>4 DEF HandlerFails, WorkerStates
  <2>5. CASE \E w \in Workers : CompleteInbox(w)
    BY <2>5 DEF CompleteInbox, WorkerStates
  <2>6. CASE \E w \in Workers : ReleaseInbox(w)
    BY <2>6 DEF ReleaseInbox, WorkerStates
  <2>7. CASE \E w \in Workers : InboxClaimLost(w) \/ StoreUnavailable(w)
    BY <2>7 DEF InboxClaimLost, StoreUnavailable, WorkerStates
  <2>8. CASE \E w \in Workers : Ack(w)
    BY <2>8 DEF Ack, Idle
  <2>9. CASE \E w \in Workers : Nack(w) \/ WorkerCrashes(w)
    BY <2>9 DEF Nack, WorkerCrashes, Idle
  <2>10. CASE \E w \in Workers : ClaimInbox(w)
    BY <2>10 DEF ClaimInbox, WorkerStates
  <2> QED
    BY <1>3, <2>1, <2>2, <2>3, <2>4, <2>5, <2>6, <2>7, <2>8, <2>9, <2>10,
       StepCases, Zenon
       DEF Arrive, FaultElsewhere, InboxLeaseLapses, InboxLeaseOverruns, vars
<1> QED BY <1>1, <1>2, <1>3, Zenon

\* How the state of an inbox row may change: to completed only by the worker
\* that completes it, away from completed never.
LEMMA StepRows ==
    ASSUME TypeOK, [Next]_vars, NEW m \in Messages
    PROVE  /\ inbox'[m].state = "completed" =>
                \/ inbox[m].state = "completed"
                \/ \E w \in Workers : worker[w].pc = "completing" /\ Msg(w) = m
           /\ inbox[m].state = "completed" /\ ~inbox[m].leased =>
                inbox'[m] = inbox[m]
<1>T. inbox \in [Messages -> Rows]
  BY DEF TypeOK
<1>1. CASE UNCHANGED inbox
  BY <1>1
<1>2. CASE \E w \in Workers : ClaimInbox(w)
  <2>1. PICK w \in Workers : ClaimInbox(w)
    BY <1>2
  <2>2. Msg(w) \in Messages /\ inbox[Msg(w)].state # "completed"
    BY <2>1, MsgType DEF ClaimInbox, Takeable
  <2> QED BY <1>T, <2>1, <2>2 DEF ClaimInbox
<1>3. CASE \E w \in Workers : CompleteInbox(w)
  BY <1>T, <1>3 DEF CompleteInbox, OwnsClaim, Rows
<1>4. CASE \E w \in Workers : ReleaseInbox(w)
  BY <1>T, <1>4 DEF ReleaseInbox, OwnsClaim, Rows
<1>5. CASE \E n \in Messages : InboxLeaseLapses(n) \/ InboxLeaseOverruns(n)
  <2>1. PICK n \in Messages : inbox' = [inbox EXCEPT ![n].leased = FALSE]
                              /\ inbox[n].leased
    BY <1>5, Zenon DEF InboxLeaseLapses, InboxLeaseOverruns
  <2>2. CASE n = m
    BY <1>T, <2>1, <2>2 DEF Rows
  <2>3. CASE n # m
    BY <1>T, <2>1, <2>3
  <2> QED BY <2>2, <2>3
<1> QED
  BY <1>1, <1>2, <1>3, <1>4, <1>5, StepCases, Zenon
     DEF Arrive, FaultElsewhere, Receive, ClaimRefused, HandlerSucceeds,
         HandlerFails, InboxClaimLost, StoreUnavailable, Ack, Nack,
         WorkerCrashes, vars

\* Whatever crashes, lapses and redeliveries do, a row is never completed
\* before the handler's effect has landed.
THEOREM CompletionFollowsEffect == SafeSpec => []CompletedHadEffect
<1> DEFINE IInv == TypeOK /\ CompletingHadEffect /\ CompletedHadEffect
<1>1. Init => IInv
  <2>1. Init => TypeOK
    BY InitType
  <2>2. Init => CompletingHadEffect /\ CompletedHadEffect
    BY DEF Init, Idle, CompletingHadEffect, CompletedHadEffect
  <2> QED BY <2>1, <2>2
<1>2. IInv /\ [Next]_vars => IInv'
  <2> SUFFICES ASSUME IInv, [Next]_vars PROVE IInv'
    OBVIOUS
  <2>1. TypeOK' /\ CompletingHadEffect'
    BY StepType, StepCompleting
  <2>2. ASSUME NEW m \in Messages, inbox'[m].state = "completed"
        PROVE  effects'[m] >= 1
    <3>1. effects[m] >= 1
      BY <2>2, StepRows DEF CompletingHadEffect, CompletedHadEffect
    <3>2. effects[m] \in Nat /\ effects'[m] \in Nat /\ effects'[m] >= effects[m]
      BY <2>1, EffectsGrow DEF TypeOK
    <3> QED BY <3>1, <3>2
  <2> QED BY <2>1, <2>2 DEF CompletedHadEffect
<1>3. IInv => CompletedHadEffect
  OBVIOUS
<1> QED BY <1>1, <1>2, <1>3, PTL DEF SafeSpec

-----------------------------------------------------------------------------
(* Completion is final.                                                    *)

CompletedHasNoLease ==
    \A m \in Messages : inbox[m].state = "completed" => ~inbox[m].leased

\* CompleteInbox clears locked_until with the state, so no clock step touches
\* a completed row either.
LEMMA StepLease ==
    ASSUME TypeOK, CompletedHasNoLease, [Next]_vars
    PROVE  CompletedHasNoLease'
<1>T. inbox \in [Messages -> Rows]
  BY DEF TypeOK
<1> SUFFICES ASSUME NEW m \in Messages, inbox'[m].state = "completed"
             PROVE  ~inbox'[m].leased
  BY DEF CompletedHasNoLease
<1>1. CASE inbox[m].state = "completed"
  BY <1>1, StepRows, Zenon DEF CompletedHasNoLease
<1>2. CASE inbox[m].state # "completed"
  <2>1. CASE \E w \in Workers : CompleteInbox(w)
    <3>1. PICK w \in Workers : CompleteInbox(w)
      BY <2>1
    <3>2. Msg(w) \in Messages
      BY <3>1, MsgType DEF CompleteInbox
    <3>3. inbox' = [inbox EXCEPT ![Msg(w)].state = "completed",
                                 ![Msg(w)].leased = FALSE]
      BY <3>1, Zenon DEF CompleteInbox
    <3>4. m = Msg(w)
      BY <1>T, <1>2, <3>2, <3>3
    <3> QED BY <1>T, <3>2, <3>3, <3>4 DEF Rows
  <2>2. ASSUME ~\E w \in Workers : CompleteInbox(w)
        PROVE  inbox'[m].state # "completed"
    <3>1. CASE UNCHANGED inbox
      BY <1>2, <3>1
    <3>2. CASE \E w \in Workers : ClaimInbox(w)
      BY <1>T, <1>2, <3>2 DEF ClaimInbox, Rows
    <3>3. CASE \E w \in Workers : ReleaseInbox(w)
      BY <1>T, <1>2, <3>3 DEF ReleaseInbox, Rows
    <3>4. CASE \E n \in Messages : InboxLeaseLapses(n) \/ InboxLeaseOverruns(n)
      <4>1. PICK n \in Messages : inbox' = [inbox EXCEPT ![n].leased = FALSE]
        BY <3>4, Zenon DEF InboxLeaseLapses, InboxLeaseOverruns
      <4> QED BY <1>T, <1>2, <4>1 DEF Rows
    <3> QED
      BY <2>2, <3>1, <3>2, <3>3, <3>4, StepCases, Zenon
         DEF Arrive, FaultElsewhere, Receive, ClaimRefused, HandlerSucceeds,
             HandlerFails, InboxClaimLost, StoreUnavailable, Ack, Nack,
             WorkerCrashes, vars
  <2> QED BY <2>1, <2>2
<1> QED BY <1>1, <1>2

\* No redelivery, late worker, release or clock step ever changes a completed
\* row again: ClaimInbox refuses it and the token predicates pass it by.
THEOREM CompletionIsFinal == SafeSpec => CompletedIsFinal
<1> DEFINE IInv == TypeOK /\ CompletedHasNoLease
<1>1. Init => IInv
  <2>1. Init => TypeOK
    BY InitType
  <2>2. Init => CompletedHasNoLease
    BY DEF Init, CompletedHasNoLease
  <2> QED BY <2>1, <2>2
<1>2. IInv /\ [Next]_vars => IInv'
  BY StepType, StepLease
<1>3. IInv /\ [Next]_vars =>
        [\A m \in Messages :
            inbox[m].state = "completed" => inbox'[m] = inbox[m]]_vars
  BY StepRows, Zenon DEF CompletedHasNoLease
<1> QED BY <1>1, <1>2, <1>3, PTL DEF SafeSpec, CompletedIsFinal

-----------------------------------------------------------------------------
(* Unfinished work stays visible.                                          *)

\* A copy that goes back to the broker is queued or dead-lettered.
LEMMA ReturnKeepsCopy ==
    ASSUME NEW delivery \in Deliveries, Return(delivery)
    PROVE  /\ queue \subseteq queue' /\ dead \subseteq dead'
           /\ \/ \E d \in queue' : MessageOf(d) = MessageOf(delivery)
              \/ \E copy \in dead' : copy[1] = MessageOf(delivery)
<1>1. CASE delivery.returns < RedeliveryLimit
           /\ queue' = queue \cup {[delivery EXCEPT !.returns = @ + 1]}
           /\ UNCHANGED dead
  <2>1. MessageOf([delivery EXCEPT !.returns = @ + 1]) = MessageOf(delivery)
    BY DEF MessageOf, Deliveries
  <2> QED BY <1>1, <2>1
<1>2. CASE dead' = dead \cup {delivery.copy} /\ UNCHANGED queue
  BY <1>2 DEF MessageOf
<1> QED BY <1>1, <1>2 DEF Return

\* A worker's step that keeps its delivery, the queue and the dead letters
\* keeps every copy live unless it turns to acknowledging its own.
LEMMA LiveKept ==
    ASSUME TypeOK, NEW w \in Workers,
           queue \subseteq queue', dead \subseteq dead',
           \A v \in Workers \ {w} : worker'[v] = worker[v],
           worker'[w].delivery = worker[w].delivery,
           worker'[w].pc # "idle",
           NEW m \in Messages, LiveCopy(m)
    PROVE  LiveCopy(m)' \/ (worker'[w].pc = "acking" /\ Msg(w) = m)
<1>1. CASE \E v \in Workers \ {w} : worker[v].pc \notin {"idle", "acking"} /\ Msg(v) = m
  BY <1>1 DEF LiveCopy, Msg
<1>2. CASE worker[w].pc \notin {"idle", "acking"} /\ Msg(w) = m
  BY <1>2 DEF LiveCopy, Msg
<1>3. CASE \/ \E delivery \in queue : MessageOf(delivery) = m
           \/ \E copy \in dead : copy[1] = m
  BY <1>3 DEF LiveCopy
<1> QED BY <1>1, <1>2, <1>3 DEF LiveCopy

Accounted(m) == inbox[m].state \in {"completed", "claimed"} \/ LiveCopy(m)

\* The steps that take a delivery from the broker or give it back.
LEMMA TransportKeeps ==
    ASSUME TypeOK, NEW m \in Messages, Accounted(m),
           \/ \E w \in Workers, delivery \in queue : Receive(w, delivery)
           \/ \E w \in Workers : Ack(w)
           \/ \E w \in Workers : Nack(w) \/ WorkerCrashes(w)
    PROVE  Accounted(m)'
<1>T. worker \in [Workers -> WorkerStates]
  BY DEF TypeOK
<1>I. UNCHANGED inbox
  BY DEF Receive, Ack, Nack, WorkerCrashes
<1> SUFFICES ASSUME LiveCopy(m) PROVE LiveCopy(m)'
  BY <1>I DEF Accounted
<1>1. CASE \E w \in Workers, delivery \in queue : Receive(w, delivery)
  <2>1. PICK w \in Workers, delivery \in queue : Receive(w, delivery)
    BY <1>1
  <2>2. /\ queue' = queue \ {delivery} /\ UNCHANGED dead /\ worker[w].pc = "idle"
        /\ worker'[w].pc = "received" /\ worker'[w].delivery = delivery
        /\ \A v \in Workers \ {w} : worker'[v] = worker[v]
    BY <1>T, <2>1 DEF Receive
  <2> QED BY <2>2 DEF LiveCopy, Msg
<1>2. CASE \E w \in Workers : Ack(w)
  <2>1. PICK w \in Workers : Ack(w)
    BY <1>2
  <2>2. /\ UNCHANGED <<queue, dead>> /\ worker[w].pc = "acking"
        /\ \A v \in Workers \ {w} : worker'[v] = worker[v]
    BY <1>T, <2>1 DEF Ack
  <2> QED BY <2>2 DEF LiveCopy, Msg
<1>3. CASE \E w \in Workers : Nack(w) \/ WorkerCrashes(w)
  <2>1. PICK w \in Workers : Nack(w) \/ WorkerCrashes(w)
    BY <1>3
  <2>2. /\ worker[w].pc # "idle" /\ Return(worker[w].delivery)
        /\ \A v \in Workers \ {w} : worker'[v] = worker[v]
    BY <1>T, <2>1 DEF Nack, WorkerCrashes
  <2>3. worker[w].delivery \in Deliveries
    BY <2>2 DEF TypeOK
  <2>4. /\ queue \subseteq queue' /\ dead \subseteq dead'
        /\ \/ \E d \in queue' : MessageOf(d) = Msg(w)
           \/ \E copy \in dead' : copy[1] = Msg(w)
    BY <2>2, <2>3, ReturnKeepsCopy DEF Msg
  <2> QED BY <2>2, <2>4 DEF LiveCopy, Msg
<1> QED BY <1>1, <1>2, <1>3

\* The steps between receiving a delivery and answering for it.
LEMMA HandlingKeeps ==
    ASSUME TypeOK, NEW m \in Messages, Accounted(m), NEW w \in Workers,
           \/ ClaimInbox(w) \/ ClaimRefused(w)
           \/ HandlerSucceeds(w) \/ HandlerFails(w)
           \/ CompleteInbox(w) \/ ReleaseInbox(w)
           \/ InboxClaimLost(w) \/ StoreUnavailable(w)
    PROVE  Accounted(m)'
<1>T. worker \in [Workers -> WorkerStates] /\ inbox \in [Messages -> Rows]
  BY DEF TypeOK
<1>1. /\ UNCHANGED <<queue, dead>> /\ worker[w].pc \notin {"idle", "acking"}
      /\ \A v \in Workers \ {w} : worker'[v] = worker[v]
      /\ worker'[w].delivery = worker[w].delivery /\ worker'[w].pc # "idle"
  BY <1>T DEF ClaimInbox, ClaimRefused, HandlerSucceeds, HandlerFails,
              CompleteInbox, ReleaseInbox, InboxClaimLost, StoreUnavailable,
              WorkerStates
<1>2. LiveCopy(m) => LiveCopy(m)' \/ (worker'[w].pc = "acking" /\ Msg(w) = m)
  BY <1>1, LiveKept
<1>3. Msg(w) \in Messages
  BY <1>1, MsgType
<1>4. CASE ClaimInbox(w)
  <2>1. inbox'[Msg(w)].state = "claimed"
        /\ \A n \in Messages \ {Msg(w)} : inbox'[n] = inbox[n]
    BY <1>T, <1>3, <1>4 DEF ClaimInbox
  <2> QED BY <1>2, <2>1 DEF Accounted
<1>5. CASE ClaimRefused(w)
  <2>1. inbox[Msg(w)].state \in {"completed", "claimed"} /\ UNCHANGED inbox
    BY <1>T, <1>3, <1>5 DEF ClaimRefused, Takeable, Rows
  <2> QED BY <1>2, <2>1 DEF Accounted
<1>6. CASE CompleteInbox(w)
  <2>1. inbox'[Msg(w)].state = "completed"
        /\ \A n \in Messages \ {Msg(w)} : inbox'[n] = inbox[n]
    BY <1>T, <1>3, <1>6 DEF CompleteInbox, Rows
  <2> QED BY <1>2, <2>1 DEF Accounted
<1>7. CASE ReleaseInbox(w)
  <2>1. /\ worker'[w].pc = "nacking"
        /\ \A n \in Messages \ {Msg(w)} : inbox'[n] = inbox[n]
    BY <1>T, <1>3, <1>7 DEF ReleaseInbox, WorkerStates
  <2>2. Msg(w)' = Msg(w)
    BY <1>1 DEF Msg
  <2>3. m = Msg(w) => LiveCopy(m)'
    BY <2>1, <2>2 DEF LiveCopy
  <2> QED BY <1>2, <2>1, <2>3 DEF Accounted
<1>8. CASE \/ HandlerSucceeds(w) \/ HandlerFails(w)
           \/ InboxClaimLost(w) \/ StoreUnavailable(w)
  <2>1. UNCHANGED inbox /\ worker'[w].pc # "acking"
    BY <1>T, <1>8 DEF HandlerSucceeds, HandlerFails, InboxClaimLost,
                      StoreUnavailable, WorkerStates
  <2> QED BY <1>2, <2>1 DEF Accounted
<1> QED BY <1>4, <1>5, <1>6, <1>7, <1>8

LEMMA StepVisible ==
    ASSUME TypeOK, UnfinishedWorkIsVisible, [Next]_vars
    PROVE  UnfinishedWorkIsVisible'
<1> SUFFICES ASSUME NEW m \in Messages, Arrived(m)'
             PROVE  Accounted(m)'
  BY DEF UnfinishedWorkIsVisible, Accounted
<1>0. Arrived(m) => Accounted(m)
  BY DEF UnfinishedWorkIsVisible, Accounted
<1>1. CASE \E n \in Messages : Arrive(n)
  <2>1. PICK n \in Messages, k \in 1..(1 + MaxFaults) : Accept(<<n, k>>)
    BY <1>1 DEF Arrive
  <2>2. UNCHANGED <<inbox, worker, dead>>
    BY <1>1 DEF Arrive
  <2>3. CASE m = n
    <3>1. [copy |-> <<n, k>>, returns |-> 0] \in queue'
      BY <2>1 DEF Accept
    <3>2. MessageOf([copy |-> <<n, k>>, returns |-> 0]) = m
      BY <2>3 DEF MessageOf
    <3> QED BY <3>1, <3>2 DEF Accounted, LiveCopy
  <2>4. CASE m # n
    <3>1. Arrived(m)
      BY <2>1, <2>4 DEF Arrived, Accept
    <3>2. queue \subseteq queue'
      BY <2>1 DEF Accept
    <3> QED BY <1>0, <2>2, <3>1, <3>2 DEF Accounted, LiveCopy, Msg
  <2> QED BY <2>3, <2>4
<1>2. ASSUME ~\E n \in Messages : Arrive(n)
      PROVE  Accounted(m)
  <2>1. UNCHANGED accepted
    BY <1>2, StepCases, Zenon
       DEF FaultElsewhere, Receive, ClaimInbox, ClaimRefused, HandlerSucceeds,
           HandlerFails, CompleteInbox, ReleaseInbox, InboxClaimLost,
           StoreUnavailable, Ack, Nack, WorkerCrashes, InboxLeaseLapses,
           InboxLeaseOverruns, vars
  <2> QED BY <1>0, <2>1 DEF Arrived
<1>3. CASE UNCHANGED <<worker, queue, dead>>
           /\ \A n \in Messages : inbox'[n].state = inbox[n].state
  BY <1>0, <1>1, <1>2, <1>3 DEF Accounted, LiveCopy, Msg
<1>4. (\E n \in Messages : InboxLeaseLapses(n) \/ InboxLeaseOverruns(n)) =>
         UNCHANGED <<worker, queue, dead>>
         /\ \A n \in Messages : inbox'[n].state = inbox[n].state
  <2> SUFFICES ASSUME NEW n \in Messages,
                      InboxLeaseLapses(n) \/ InboxLeaseOverruns(n)
               PROVE  UNCHANGED <<worker, queue, dead>>
                      /\ \A k \in Messages : inbox'[k].state = inbox[k].state
    BY Zenon
  <2>1. UNCHANGED <<worker, queue, dead>>
        /\ inbox' = [inbox EXCEPT ![n].leased = FALSE]
    BY Zenon DEF InboxLeaseLapses, InboxLeaseOverruns
  <2> QED BY <2>1 DEF TypeOK, Rows
<1>5. (FaultElsewhere \/ UNCHANGED vars) =>
         UNCHANGED <<worker, queue, dead>>
         /\ \A n \in Messages : inbox'[n].state = inbox[n].state
  BY DEF FaultElsewhere, vars
<1> QED
  BY <1>1, <1>2, <1>3, <1>4, <1>5, TransportKeeps, HandlingKeeps, StepCases,
     Zenon

\* For any number of workers and faults, a message that reached the broker is
\* completed, still claimed in the inbox, or a copy of it is queued, held or
\* dead-lettered: it never vanishes without a trace.
THEOREM WorkNeverVanishes == SafeSpec => []UnfinishedWorkIsVisible
<1> DEFINE IInv == TypeOK /\ UnfinishedWorkIsVisible
<1>1. Init => IInv
  <2>1. Init => TypeOK
    BY InitType
  <2>2. Init => UnfinishedWorkIsVisible
    BY DEF Init, BrokerInit, UnfinishedWorkIsVisible, Arrived
  <2> QED BY <2>1, <2>2
<1>2. IInv /\ [Next]_vars => IInv'
  BY StepType, StepVisible
<1>3. IInv => UnfinishedWorkIsVisible
  OBVIOUS
<1> QED BY <1>1, <1>2, <1>3, PTL DEF SafeSpec

-----------------------------------------------------------------------------
(* Every claim after the first, hence every repeated effect, is paid for.  *)

\* The latest claim of m is being worked on under a live lease, and nothing
\* has gone wrong with it yet.
Healthy(m) ==
    /\ inbox[m].leased
    /\ \E w \in Workers : /\ worker[w].pc \in {"handling", "completing"}
                          /\ Msg(w) = m
                          /\ worker[w].token = inbox[m].attempt

\* A row that can be claimed again without another fault.
Open(m) ==
    /\ inbox[m].attempt # 0
    /\ \/ inbox[m].state \in {"absent", "released"}
       \/ inbox[m].state = "claimed" /\ ~Healthy(m)

ClaimsArePaid ==
    \A m \in Messages : /\ inbox[m].attempt <= 1 + faults
                        /\ Open(m) => inbox[m].attempt <= faults

Handlers(m) == {w \in Workers : worker[w].pc = "handling" /\ Msg(w) = m}

\* Each claim runs the handler once: the effects that landed and the handlers
\* that still run have a claim each.
EffectsHaveClaims ==
    \A m \in Messages :
        /\ IsFiniteSet(Handlers(m))
        /\ effects[m] + Cardinality(Handlers(m)) <= inbox[m].attempt

\* What a step does to the handlers of m: they go on or stop, one of them
\* finishes, or a claim starts one.
HandlersKeep(m) == /\ Handlers(m)' \subseteq Handlers(m)
                   /\ effects'[m] = effects[m] /\ inbox'[m].attempt = inbox[m].attempt
HandlerEnds(m) == /\ \E w \in Handlers(m) : Handlers(m)' \subseteq Handlers(m) \ {w}
                  /\ effects'[m] <= effects[m] + 1 /\ inbox'[m].attempt = inbox[m].attempt
HandlerStarts(m) == /\ \E w : Handlers(m)' \subseteq Handlers(m) \cup {w}
                    /\ effects'[m] = effects[m] /\ inbox'[m].attempt = inbox[m].attempt + 1

LEMMA HandlersMove ==
    ASSUME TypeOK, [Next]_vars, NEW m \in Messages
    PROVE  HandlersKeep(m) \/ HandlerEnds(m) \/ HandlerStarts(m)
<1>T. /\ worker \in [Workers -> WorkerStates] /\ inbox \in [Messages -> Rows]
      /\ effects \in [Messages -> Nat]
  BY DEF TypeOK
<1>0. ASSUME effects' = effects,
             \A n \in Messages : inbox'[n].attempt = inbox[n].attempt,
             \A w \in Workers : worker'[w].pc = "handling" =>
                worker[w].pc = "handling" /\ worker'[w].delivery = worker[w].delivery
      PROVE  HandlersKeep(m)
  BY <1>0 DEF HandlersKeep, Handlers, Msg
<1>1. CASE UNCHANGED <<worker, inbox, effects>>
  BY <1>1, <1>0
<1>2. CASE \E w \in Workers, delivery \in queue : Receive(w, delivery)
  BY <1>T, <1>2, <1>0 DEF Receive
<1>3. CASE \E w \in Workers : ClaimInbox(w)
  <2>1. PICK w \in Workers : ClaimInbox(w)
    BY <1>3
  <2>2. Msg(w) \in Messages
    BY <2>1, MsgType DEF ClaimInbox
  <2>3. /\ inbox'[Msg(w)].attempt = inbox[Msg(w)].attempt + 1
        /\ \A n \in Messages : n # Msg(w) => inbox'[n] = inbox[n]
        /\ effects' = effects
    BY <1>T, <2>1, <2>2 DEF ClaimInbox
  <2>4. /\ \A v \in Workers : v # w => worker'[v] = worker[v]
        /\ worker'[w].delivery = worker[w].delivery
    BY <1>T, <2>1 DEF ClaimInbox, WorkerStates
  <2>5. \A v \in Workers : Msg(v)' = Msg(v)
    BY <2>4 DEF Msg
  <2>6. Handlers(m)' \subseteq Handlers(m) \cup {w}
    BY <2>4, <2>5 DEF Handlers
  <2>7. m # Msg(w) => Handlers(m)' \subseteq Handlers(m)
    BY <2>4, <2>5 DEF Handlers
  <2> QED BY <2>3, <2>6, <2>7 DEF HandlersKeep, HandlerStarts
<1>4. CASE \E w \in Workers : ClaimRefused(w)
  BY <1>T, <1>4, <1>0 DEF ClaimRefused, WorkerStates
<1>5. CASE \E w \in Workers : HandlerSucceeds(w) \/ HandlerFails(w)
  <2>1. PICK w \in Workers, k \in {0, 1} :
            /\ effects' = [effects EXCEPT ![Msg(w)] = @ + k]
            /\ worker[w].pc = "handling" /\ inbox' = inbox
            /\ \/ worker' = [worker EXCEPT ![w].pc = "completing"]
               \/ worker' = [worker EXCEPT ![w].pc = "releasing"]
    BY <1>5 DEF HandlerSucceeds, HandlerFails
  <2>2. Msg(w) \in Messages
    BY <2>1, MsgType
  <2>3. /\ \A v \in Workers : v # w => worker'[v] = worker[v]
        /\ worker'[w].pc # "handling"
    BY <1>T, <2>1 DEF WorkerStates
  <2>4. Handlers(m)' \subseteq Handlers(m) \ {w}
    BY <2>3 DEF Handlers, Msg
  <2>5. m = Msg(w) => w \in Handlers(m)
    BY <2>1 DEF Handlers
  <2>6. /\ m # Msg(w) => effects'[m] = effects[m]
        /\ effects'[m] <= effects[m] + 1
    BY <1>T, <2>1, <2>2
  <2> QED BY <2>1, <2>4, <2>5, <2>6 DEF HandlersKeep, HandlerEnds
<1>6. CASE \E w \in Workers : CompleteInbox(w)
  BY <1>T, <1>6, <1>0 DEF CompleteInbox, Rows, WorkerStates
<1>7. CASE \E w \in Workers : ReleaseInbox(w)
  BY <1>T, <1>7, <1>0 DEF ReleaseInbox, Rows, WorkerStates
<1>8. CASE \E w \in Workers : InboxClaimLost(w) \/ StoreUnavailable(w)
  BY <1>T, <1>8, <1>0 DEF InboxClaimLost, StoreUnavailable, WorkerStates
<1>9. CASE \E w \in Workers : Ack(w)
  BY <1>T, <1>9, <1>0 DEF Ack, Idle
<1>10. CASE \E w \in Workers : Nack(w) \/ WorkerCrashes(w)
  BY <1>T, <1>10, <1>0 DEF Nack, WorkerCrashes, Idle
<1>11. CASE \E n \in Messages : InboxLeaseLapses(n) \/ InboxLeaseOverruns(n)
  <2>1. UNCHANGED <<worker, effects>>
        /\ \E n \in Messages : inbox' = [inbox EXCEPT ![n].leased = FALSE]
    BY <1>11, Zenon DEF InboxLeaseLapses, InboxLeaseOverruns
  <2> QED BY <1>T, <2>1, <1>0 DEF Rows
<1>12. (\E n \in Messages : Arrive(n)) => UNCHANGED <<worker, inbox, effects>>
  BY DEF Arrive
<1>13. FaultElsewhere \/ UNCHANGED vars => UNCHANGED <<worker, inbox, effects>>
  BY DEF FaultElsewhere, vars
<1> QED
  BY <1>1, <1>2, <1>3, <1>4, <1>5, <1>6, <1>7, <1>8, <1>9, <1>10, <1>11,
     <1>12, <1>13, StepCases, Zenon

LEMMA StepEffects ==
    ASSUME TypeOK, EffectsHaveClaims, [Next]_vars
    PROVE  EffectsHaveClaims'
<1> SUFFICES ASSUME NEW m \in Messages
             PROVE  /\ IsFiniteSet(Handlers(m)')
                    /\ effects'[m] + Cardinality(Handlers(m)') <= inbox'[m].attempt
  BY DEF EffectsHaveClaims
<1>T. /\ effects[m] \in Nat /\ effects'[m] \in Nat
      /\ inbox[m].attempt \in Nat /\ inbox'[m].attempt \in Nat
  BY StepType DEF TypeOK, Rows
<1>H. /\ IsFiniteSet(Handlers(m)) /\ Cardinality(Handlers(m)) \in Nat
      /\ effects[m] + Cardinality(Handlers(m)) <= inbox[m].attempt
  BY FS_CardinalityType DEF EffectsHaveClaims
<1>1. CASE HandlersKeep(m)
  <2>1. IsFiniteSet(Handlers(m)') /\ Cardinality(Handlers(m)') <= Cardinality(Handlers(m))
    BY <1>H, <1>1, FS_Subset DEF HandlersKeep
  <2>2. Cardinality(Handlers(m)') \in Nat
    BY <2>1, FS_CardinalityType
  <2> QED BY <1>T, <1>H, <1>1, <2>1, <2>2 DEF HandlersKeep
<1>2. CASE HandlerEnds(m)
  <2>1. PICK w \in Handlers(m) : Handlers(m)' \subseteq Handlers(m) \ {w}
    BY <1>2 DEF HandlerEnds
  <2>2. IsFiniteSet(Handlers(m) \ {w})
        /\ Cardinality(Handlers(m) \ {w}) = Cardinality(Handlers(m)) - 1
    BY <1>H, FS_RemoveElement
  <2>3. IsFiniteSet(Handlers(m)')
        /\ Cardinality(Handlers(m)') <= Cardinality(Handlers(m) \ {w})
    BY <2>1, <2>2, FS_Subset
  <2>4. Cardinality(Handlers(m)') \in Nat
    BY <2>3, FS_CardinalityType
  <2> QED BY <1>T, <1>H, <1>2, <2>2, <2>3, <2>4 DEF HandlerEnds
<1>3. CASE HandlerStarts(m)
  <2>1. PICK w : Handlers(m)' \subseteq Handlers(m) \cup {w}
    BY <1>3 DEF HandlerStarts
  <2>2. Cardinality(Handlers(m) \cup {w})
          = IF w \in Handlers(m) THEN Cardinality(Handlers(m))
            ELSE Cardinality(Handlers(m)) + 1
    BY <1>H, FS_AddElement
  <2>3. IsFiniteSet(Handlers(m) \cup {w})
    BY <1>H, FS_AddElement
  <2>4. IsFiniteSet(Handlers(m)')
        /\ Cardinality(Handlers(m)') <= Cardinality(Handlers(m) \cup {w})
    BY <2>1, <2>3, FS_Subset
  <2>5. Cardinality(Handlers(m)') \in Nat
    BY <2>4, FS_CardinalityType
  <2> QED BY <1>T, <1>H, <1>3, <2>2, <2>4, <2>5 DEF HandlerStarts
<1> QED BY <1>1, <1>2, <1>3, HandlersMove

\* A step without a claim that costs a fault, or that opens no row, keeps the
\* claims paid.
LEMMA PaidKept ==
    ASSUME TypeOK, ClaimsArePaid,
           \A m \in Messages : inbox'[m].attempt = inbox[m].attempt,
           \/ Fault
           \/ faults' = faults /\ \A m \in Messages : Open(m)' => Open(m)
    PROVE  ClaimsArePaid'
<1>T. faults \in Nat /\ \A m \in Messages : inbox[m].attempt \in Nat
  BY BrokerAssumption DEF TypeOK, BrokerTypeOK, Rows
<1> QED BY <1>T DEF ClaimsArePaid, Fault

\* A worker that moves on keeps the other rows and workers healthy.
LEMMA HealthKept ==
    ASSUME NEW w \in Workers, NEW m \in Messages,
           inbox'[m].attempt = inbox[m].attempt, inbox[m].leased => inbox'[m].leased,
           \A v \in Workers : v # w => worker'[v] = worker[v],
           \/ worker[w].pc \notin {"handling", "completing"}
           \/ Msg(w) # m
           \/ worker[w].token # inbox[m].attempt
           \/ /\ worker'[w].pc \in {"handling", "completing"}
              /\ worker'[w].delivery = worker[w].delivery
              /\ worker'[w].token = worker[w].token
    PROVE  Healthy(m) => Healthy(m)'
BY DEF Healthy, Msg

LEMMA StepPaid ==
    ASSUME TypeOK, TokensAreFresh, ClaimsArePaid, [Next]_vars
    PROVE  ClaimsArePaid'
<1>T. /\ worker \in [Workers -> WorkerStates] /\ inbox \in [Messages -> Rows]
      /\ faults \in Nat
  BY BrokerAssumption DEF TypeOK, BrokerTypeOK
<1>0. ASSUME inbox' = inbox, faults' = faults,
             \A m \in Messages : inbox[m].state = "claimed" => (Healthy(m) => Healthy(m)')
      PROVE  ClaimsArePaid'
  BY <1>0, PaidKept DEF Open
<1>1. CASE UNCHANGED <<worker, inbox, faults>>
  BY <1>0, <1>1 DEF Healthy, Msg
<1>2. ASSUME Fault, inbox' = inbox PROVE ClaimsArePaid'
  BY <1>2, PaidKept
<1>3. ASSUME NEW w \in Workers, NEW delivery \in queue, Receive(w, delivery)
      PROVE  ClaimsArePaid'
  <2>1. /\ worker[w].pc = "idle" /\ inbox' = inbox /\ faults' = faults
        /\ \A v \in Workers : v # w => worker'[v] = worker[v]
    BY <1>T, <1>3 DEF Receive
  <2> QED BY <1>0, <2>1, HealthKept
<1>4. ASSUME NEW w \in Workers, ClaimInbox(w) PROVE ClaimsArePaid'
  <2>1. Msg(w) \in Messages /\ faults' = faults /\ worker[w].pc = "received"
        /\ Takeable(Msg(w))
    BY <1>4, MsgType DEF ClaimInbox
  <2>2. /\ inbox'[Msg(w)] = [state |-> "claimed", leased |-> TRUE,
                             attempt |-> inbox[Msg(w)].attempt + 1]
        /\ \A m \in Messages : m # Msg(w) => inbox'[m] = inbox[m]
    BY <1>T, <1>4, <2>1 DEF ClaimInbox
  <2>3. /\ worker'[w].pc = "handling" /\ worker'[w].delivery = worker[w].delivery
        /\ worker'[w].token = inbox[Msg(w)].attempt + 1
        /\ \A v \in Workers : v # w => worker'[v] = worker[v]
    BY <1>T, <1>4 DEF ClaimInbox, WorkerStates
  <2>4. \A m \in Messages : m # Msg(w) => (Open(m)' => Open(m))
    <3>1. \A m \in Messages : m # Msg(w) => (Healthy(m) => Healthy(m)')
      BY <2>1, <2>2, <2>3, HealthKept
    <3> QED BY <2>2, <3>1 DEF Open
  <2>5. ASSUME NEW m \in Messages, m = Msg(w) PROVE ~Open(m)'
    BY <2>2, <2>3, <2>5 DEF Open, Healthy, Msg
  <2>6. inbox[Msg(w)].attempt \in Nat
    BY <1>T, <2>1 DEF Rows
  <2>7. inbox[Msg(w)].attempt # 0 => Open(Msg(w))
    BY <2>1 DEF Takeable, Open, Healthy, ClaimsArePaid
  <2>8. ASSUME NEW m \in Messages
        PROVE  /\ inbox'[m].attempt <= 1 + faults
               /\ Open(m)' => inbox'[m].attempt <= faults
    <3>1. CASE m = Msg(w)
      BY <1>T, <2>1, <2>2, <2>5, <2>6, <2>7, <3>1 DEF ClaimsArePaid
    <3>2. CASE m # Msg(w)
      BY <2>2, <2>4, <3>2 DEF ClaimsArePaid
    <3> QED BY <3>1, <3>2
  <2> QED BY <2>1, <2>8 DEF ClaimsArePaid
<1>5. ASSUME NEW w \in Workers, ClaimRefused(w) \/ Ack(w) \/ Nack(w) PROVE ClaimsArePaid'
  <2>1. /\ worker[w].pc \notin {"handling", "completing"} /\ inbox' = inbox
        /\ faults' = faults
        /\ \A v \in Workers : v # w => worker'[v] = worker[v]
    BY <1>T, <1>5 DEF ClaimRefused, Ack, Nack
  <2> QED BY <1>0, <2>1, HealthKept
<1>6. ASSUME NEW w \in Workers, HandlerSucceeds(w) PROVE ClaimsArePaid'
  <2>1. /\ worker'[w].pc = "completing" /\ inbox' = inbox /\ faults' = faults
        /\ worker'[w].delivery = worker[w].delivery
        /\ worker'[w].token = worker[w].token
        /\ \A v \in Workers : v # w => worker'[v] = worker[v]
    BY <1>T, <1>6 DEF HandlerSucceeds, WorkerStates
  <2> QED BY <1>0, <2>1, HealthKept
<1>7. ASSUME NEW w \in Workers, CompleteInbox(w) \/ ReleaseInbox(w) PROVE ClaimsArePaid'
  <2>1. /\ Msg(w) \in Messages /\ faults' = faults /\ Holding(w) /\ OwnsClaim(w)
        /\ \A v \in Workers : v # w => worker'[v] = worker[v]
    BY <1>T, <1>7, MsgType DEF CompleteInbox, ReleaseInbox, Holding
  <2>2. /\ \A m \in Messages : inbox'[m].attempt = inbox[m].attempt
        /\ \A m \in Messages : m # Msg(w) => inbox'[m] = inbox[m]
    BY <1>T, <1>7, <2>1 DEF CompleteInbox, ReleaseInbox, Rows
  <2>3. \A m \in Messages : m # Msg(w) => (Healthy(m) => Healthy(m)')
    BY <2>1, <2>2, HealthKept
  <2>4. \A m \in Messages : m # Msg(w) => (Open(m)' => Open(m))
    BY <2>2, <2>3 DEF Open
  <2>5. CASE CompleteInbox(w)
    <3>1. inbox'[Msg(w)].state = "completed"
      BY <1>T, <2>1, <2>5 DEF CompleteInbox, Rows
    <3>2. \A m \in Messages : m = Msg(w) => ~Open(m)'
      BY <3>1 DEF Open
    <3> QED BY <2>1, <2>2, <2>4, <3>2, PaidKept
  <2>6. CASE ReleaseInbox(w)
    <3>1. worker[w].pc = "releasing"
      BY <2>6 DEF ReleaseInbox
    <3>2. ~Healthy(Msg(w))
      <4>1. SUFFICES ASSUME NEW v \in Workers, worker[v].pc \in {"handling", "completing"},
                            Msg(v) = Msg(w), worker[v].token = inbox[Msg(w)].attempt
                     PROVE  FALSE
        BY DEF Healthy
      <4>2. v = w
        BY <2>1, <4>1 DEF TokensAreFresh, Holding, OwnsClaim
      <4> QED BY <3>1, <4>1, <4>2
    <3>3. \A m \in Messages : m = Msg(w) => (Open(m)' => Open(m))
      BY <2>1, <2>2, <3>2 DEF Open, OwnsClaim
    <3> QED BY <2>1, <2>2, <2>4, <3>3, PaidKept
  <2> QED BY <1>7, <2>5, <2>6
<1>8. ASSUME NEW w \in Workers, InboxClaimLost(w) PROVE ClaimsArePaid'
  <2>1. /\ ~OwnsClaim(w) /\ inbox' = inbox /\ faults' = faults
        /\ \A v \in Workers : v # w => worker'[v] = worker[v]
    BY <1>T, <1>8 DEF InboxClaimLost
  <2>2. \A m \in Messages : inbox[m].state = "claimed" =>
            Msg(w) # m \/ worker[w].token # inbox[m].attempt
    BY <2>1 DEF OwnsClaim
  <2> QED BY <1>0, <2>1, <2>2, HealthKept
<1>9. ASSUME NEW w \in Workers, HandlerFails(w) \/ StoreUnavailable(w) \/ WorkerCrashes(w)
      PROVE  ClaimsArePaid'
  <2>1. Fault /\ inbox' = inbox
    BY <1>9 DEF HandlerFails, StoreUnavailable, WorkerCrashes
  <2> QED BY <1>2, <2>1
<1>10. ASSUME NEW n \in Messages, InboxLeaseLapses(n) \/ InboxLeaseOverruns(n)
       PROVE  ClaimsArePaid'
  <2>1. inbox' = [inbox EXCEPT ![n].leased = FALSE] /\ worker' = worker
    BY <1>10, Zenon DEF InboxLeaseLapses, InboxLeaseOverruns
  <2>2. \A m \in Messages : /\ inbox'[m].attempt = inbox[m].attempt
                            /\ inbox'[m].state = inbox[m].state
                            /\ m # n => inbox'[m] = inbox[m]
    BY <1>T, <2>1 DEF Rows
  <2>3. CASE InboxLeaseLapses(n)
    <3>1. faults' = faults /\ ~LiveClaim(n)
      BY <2>3 DEF InboxLeaseLapses
    <3>2. ~Healthy(n)
      BY <3>1 DEF LiveClaim, Healthy
    <3>3. \A m \in Messages : m # n => (Healthy(m) => Healthy(m)')
      BY <2>1, <2>2 DEF Healthy, Msg
    <3>4. \A m \in Messages : Open(m)' => Open(m)
      BY <2>2, <3>2, <3>3 DEF Open
    <3> QED BY <2>2, <3>1, <3>4, PaidKept
  <2>4. CASE InboxLeaseOverruns(n)
    BY <2>2, <2>4, PaidKept DEF InboxLeaseOverruns
  <2> QED BY <1>10, <2>3, <2>4
<1>11. (\E n \in Messages : Arrive(n)) => UNCHANGED <<worker, inbox, faults>>
  BY DEF Arrive
<1>12. UNCHANGED vars => UNCHANGED <<worker, inbox, faults>>
  BY DEF vars
<1>13. FaultElsewhere => Fault /\ inbox' = inbox
  BY DEF FaultElsewhere
<1> QED
  BY <1>1, <1>2, <1>3, <1>4, <1>5, <1>6, <1>7, <1>8, <1>9, <1>10, <1>11,
     <1>12, <1>13, StepCases, Zenon

\* Duplicates of a message alone never repeat its effect: for any number of
\* workers, copies and redeliveries, the handler's effect lands once and once
\* more at most for every fault.
THEOREM RepeatedEffectsHold == SafeSpec => []RepeatedEffectsNeedFaults
<1> DEFINE IInv == TypeOK /\ TokensAreFresh /\ ClaimsArePaid /\ EffectsHaveClaims
<1>1. Init => IInv
  <2> SUFFICES ASSUME Init PROVE IInv
    OBVIOUS
  <2>1. TypeOK
    BY InitType
  <2>2. TokensAreFresh
    BY DEF Init, Idle, TokensAreFresh, Holding
  <2>3. ClaimsArePaid
    BY DEF Init, BrokerInit, ClaimsArePaid, Open
  <2>4. \A m \in Messages : Handlers(m) = {} /\ effects[m] = 0 /\ inbox[m].attempt = 0
    BY DEF Init, Idle, Handlers
  <2>5. EffectsHaveClaims
    BY <2>4, FS_EmptySet DEF EffectsHaveClaims
  <2> QED BY <2>1, <2>2, <2>3, <2>5
<1>2. IInv /\ [Next]_vars => IInv'
  BY StepType, StepTokens, StepPaid, StepEffects
<1>3. IInv => RepeatedEffectsNeedFaults
  <2> SUFFICES ASSUME IInv, NEW m \in Messages PROVE effects[m] <= 1 + faults
    BY DEF RepeatedEffectsNeedFaults
  <2>1. effects[m] \in Nat /\ inbox[m].attempt \in Nat /\ faults \in Nat
    BY BrokerAssumption DEF TypeOK, BrokerTypeOK, Rows
  <2>2. Cardinality(Handlers(m)) \in Nat
    BY FS_CardinalityType DEF EffectsHaveClaims
  <2> QED BY <2>1, <2>2 DEF ClaimsArePaid, EffectsHaveClaims
<1> QED BY <1>1, <1>2, <1>3, PTL DEF SafeSpec
=============================================================================
