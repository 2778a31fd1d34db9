------------------------------- MODULE Broker -------------------------------
(***************************************************************************)
(* One RabbitMQ quorum queue as the Go code configures and uses it         *)
(* (internal/messaging/amqp.go).  RabbitMQ itself is external: only what   *)
(* DeclareTopology asks of it is modelled, namely durable acceptance of a  *)
(* published message, delivery to one consumer at a time, requeueing of    *)
(* what is returned, the x-delivery-limit and the dead-letter queue.       *)
(*                                                                         *)
(* A physical copy of a message is named by the message and the number of  *)
(* the outbox claim that published it: publish_attempts grows with every   *)
(* claim, so the pair is unique, whereas the message id is the same in     *)
(* every copy.                                                             *)
(***************************************************************************)
EXTENDS Naturals, FiniteSets

CONSTANTS
    Messages,        \* ids of the outbox rows
    RedeliveryLimit, \* domain.QuorumQueueRedeliveryLimit, 5 in the code
    MaxFaults        \* bound: crashes, lost confirms, store errors in a run

ASSUME BrokerAssumption ==
    /\ IsFiniteSet(Messages)
    /\ RedeliveryLimit \in Nat
    /\ MaxFaults \in Nat

VARIABLES
    queue,    \* ready copies, each with the number of times it was returned
    dead,     \* copies in the dead-letter queue
    accepted, \* history: every copy the broker has durably accepted
    faults    \* faults that have happened so far

brokerVars == <<queue, dead, accepted, faults>>

Copies == Messages \X Nat
Deliveries == [copy : Copies, returns : 0..RedeliveryLimit]

BrokerTypeOK ==
    /\ queue \subseteq Deliveries
    /\ dead \subseteq Copies
    /\ accepted \subseteq Copies
    /\ faults \in 0..MaxFaults

BrokerInit ==
    /\ queue = {}
    /\ dead = {}
    /\ accepted = {}
    /\ faults = 0

MessageOf(delivery) == delivery.copy[1]

\* A persistent publish reaches the queue.
Accept(copy) ==
    /\ accepted' = accepted \cup {copy}
    /\ queue' = queue \cup {[copy |-> copy, returns |-> 0]}

\* A nacked or abandoned delivery goes back to the queue until it has been
\* returned RedeliveryLimit times; after that it is dead-lettered.
Return(delivery) ==
    \/ /\ delivery.returns < RedeliveryLimit
       /\ queue' = queue \cup {[delivery EXCEPT !.returns = @ + 1]}
       /\ UNCHANGED dead
    \/ /\ delivery.returns = RedeliveryLimit
       /\ dead' = dead \cup {delivery.copy}
       /\ UNCHANGED queue

\* Something goes wrong: the environment may do this MaxFaults times.
Fault ==
    /\ faults < MaxFaults
    /\ faults' = faults + 1
=============================================================================
