--------------------------- MODULE InboxConsumer ---------------------------
(***************************************************************************)
(* The consuming side: worker processes of one logical consumer take       *)
(* deliveries from a quorum queue (AMQPConsumer.Consume, prefetch 1) and    *)
(* run a handler under the inbox fence (messaging.HandleExactlyOnce with    *)
(* ClaimInbox, CompleteInbox and ReleaseInbox of internal/store/workflow.go).*)
(*                                                                         *)
(* claim_token is a fresh UUID for every successful claim; `attempt' grows *)
(* with every successful claim of the row, so the attempt number stands    *)
(* for the token.  The 10-minute lease is live or has lapsed.  The handler  *)
(* is any of the consumers' handlers: it has its business effect or fails. *)
(***************************************************************************)
EXTENDS Broker

CONSTANTS
    Workers,    \* worker processes sharing the consumer name
    NoDelivery  \* a worker that holds no delivery

VARIABLES
    inbox,   \* rows of inbox_messages for this consumer
    worker,  \* what each worker process is doing
    effects  \* history: how often the handler's effect for m has landed

inboxVars == <<inbox, worker, effects>>
vars == <<inbox, worker, effects, queue, dead, accepted, faults>>

Rows == [state : {"absent", "claimed", "released", "completed"},
         leased : BOOLEAN,  \* locked_until is set and in the future
         attempt : Nat]     \* also the identity of claim_token

WorkerStates ==
    [pc : {"idle", "received", "handling", "completing", "releasing",
           "acking", "nacking"},
     delivery : Deliveries \cup {NoDelivery},
     token : Nat]

Idle == [pc |-> "idle", delivery |-> NoDelivery, token |-> 0]

TypeOK ==
    /\ BrokerTypeOK
    /\ inbox \in [Messages -> Rows]
    /\ worker \in [Workers -> WorkerStates]
    /\ effects \in [Messages -> Nat]
    /\ \A w \in Workers :
          worker[w].pc # "idle" => worker[w].delivery \in Deliveries

Init ==
    /\ BrokerInit
    /\ inbox = [m \in Messages |->
                    [state |-> "absent", leased |-> FALSE, attempt |-> 0]]
    /\ worker = [w \in Workers |-> Idle]
    /\ effects = [m \in Messages |-> 0]

Msg(w) == MessageOf(worker[w].delivery)

\* Mutant: the lease of another worker is ignored.
TakeableLeased(m) == inbox[m].state \in {"absent", "released", "claimed"}

\* The conflict clause of ClaimInbox: a row may be taken when it is new,
\* released, or claimed under a lease that has lapsed.
Takeable(m) ==
    \/ inbox[m].state \in {"absent", "released"}
    \/ inbox[m].state = "claimed" /\ ~inbox[m].leased

\* Mutant: claim_token is not compared.
OwnsAnyClaim(w) == inbox[Msg(w)].state = "claimed"

\* The WHERE clause shared by CompleteInbox and ReleaseInbox.
OwnsClaim(w) ==
    /\ inbox[Msg(w)].state = "claimed"
    /\ inbox[Msg(w)].attempt = worker[w].token

\* A process that still works under the latest claim of m.
LiveClaim(m) ==
    \E w \in Workers : /\ worker[w].pc \in {"handling", "completing", "releasing"}
                       /\ Msg(w) = m
                       /\ worker[w].token = inbox[m].attempt

-----------------------------------------------------------------------------
\* Environment: a relay hands a copy of m to the broker.  The outbox never
\* claims a row more than once plus once per fault, which bounds the copies.
Arrive(m) ==
    /\ \E n \in 1..(1 + MaxFaults) : /\ <<m, n>> \notin accepted
                                     /\ Accept(<<m, n>>)
    /\ UNCHANGED <<inbox, worker, effects, dead, faults>>

\* Environment: something fails on the producing side.
FaultElsewhere ==
    /\ Fault
    /\ UNCHANGED <<inbox, worker, effects, queue, dead, accepted>>

Receive(w, delivery) ==
    /\ worker[w].pc = "idle"
    /\ delivery \in queue
    /\ queue' = queue \ {delivery}
    /\ worker' = [worker EXCEPT ![w] = [pc |-> "received", delivery |-> delivery,
                                        token |-> 0]]
    /\ UNCHANGED <<inbox, effects, dead, accepted, faults>>

ClaimInbox(w) ==
    /\ worker[w].pc = "received"
    /\ Takeable(Msg(w))
    /\ inbox' = [inbox EXCEPT ![Msg(w)] =
                    [state |-> "claimed", leased |-> TRUE, attempt |-> @.attempt + 1]]
    /\ worker' = [worker EXCEPT ![w].pc = "handling",
                                ![w].token = inbox[Msg(w)].attempt + 1]
    /\ UNCHANGED <<effects, queue, dead, accepted, faults>>

\* ClaimInbox returns (nil, false, nil): HandleExactlyOnce returns nil and
\* the transport acknowledges the delivery, whether the row is completed or
\* merely claimed by somebody else.
ClaimRefused(w) ==
    /\ worker[w].pc = "received"
    /\ ~Takeable(Msg(w))
    /\ worker' = [worker EXCEPT ![w].pc = "acking"]
    /\ UNCHANGED <<inbox, effects, queue, dead, accepted, faults>>

HandlerSucceeds(w) ==
    /\ worker[w].pc = "handling"
    /\ effects' = [effects EXCEPT ![Msg(w)] = @ + 1]
    /\ worker' = [worker EXCEPT ![w].pc = "completing"]
    /\ UNCHANGED <<inbox, queue, dead, accepted, faults>>

\* Mutant: the handler's error is dropped.
HandlerErrorIgnored(w) ==
    /\ worker[w].pc = "handling"
    /\ Fault
    /\ worker' = [worker EXCEPT ![w].pc = "completing"]
    /\ UNCHANGED <<inbox, effects, queue, dead, accepted>>

\* The handler returns an error; its remote write may have landed anyway.
HandlerFails(w) ==
    /\ worker[w].pc = "handling"
    /\ Fault
    /\ \E landed \in {0, 1} : effects' = [effects EXCEPT ![Msg(w)] = @ + landed]
    /\ worker' = [worker EXCEPT ![w].pc = "releasing"]
    /\ UNCHANGED <<inbox, queue, dead, accepted>>

CompleteInbox(w) ==
    /\ worker[w].pc = "completing"
    /\ OwnsClaim(w)
    /\ inbox' = [inbox EXCEPT ![Msg(w)].state = "completed",
                              ![Msg(w)].leased = FALSE]
    /\ worker' = [worker EXCEPT ![w].pc = "acking"]
    /\ UNCHANGED <<effects, queue, dead, accepted, faults>>

\* Mutant: a released delivery is acknowledged.
ReleaseThenAck(w) ==
    /\ worker[w].pc = "releasing"
    /\ OwnsClaim(w)
    /\ inbox' = [inbox EXCEPT ![Msg(w)].state = "released",
                              ![Msg(w)].leased = FALSE]
    /\ worker' = [worker EXCEPT ![w].pc = "acking"]
    /\ UNCHANGED <<effects, queue, dead, accepted, faults>>

ReleaseInbox(w) ==
    /\ worker[w].pc = "releasing"
    /\ OwnsClaim(w)
    /\ inbox' = [inbox EXCEPT ![Msg(w)].state = "released",
                              ![Msg(w)].leased = FALSE]
    /\ worker' = [worker EXCEPT ![w].pc = "nacking"]
    /\ UNCHANGED <<effects, queue, dead, accepted, faults>>

\* ErrInboxClaimLost: the error reaches Consume, which nacks.
InboxClaimLost(w) ==
    /\ worker[w].pc \in {"completing", "releasing"}
    /\ ~OwnsClaim(w)
    /\ worker' = [worker EXCEPT ![w].pc = "nacking"]
    /\ UNCHANGED <<inbox, effects, queue, dead, accepted, faults>>

\* The claim, completion or release cannot reach PostgreSQL (an outage, or
\* a context that shutdown has cancelled): an error, so Consume nacks.
StoreUnavailable(w) ==
    /\ worker[w].pc \in {"received", "completing", "releasing"}
    /\ Fault
    /\ worker' = [worker EXCEPT ![w].pc = "nacking"]
    /\ UNCHANGED <<inbox, effects, queue, dead, accepted>>

Ack(w) ==
    /\ worker[w].pc = "acking"
    /\ worker' = [worker EXCEPT ![w] = Idle]
    /\ UNCHANGED <<inbox, effects, queue, dead, accepted, faults>>

Nack(w) ==
    /\ worker[w].pc = "nacking"
    /\ Return(worker[w].delivery)
    /\ worker' = [worker EXCEPT ![w] = Idle]
    /\ UNCHANGED <<inbox, effects, accepted, faults>>

\* The process dies, or its connection breaks before the ack or nack
\* arrives: the broker requeues the delivery, the inbox row stays as it is.
WorkerCrashes(w) ==
    /\ worker[w].pc # "idle"
    /\ Fault
    /\ Return(worker[w].delivery)
    /\ worker' = [worker EXCEPT ![w] = Idle]
    /\ UNCHANGED <<inbox, effects, accepted>>

\* locked_until passes after the holder of the claim is gone.
InboxLeaseLapses(m) ==
    /\ inbox[m].leased
    /\ ~LiveClaim(m)
    /\ inbox' = [inbox EXCEPT ![m].leased = FALSE]
    /\ UNCHANGED <<worker, effects, queue, dead, accepted, faults>>

\* locked_until passes while the handler is still running.
InboxLeaseOverruns(m) ==
    /\ inbox[m].leased
    /\ LiveClaim(m)
    /\ Fault
    /\ inbox' = [inbox EXCEPT ![m].leased = FALSE]
    /\ UNCHANGED <<worker, effects, queue, dead, accepted>>

\* The steps of Consume and HandleExactlyOnce after a delivery was received.
HandleExactlyOnce(w) ==
    \/ ClaimInbox(w)
    \/ ClaimRefused(w)
    \/ HandlerSucceeds(w)
    \/ CompleteInbox(w)
    \/ ReleaseInbox(w)
    \/ InboxClaimLost(w)
    \/ Ack(w)
    \/ Nack(w)

ConsumerNext ==
    \/ \E w \in Workers :
          \/ \E delivery \in queue : Receive(w, delivery)
          \/ HandleExactlyOnce(w)
          \/ HandlerFails(w)
          \/ StoreUnavailable(w)
          \/ WorkerCrashes(w)
    \/ \E m \in Messages : InboxLeaseLapses(m) \/ InboxLeaseOverruns(m)

Next ==
    \/ \E m \in Messages : Arrive(m)
    \/ FaultElsewhere
    \/ ConsumerNext

\* Workers run on and some worker takes what is ready.  Leases lapse, but
\* nothing depends on it: a lapsed claim is only noticed by a new delivery.
ConsumerFairness ==
    /\ \A w \in Workers : WF_vars(HandleExactlyOnce(w))
    /\ WF_vars(\E w \in Workers, delivery \in queue : Receive(w, delivery))

SafeSpec == Init /\ [][Next]_vars
Spec == SafeSpec /\ ConsumerFairness

-----------------------------------------------------------------------------
(* Properties.                                                             *)

Arrived(m) == \E copy \in accepted : copy[1] = m

\* A copy of m that has not been acknowledged and is not about to be.
LiveCopy(m) ==
    \/ \E delivery \in queue : MessageOf(delivery) = m
    \/ \E copy \in dead : copy[1] = m
    \/ \E w \in Workers : worker[w].pc \notin {"idle", "acking"} /\ Msg(w) = m

\* A completed inbox receipt means that the handler's effect has landed:
\* HandleExactlyOnce completes the row only after the handler returned nil.
CompletedHadEffect ==
    \A m \in Messages : inbox[m].state = "completed" => effects[m] >= 1

\* The claim token fences workers from each other: whatever leases lapse, at
\* most one worker at a time can complete or release the row of a message.
OneWorkerOwnsClaim ==
    \A v, w \in Workers :
        (/\ worker[v].pc \in {"handling", "completing", "releasing"}
         /\ worker[w].pc \in {"handling", "completing", "releasing"}
         /\ Msg(v) = Msg(w) /\ OwnsClaim(v) /\ OwnsClaim(w)) => v = w

\* Repeated effects are paid for by faults: duplicates of a message alone,
\* however they are delivered, never run the handler's effect twice.
RepeatedEffectsNeedFaults ==
    \A m \in Messages : effects[m] =< 1 + faults

\* Completed is final: no release, reclaim or late worker reopens the row.
CompletedIsFinal ==
    [][\A m \in Messages :
          inbox[m].state = "completed" => inbox'[m] = inbox[m]]_vars

\* Work handed to the broker never disappears without a trace: it has been
\* completed, a copy is queued, held or dead-lettered, or its inbox row is
\* still marked claimed.
UnfinishedWorkIsVisible ==
    \A m \in Messages : Arrived(m) =>
        inbox[m].state \in {"completed", "claimed"} \/ LiveCopy(m)

\* Every accepted message is eventually settled: completed, dead-lettered,
\* or left behind as a claim that nobody will look at again.
Abandoned(m) == inbox[m].state = "claimed" /\ ~LiveCopy(m)
EventuallySettled ==
    \A m \in Messages : Arrived(m) ~>
        \/ inbox[m].state = "completed"
        \/ \E copy \in dead : copy[1] = m
        \/ Abandoned(m)

\* "at-least-once messaging": until a message is completed, a copy of it is
\* queued, held by a worker or dead-lettered.  HandleExactlyOnce acks a
\* delivery that meets another worker's live claim, so this does not hold.
AtLeastOnce ==
    \A m \in Messages : Arrived(m) =>
        inbox[m].state = "completed" \/ LiveCopy(m)
=============================================================================
