---------------------------- MODULE ReviewStore ----------------------------
(***************************************************************************)
(* The durable state of review execution and the transactions on it        *)
(* (internal/store/workflow.go, postgres.go, usage.go and                  *)
(* review_interventions.go).  Every action is one PostgreSQL transaction:  *)
(* the row, tenant and advisory locks the code takes, and the partial      *)
(* unique index on active runs, make each of them atomic.                  *)
(*                                                                         *)
(* One tenant with active, verified installations; one billing period; one *)
(* job per run, so both carry the same number.  A job's lease is live or   *)
(* has lapsed, its available_at has been reached (due) or not.             *)
(***************************************************************************)
EXTENDS RunStates, FiniteSets

CONSTANTS
    Requests,      \* provider reviews (pull or merge requests)
    MaxRuns,       \* bound: runs (and jobs) that can be created
    MaxDeliveries, \* bound: webhook deliveries
    HardLimit,     \* monthly_review_limit; 0 is unlimited
    MaxConcurrent, \* max_concurrent_runs of the tenant, 2 by default
    MaxAttempts,   \* claims after which a failure is final, 5 in the code
    Owners,        \* the identities runners claim jobs with
    None           \* no owner, no request

ASSUME StoreAssumption ==
    /\ MaxRuns \in Nat /\ MaxDeliveries \in Nat
    /\ HardLimit \in Nat /\ MaxConcurrent \in Nat /\ MaxAttempts \in Nat
    /\ None \notin Owners /\ None \notin Requests

VARIABLES
    runs,         \* review_runs
    jobs,         \* review_jobs
    usage,        \* usage_reservations
    stages,       \* review_run_stages
    intervention, \* review_run_interventions
    outbox,       \* outbox_messages, by their dedupe key run:revision:state
    current,      \* review_requests.current_run_id, 0 when there is none
    deliveries    \* webhook_deliveries recorded so far

storeVars == <<runs, jobs, usage, stages, intervention, outbox, current,
               deliveries>>

RunIds == 1..MaxRuns

NoRun == [req |-> None, head |-> 0, trigger |-> "none", state |-> "absent",
          revision |-> 0]
NoJob == [state |-> "absent", owner |-> None, leased |-> FALSE, due |-> TRUE,
          attempts |-> 0]
NewJob == [NoJob EXCEPT !.state = "queued"]
Pending == [i \in Stages |-> "pending"]

StoreTypeOK ==
    /\ runs \in [RunIds -> [req : Requests \cup {None}, head : Nat,
                            trigger : {"none", "pull_request", "retry"},
                            state : RunStates \cup {"absent"}, revision : Nat]]
    /\ jobs \in [RunIds -> [state : {"absent", "queued", "running", "succeeded",
                                     "failed", "cancelled"},
                            owner : Owners \cup {None}, leased : BOOLEAN,
                            due : BOOLEAN, attempts : Nat]]
    /\ usage \in [RunIds -> {"none", "reserved", "settled", "released"}]
    /\ stages \in [RunIds -> [Stages -> StageStates]]
    /\ intervention \in [RunIds -> {"none", "open", "claimed", "resolved"}]
    /\ outbox \subseteq (RunIds \X Nat \X RunStates)
    /\ current \in [Requests -> RunIds \cup {0}]
    /\ deliveries \in 0..MaxDeliveries

StoreInit ==
    /\ runs = [r \in RunIds |-> NoRun]
    /\ jobs = [r \in RunIds |-> NoJob]
    /\ usage = [r \in RunIds |-> "none"]
    /\ stages = [r \in RunIds |-> Pending]
    /\ intervention = [r \in RunIds |-> "none"]
    /\ outbox = {}
    /\ current = [q \in Requests |-> 0]
    /\ deliveries = 0

Active(r) == runs[r].state \in ActiveStates
ActiveRuns(q) == {r \in RunIds : Active(r) /\ runs[r].req = q}

-----------------------------------------------------------------------------
(* Usage (reserveReviewUsage, finalizeReviewUsage).                        *)

Committed == Cardinality({r \in RunIds : usage[r] \in {"reserved", "settled"}})

\* Mutant: the limit is compared one run too late.
QuotaExceededLate == HardLimit > 0 /\ Committed > HardLimit

QuotaExceeded == HardLimit > 0 /\ Committed >= HardLimit

\* A reservation is settled by completion and released by any other end; a
\* reservation that is already final, or was never made, stays as it is.
Finalized(reservation, completed) ==
    IF reservation # "reserved" THEN reservation
    ELSE IF completed THEN "settled" ELSE "released"

-----------------------------------------------------------------------------
(* Admission.                                                              *)

\* The rows of a new run n that the quota admits ...
Admitted(n, q, head, trigger) ==
    [run |-> [req |-> q, head |-> head, trigger |-> trigger,
              state |-> "acknowledged", revision |-> 1],
     job |-> NewJob, usage |-> "reserved", stages |-> Pending,
     intervention |-> "none", rows |-> {<<n, 1, "acknowledged">>}]

\* ... and of one that admitRunUsage rejects in the same transaction.
Rejected(n, q, head, trigger) ==
    [run |-> [req |-> q, head |-> head, trigger |-> trigger,
              state |-> "failed", revision |-> 2],
     job |-> [NewJob EXCEPT !.state = "failed"], usage |-> "none",
     stages |-> [i \in Stages |-> "skipped"], intervention |-> "open",
     rows |-> {<<n, 1, "acknowledged">>, <<n, 2, "failed">>}]

\* The quota is read before the reservations of superseded runs are released.
NewRows(n, q, head, trigger) ==
    IF QuotaExceeded THEN Rejected(n, q, head, trigger)
                     ELSE Admitted(n, q, head, trigger)

NextRun(n) == /\ runs[n].state = "absent"
              /\ \A m \in 1..(n - 1) : runs[m].state # "absent"

\* Mutant: superseding does not count as a transition.
SupersedeQuietly(run) == [run EXCEPT !.state = "superseded"]

SupersedeRun(run) == [run EXCEPT !.state = "superseded", !.revision = @ + 1]

\* A webhook whose head already has an active run: its job is cancelled, the
\* runs of other heads are superseded before the coalescing is noticed.
Coalesce(q, head) ==
    /\ deliveries < MaxDeliveries
    /\ \E r \in ActiveRuns(q) : runs[r].head = head
    /\ runs' = [r \in RunIds |->
                   IF r \in ActiveRuns(q) /\ runs[r].head # head
                   THEN SupersedeRun(runs[r]) ELSE runs[r]]
    /\ deliveries' = deliveries + 1
    /\ UNCHANGED <<jobs, usage, stages, intervention, outbox, current>>

\* A webhook that starts a run (Enqueue, createWorkflowRun).  Superseded runs
\* keep their job and their stages.
Enqueue(q, head) ==
    LET stale == ActiveRuns(q) IN
    /\ deliveries < MaxDeliveries
    /\ \A r \in stale : runs[r].head # head
    /\ deliveries' = deliveries + 1
    /\ \E n \in RunIds :
          LET new == NewRows(n, q, head, "pull_request") IN
          /\ NextRun(n)
          /\ runs' = [r \in RunIds |-> IF r = n THEN new.run
                                       ELSE IF r \in stale THEN SupersedeRun(runs[r])
                                       ELSE runs[r]]
          /\ jobs' = [jobs EXCEPT ![n] = new.job]
          /\ usage' = [r \in RunIds |-> IF r = n THEN new.usage
                                        ELSE IF r \in stale THEN Finalized(usage[r], FALSE)
                                        ELSE usage[r]]
          /\ stages' = [stages EXCEPT ![n] = new.stages]
          /\ intervention' = [intervention EXCEPT ![n] = new.intervention]
          /\ outbox' = outbox \cup new.rows \cup
                {<<r, runs[r].revision + 1, "superseded">> : r \in stale}
          /\ current' = [current EXCEPT ![q] = n]

\* Mutant: a retry does not look for an active run.
RetryAlways(source) ==
    /\ runs[source].state \in {"failed", "needs_attention"}
    /\ \E n \in RunIds :
          LET new == NewRows(n, runs[source].req, runs[source].head, "retry") IN
          /\ NextRun(n)
          /\ runs' = [runs EXCEPT ![n] = new.run]
          /\ jobs' = [jobs EXCEPT ![n] = new.job]
          /\ usage' = [usage EXCEPT ![n] = new.usage]
          /\ outbox' = outbox \cup new.rows
          /\ current' = [current EXCEPT ![runs[source].req] = n]
    /\ UNCHANGED <<stages, intervention, deliveries>>

\* A user retries a failed run at the same head.  The check for an active run
\* and the unique index agree when the transaction commits.
RequestRunRetry(source) ==
    /\ runs[source].state \in {"failed", "needs_attention"}
    /\ ActiveRuns(runs[source].req) = {}
    /\ \E n \in RunIds :
          LET new == NewRows(n, runs[source].req, runs[source].head, "retry") IN
          /\ NextRun(n)
          /\ runs' = [runs EXCEPT ![n] = new.run]
          /\ jobs' = [jobs EXCEPT ![n] = new.job]
          /\ usage' = [usage EXCEPT ![n] = new.usage]
          /\ stages' = [stages EXCEPT ![n] = new.stages]
          /\ intervention' =
                [intervention EXCEPT
                    ![n] = new.intervention,
                    ![source] = IF @ \in {"open", "claimed"} THEN "resolved" ELSE @]
          /\ outbox' = outbox \cup new.rows
          /\ current' = [current EXCEPT ![runs[source].req] = n]
    /\ UNCHANGED deliveries

-----------------------------------------------------------------------------
(* Transitions of a run.                                                   *)

\* Mutant: cancellation forgets the reservation.
CancelKeepsReservation(r) ==
    /\ Active(r)
    /\ runs' = [runs EXCEPT ![r].state = "cancelled", ![r].revision = @ + 1]
    /\ jobs' = [jobs EXCEPT ![r].state = "cancelled", ![r].owner = None,
                            ![r].leased = FALSE]
    /\ outbox' = outbox \cup {<<r, runs[r].revision + 1, "cancelled">>}
    /\ UNCHANGED <<usage, stages, intervention, current, deliveries>>

\* cancelRun: the run and its job end in one transaction.  A request with a
\* stale revision, or for a run that has ended, is refused without effect.
RequestRunCancellation(r) ==
    /\ Active(r)
    /\ runs' = [runs EXCEPT ![r].state = "cancelled", ![r].revision = @ + 1]
    /\ jobs' = [jobs EXCEPT ![r] =
                   IF @.state \in {"queued", "running"}
                   THEN [@ EXCEPT !.state = "cancelled", !.owner = None, !.leased = FALSE]
                   ELSE @]
    /\ usage' = [usage EXCEPT ![r] = Finalized(@, FALSE)]
    /\ outbox' = outbox \cup {<<r, runs[r].revision + 1, "cancelled">>}
    /\ UNCHANGED <<stages, intervention, current, deliveries>>

\* The calls AdvanceLegacyRun answers without changing anything: the state is
\* already there, the run has ended, or a retried job replays an early stage.
NoTransition(state, next) ==
    \/ state = next
    \/ Terminal(state)
    \/ Rank(state) > Rank(next) /\ ~Terminal(next)

\* The state AdvanceLegacyRun returns.
Advanced(r, next) ==
    IF NoTransition(runs[r].state, next) THEN runs[r].state ELSE next

\* A call that ValidateRunTransition would refuse is not enabled.
AdvanceLegacyRun(r, next) ==
    \/ /\ NoTransition(runs[r].state, next)
       /\ UNCHANGED storeVars
    \/ /\ ~NoTransition(runs[r].state, next)
       /\ CanTransitionTo(runs[r].state, next)
       /\ runs' = [runs EXCEPT ![r].state = next, ![r].revision = @ + 1]
       /\ usage' = [usage EXCEPT ![r] = IF Terminal(next)
                                        THEN Finalized(@, next = "completed") ELSE @]
       /\ stages' = [stages EXCEPT ![r] = StageEvidence(@, runs[r].state, next)]
       /\ intervention' = [intervention EXCEPT ![r] =
                              IF next \in {"failed", "needs_attention"} /\ @ = "none"
                              THEN "open" ELSE @]
       /\ outbox' = IF HasBrokerConsumer(next)
                    THEN outbox \cup {<<r, runs[r].revision + 1, next>>} ELSE outbox
       /\ UNCHANGED <<jobs, current, deliveries>>

\* The transition to this state was committed to the outbox, so that at some
\* later time its message may be delivered, once or more often.
Announced(r, state) == \E row \in outbox : row[1] = r /\ row[3] = state

\* The acknowledger consumes review.run.acknowledged, possibly late or twice.
Acknowledge(r) ==
    /\ Announced(r, "acknowledged")
    /\ runs[r].state = "acknowledged"
    /\ AdvanceLegacyRun(r, "admitted")

ClaimReviewIntervention(r) ==
    /\ intervention[r] = "open"
    /\ intervention' = [intervention EXCEPT ![r] = "claimed"]
    /\ UNCHANGED <<runs, jobs, usage, stages, outbox, current, deliveries>>

ResolveReviewIntervention(r) ==
    /\ intervention[r] \in {"open", "claimed"}
    /\ intervention' = [intervention EXCEPT ![r] = "resolved"]
    /\ UNCHANGED <<runs, jobs, usage, stages, outbox, current, deliveries>>

-----------------------------------------------------------------------------
(* Job claims.                                                             *)

\* Mutant: the claims of dead runners count as well.
AllLeases == {r \in RunIds : /\ jobs[r].state = "running"
                             /\ runs[r].state \in ExecutingStates}

\* The tenant's active count: live leases of runs that are executing.
Leases == {r \in RunIds : /\ jobs[r].state = "running" /\ jobs[r].leased
                          /\ runs[r].state \in ExecutingStates}

HasCapacity == Cardinality(Leases) < MaxConcurrent

Claimable(r) ==
    \/ jobs[r].state = "queued" /\ jobs[r].due
    \/ jobs[r].state = "running" /\ ~jobs[r].leased

Lease(r, owner) ==
    /\ jobs' = [jobs EXCEPT ![r].state = "running", ![r].owner = owner,
                            ![r].leased = TRUE, ![r].attempts = @ + 1]
    /\ UNCHANGED <<runs, usage, stages, intervention, outbox, current, deliveries>>

\* The recovery poller.  Which eligible job it gets depends on review mode,
\* age and locks held by others: any of them.
Claim(r, owner) ==
    /\ \/ runs[r].state \in ExecutingStates
       \/ runs[r].state = "acknowledged" /\ runs[r].trigger = "pull_request"
    /\ Claimable(r)
    /\ HasCapacity
    /\ Lease(r, owner)

\* A delivery of review.run.admitted names the run; it may be late or repeated.
ClaimForRun(r, owner) ==
    /\ Announced(r, "admitted")
    /\ runs[r].state \in ExecutingStates
    /\ Claimable(r)
    /\ HasCapacity
    /\ Lease(r, owner)

\* The same delivery when the tenant is at capacity.
DeferRun(r) ==
    /\ Announced(r, "admitted")
    /\ runs[r].state \in ExecutingStates
    /\ Claimable(r)
    /\ ~HasCapacity
    /\ jobs' = [jobs EXCEPT ![r].state = "queued", ![r].owner = None,
                            ![r].leased = FALSE, ![r].due = FALSE]
    /\ UNCHANGED <<runs, usage, stages, intervention, outbox, current, deliveries>>

\* The WHERE clause of RenewClaim, Succeed, Fail, FailTerminal and Cancel.
Owns(r, owner) == jobs[r].state = "running" /\ jobs[r].owner = owner

RenewClaim(r, owner) ==
    /\ Owns(r, owner)
    /\ jobs' = [jobs EXCEPT ![r].leased = TRUE]
    /\ UNCHANGED <<runs, usage, stages, intervention, outbox, current, deliveries>>

\* finish: Succeed, FailTerminal and Cancel.  A lost claim changes nothing.
FinishJob(r, owner, state) ==
    /\ jobs' = [jobs EXCEPT ![r] =
                   IF Owns(r, owner)
                   THEN [@ EXCEPT !.state = state, !.leased = FALSE] ELSE @]
    /\ UNCHANGED <<runs, usage, stages, intervention, outbox, current, deliveries>>

\* Fail and FailWithRetryAfter: requeue with a backoff, or give up.
Fail(r, owner) ==
    /\ jobs' = [jobs EXCEPT ![r] =
                   IF ~Owns(r, owner) THEN @
                   ELSE IF @.attempts >= MaxAttempts
                   THEN [@ EXCEPT !.state = "failed", !.owner = None, !.leased = FALSE]
                   ELSE [@ EXCEPT !.state = "queued", !.owner = None, !.leased = FALSE,
                                  !.due = FALSE]]
    /\ UNCHANGED <<runs, usage, stages, intervention, outbox, current, deliveries>>

\* available_at is reached.
BackoffElapses(r) ==
    /\ ~jobs[r].due
    /\ jobs' = [jobs EXCEPT ![r].due = TRUE]
    /\ UNCHANGED <<runs, usage, stages, intervention, outbox, current, deliveries>>

\* locked_until passes.
LeaseEnds(r) ==
    /\ jobs[r].leased
    /\ jobs' = [jobs EXCEPT ![r].leased = FALSE]
    /\ UNCHANGED <<runs, usage, stages, intervention, outbox, current, deliveries>>
=============================================================================
