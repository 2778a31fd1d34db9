----------------------------- MODULE AgentStore -----------------------------
(***************************************************************************)
(* One agent task in the database: the rows agent_tasks, agent_task_plans, *)
(* agent_task_attempts and the outbox rows of internal/store/              *)
(* agent_tasks.go.  Every operation is one transaction.                    *)
(*                                                                         *)
(* A row of the outbox may be delivered any number of times, so mail only  *)
(* grows.  Roles, separation of duties and the text of plans are left out: *)
(* an approval below is one by an entitled person.  An attempt row belongs *)
(* to the revision at which its plan was approved; a plan is approved at   *)
(* most once, so the plan names the row.  Of time, only whether the lease  *)
(* of an attempt is live is kept.                                          *)
(***************************************************************************)
EXTENDS Integers, Sequences, FiniteSets, FiniteSetsExt

CONSTANTS
    Runners,          \* ids of agent-task-runner processes
    MaxPlans,         \* bound: plans of the task
    MaxAttempts,      \* max_attempts of the policy: claims of one attempt row
    MaxTaskAttempts,  \* workflow.max_task_attempts: claims of the branch
    MaxSourceRetries  \* bound: retries of a failed source capture

ASSUME AgentAssumption ==
    /\ MaxPlans \in Nat /\ MaxAttempts \in Nat \ {0}
    /\ MaxTaskAttempts \in Nat \ {0} /\ MaxSourceRetries \in Nat

VARIABLES
    task,     \* state, revision, source state, decision, source retries
    plans,    \* the plans' states, by revision
    attempts, \* the attempt row of each plan
    mail,     \* outbox rows written so far
    visible   \* the provider shows the acknowledgement

storeVars == <<task, plans, attempts, mail, visible>>

PlanIds == 1..MaxPlans
TaskStates == {"received", "awaiting_approval", "execution_queued", "executing",
               "completed", "needs_attention", "cancelled", "rejected"}
PlanStates == {"awaiting_approval", "approved", "superseded"}
AttemptStates == {"none", "running", "succeeded", "needs_attention", "superseded"}
Decisions == {"unknown", "requires_human", "needs_context", "rejected"}

Message(kind, rev, plan, job) == [kind |-> kind, rev |-> rev, plan |-> plan, job |-> job]
NoAttempt == [state |-> "none", n |-> 0, worker |-> "none", live |-> FALSE,
              job |-> 0, started |-> FALSE, checkpoint |-> 0]

StoreTypeOK ==
    /\ task \in [state : TaskStates, rev : Nat \ {0}, source : {"pending", "ready", "failed"},
                 decision : Decisions, retries : 0..MaxSourceRetries]
    /\ plans \in Seq(PlanStates) /\ Len(plans) <= MaxPlans
    /\ attempts \in [PlanIds -> [state : AttemptStates, n : 0..MaxAttempts,
                                 worker : Runners \cup {"none"}, live : BOOLEAN,
                                 job : 0..MaxAttempts,
                                 started : BOOLEAN, checkpoint : 0..MaxAttempts]]
    /\ mail \subseteq [kind : {"ack", "source", "source_retry", "execute", "cancel"},
                       rev : Nat, plan : 0..MaxPlans, job : 0..MaxAttempts]
    /\ visible \in BOOLEAN

\* A task asked for in the console releases its source at once; one asked for
\* on the provider waits for the acknowledgement to be visible there.
StoreInit ==
    /\ task = [state |-> "received", rev |-> 1, source |-> "pending",
               decision |-> "unknown", retries |-> 0]
    /\ plans = <<>>
    /\ attempts = [p \in PlanIds |-> NoAttempt]
    /\ \E kind \in {"ack", "source"} : mail = {Message(kind, 1, 0, 0)}
    /\ visible = FALSE

Moved(state) == [task EXCEPT !.state = state, !.rev = @ + 1]
Latest == Len(plans)
AwaitsSource == task.state = "received" /\ task.source = "pending"
SourceReleased == \E m \in mail : m.kind = "source"
ResolveQueued == \E m \in mail : m.kind \in {"source", "source_retry"}

\* SUM(attempt) over the attempts of the branch.
Used == MapThenSumSet(LAMBDA p : attempts[p].n, PlanIds)
BudgetLeft == Used < MaxTaskAttempts

\* state = 'running' and the lease, which never outlives the deadline, is live.
Held(p) == attempts[p].state = "running" /\ attempts[p].live

\* The row of an attempt that no longer runs.
Ended(row, state) == [row EXCEPT !.state = state, !.live = FALSE]

-----------------------------------------------------------------------------
(* Acknowledgement and source.                                             *)

\* Mutant: the source is released before the provider confirmed the comment.
ReleaseEarly(m, confirmed) ==
    /\ m.kind = "ack" /\ m.rev = task.rev /\ AwaitsSource
    /\ visible' = (visible \/ confirmed)
    /\ mail' = mail \cup (IF SourceReleased THEN {} ELSE {Message("source", task.rev, 0, 0)})
    /\ UNCHANGED <<task, plans, attempts>>

\* The provider write happens inside the fence; the transaction may still be
\* lost after it.
WithAgentTaskAcknowledgementFence(m, confirmed) ==
    /\ m.kind = "ack" /\ m.rev = task.rev /\ AwaitsSource
    /\ visible' = TRUE
    /\ mail' = IF confirmed /\ ~SourceReleased
               THEN mail \cup {Message("source", task.rev, 0, 0)} ELSE mail
    /\ UNCHANGED <<task, plans, attempts>>

ExpireUnacknowledgedAgentTasks ==
    /\ AwaitsSource /\ ~ResolveQueued
    /\ task' = [Moved("needs_attention") EXCEPT !.source = "failed"]
    /\ UNCHANGED <<plans, attempts, mail, visible>>

\* Only the first release proves that the acknowledgement was shown.
RetryAgentTaskSource ==
    /\ task.source = "failed" /\ task.state = "needs_attention"
    /\ plans = <<>> /\ task.retries < MaxSourceRetries
    /\ task' = [Moved("received") EXCEPT !.source = "pending", !.retries = @ + 1]
    /\ mail' = mail \cup {Message(IF SourceReleased THEN "source_retry" ELSE "ack",
                                  task.rev + 1, 0, 0)}
    /\ UNCHANGED <<plans, attempts, visible>>

\* The classification of the captured source and, with a complete workflow,
\* the generated first plan.
RecordAgentTaskSourceSnapshot(decision, generated) ==
    LET ready == [Moved(task.state) EXCEPT !.source = "ready", !.decision = decision] IN
    /\ AwaitsSource /\ ResolveQueued
    /\ generated => decision = "requires_human" /\ MaxPlans > 0
    /\ task' = CASE decision = "rejected" -> [ready EXCEPT !.state = "rejected", !.rev = @ + 1]
                 [] generated -> [ready EXCEPT !.state = "awaiting_approval", !.rev = @ + 1]
                 [] OTHER -> ready
    /\ plans' = IF generated THEN <<"awaiting_approval">> ELSE plans
    /\ UNCHANGED <<attempts, mail, visible>>

FailAgentTaskSourceSnapshot ==
    /\ AwaitsSource /\ ResolveQueued
    /\ task' = [Moved("needs_attention") EXCEPT !.source = "failed"]
    /\ UNCHANGED <<plans, attempts, mail, visible>>

-----------------------------------------------------------------------------
(* Plans and cancellation.                                                 *)

Superseded(s) == [i \in DOMAIN s |-> IF s[i] = "awaiting_approval" THEN "superseded" ELSE s[i]]

CreateAgentTaskPlan ==
    /\ task.state \in {"received", "awaiting_approval", "needs_attention"}
    /\ task.source = "ready" /\ task.decision = "requires_human"
    /\ BudgetLeft /\ Latest < MaxPlans
    /\ plans' = Append(Superseded(plans), "awaiting_approval")
    /\ task' = Moved("awaiting_approval")
    /\ UNCHANGED <<attempts, mail, visible>>

ApproveAgentTaskPlan(p) ==
    /\ task.state = "awaiting_approval" /\ task.decision = "requires_human"
    /\ BudgetLeft
    /\ p = Latest /\ plans[p] = "awaiting_approval"
    /\ plans' = [Superseded(plans) EXCEPT ![p] = "approved"]
    /\ task' = Moved("execution_queued")
    /\ mail' = mail \cup {Message("execute", task.rev + 1, p, 0)}
    /\ UNCHANGED <<attempts, visible>>

agentTaskStateCancellable(state) ==
    state \in {"received", "awaiting_approval", "execution_queued", "executing", "needs_attention"}

\* Mutant: the leases of the task survive its cancellation.
CancelKeepsLeases ==
    /\ agentTaskStateCancellable(task.state)
    /\ task' = Moved("cancelled")
    /\ UNCHANGED <<plans, attempts, mail, visible>>

CancelAgentTask ==
    /\ agentTaskStateCancellable(task.state)
    /\ task' = Moved("cancelled")
    /\ attempts' = [p \in PlanIds |-> IF attempts[p].state = "running"
                       THEN Ended(attempts[p], "superseded")
                       ELSE attempts[p]]
    /\ mail' = mail \cup {Message("cancel", 0, p, attempts[p].job) :
                            p \in {q \in PlanIds : attempts[q].state = "running"
                                                   /\ attempts[q].job # 0}}
    /\ UNCHANGED <<plans, visible>>

-----------------------------------------------------------------------------
(* Attempts.                                                               *)

\* Mutant: an old delivery is taken for the one the task waits for.
QueuedStale(m) == m.kind = "execute"

\* The request still is the one the task waits for.
Queued(m) == m.kind = "execute" /\ task.state = "execution_queued" /\ task.rev = m.rev
Reclaiming(m) == m.kind = "execute" /\ task.state = "executing" /\ task.rev = m.rev + 1

HoldAgentTaskExecutionForReadiness(m) ==
    /\ Queued(m) /\ plans[m.plan] = "approved" /\ attempts[m.plan].state = "none"
    /\ task' = Moved("needs_attention")
    /\ UNCHANGED <<plans, attempts, mail, visible>>

canReclaimAgentAttempt(p) ==
    /\ attempts[p].state = "running" /\ ~attempts[p].live
    /\ attempts[p].n < MaxAttempts /\ attempts[p].job = 0

\* The approved latest plan, its row new or open to be taken over.
Claimable(m) ==
    /\ Queued(m) \/ Reclaiming(m)
    /\ task.decision = "requires_human" /\ task.source = "ready"
    /\ m.plan = Latest /\ plans[m.plan] = "approved"
    /\ attempts[m.plan].state = "none" \/ canReclaimAgentAttempt(m.plan)

Claimed(row, w) ==
    [row EXCEPT !.state = "running", !.n = @ + 1, !.worker = w, !.live = TRUE,
                !.job = 0, !.started = FALSE]

ClaimAgentTaskAttempt(w, m) ==
    /\ Claimable(m) /\ BudgetLeft
    /\ attempts' = [attempts EXCEPT ![m.plan] = Claimed(@, w)]
    /\ task' = IF Queued(m) THEN Moved("executing") ELSE task
    /\ UNCHANGED <<plans, mail, visible>>

stopAgentWorkflowBudget(m) ==
    /\ Claimable(m) /\ ~BudgetLeft
    /\ task' = Moved("needs_attention")
    /\ attempts' = IF attempts[m.plan].state = "none" THEN attempts
                   ELSE [attempts EXCEPT ![m.plan] = Ended(@, "needs_attention")]
    /\ UNCHANGED <<plans, mail, visible>>

\* A terminal move of the attempt and, while it is executing, of its task.
EndAttempt(p, state, taskState, cancelled) ==
    /\ attempts' = [attempts EXCEPT ![p] = Ended(@, state)]
    /\ task' = IF task.state = "executing" THEN Moved(taskState) ELSE task
    /\ mail' = IF cancelled /\ attempts[p].job # 0
               THEN mail \cup {Message("cancel", 0, p, attempts[p].job)} ELSE mail
    /\ UNCHANGED <<plans, visible>>

OwnsAttempt(w, p) ==
    attempts[p].state = "running" /\ attempts[p].worker = w /\ attempts[p].live

MarkAgentTaskAttemptNeedsAttention(w, p) ==
    /\ OwnsAttempt(w, p)
    /\ EndAttempt(p, "needs_attention", "needs_attention", TRUE)

AttachAgentTaskAdapterJob(w, p, job) ==
    /\ OwnsAttempt(w, p) /\ attempts[p].job = 0
    /\ attempts' = [attempts EXCEPT ![p].job = job]
    /\ UNCHANGED <<task, plans, mail, visible>>

PendingAgentTaskAdapterStart(w, m) ==
    /\ Reclaiming(m) /\ Held(m.plan) /\ attempts[m.plan].worker = w
    /\ attempts[m.plan].job # 0 /\ ~attempts[m.plan].started
    /\ plans[m.plan] = "approved"

\* The one-use gate before a coding agent runs.
StartAllowed(p, job) == Held(p) /\ attempts[p].job = job /\ ~attempts[p].started

ClaimAgentTaskAdapterStart(p, job) ==
    /\ StartAllowed(p, job)
    /\ attempts' = [attempts EXCEPT ![p].started = TRUE]
    /\ UNCHANGED <<task, plans, mail, visible>>

\* What a callback of the adapter may change: the started job of a live lease.
EventAccepted(p, job) == Held(p) /\ attempts[p].started /\ attempts[p].job = job

RecordCheckpoint(p, job) ==
    /\ EventAccepted(p, job)
    /\ attempts' = [attempts EXCEPT ![p].checkpoint = attempts[p].n]
    /\ UNCHANGED <<task, plans, mail, visible>>

RecordTerminal(p, job, kind) ==
    /\ EventAccepted(p, job)
    /\ kind = "completed" => attempts[p].checkpoint = attempts[p].n
    /\ IF kind = "completed" THEN EndAttempt(p, "succeeded", "completed", FALSE)
                             ELSE EndAttempt(p, "needs_attention", "needs_attention", FALSE)

\* Mutant: the watchdog ends the attempt and forgets the job.
ExpireQuietly(p) ==
    /\ attempts[p].state = "running" /\ ~attempts[p].live /\ attempts[p].job # 0
    /\ EndAttempt(p, "needs_attention", "needs_attention", FALSE)

\* Mutant: the watchdog leaves started jobs to their heartbeats.
ExpireUnstarted(p) ==
    /\ attempts[p].state = "running" /\ ~attempts[p].live /\ attempts[p].job # 0
    /\ ~attempts[p].started
    /\ EndAttempt(p, "needs_attention", "needs_attention", TRUE)

\* The scan reads adapter_job_id into a string: a row without a job, whose
\* column is NULL, fails it, and the transaction with it.
ExpireAgentTaskAttempts(p) ==
    /\ attempts[p].state = "running" /\ ~attempts[p].live /\ attempts[p].job # 0
    /\ EndAttempt(p, "needs_attention", "needs_attention", TRUE)

\* locked_until passes: nobody renewed it, or the deadline of the attempt
\* (max_execution_seconds after the claim) capped it.
LeaseLapses(p) ==
    /\ attempts[p].state = "running" /\ attempts[p].live
    /\ attempts' = [attempts EXCEPT ![p].live = FALSE]
    /\ UNCHANGED <<task, plans, mail, visible>>
=============================================================================
