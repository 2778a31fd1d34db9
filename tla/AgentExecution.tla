--------------------------- MODULE AgentExecution ---------------------------
(***************************************************************************)
(* From an approved plan to a draft on the provider: the dispatch of       *)
(* cmd/agent-task-runner, the job service of internal/agentadapter/        *)
(* service.go with its durable receipts, and the publication order of      *)
(* Pipeline.Execute, against the rows of AgentStore.                       *)
(*                                                                         *)
(* The adapter is one process with one job per attempt row.  What survives *)
(* its death is what persistJob wrote: job, status, publication and        *)
(* terminal event.  A commit is named by the plan that produced it; the    *)
(* branch of an issue task may only be created, never moved.               *)
(***************************************************************************)
EXTENDS AgentStore

CONSTANTS
    MaxRunnerCrashes,  \* bound: runner processes that die inside a dispatch
    MaxAdapterCrashes, \* bound: deaths of the adapter
    MaxLost            \* bound: responses lost between the services

ASSUME ExecutionAssumption ==
    MaxRunnerCrashes \in Nat /\ MaxAdapterCrashes \in Nat /\ MaxLost \in Nat

VARIABLES
    runner,   \* what each runner process is doing
    adapter,  \* the adapter's job for each plan's attempt row
    branch,   \* the plan whose commit the branch on the provider shows, or 0
    draft,    \* the plan whose commit the open draft shows, or 0
    launches, \* history: how often a coding agent was launched for a plan
    faults    \* crashes and lost responses so far

remoteVars == <<adapter, branch, draft, launches>>
vars == <<storeVars, runner, remoteVars, faults>>

RunnerPcs == {"idle", "submit", "mark", "attach", "revoke", "start"}
JobPcs == {"off", "gate", "coding", "checkpoint", "confirm", "push", "predraft", "draft"}
Statuses == {"none", "reserved", "starting", "started", "cancelled", "terminal"}

IdleRunner == [pc |-> "idle", plan |-> 0, job |-> 0]
NoJob == [job |-> 0, status |-> "none", spent |-> FALSE, cancelled |-> FALSE, ctx |-> TRUE,
          pc |-> "off", publication |-> FALSE, terminal |-> "none", settled |-> FALSE,
          recovered |-> FALSE]

TypeOK ==
    /\ StoreTypeOK
    /\ runner \in [Runners -> [pc : RunnerPcs, plan : 0..MaxPlans, job : 0..MaxAttempts]]
    /\ adapter \in [PlanIds -> [job : 0..MaxAttempts, status : Statuses, spent : BOOLEAN,
                                cancelled : BOOLEAN, ctx : BOOLEAN, pc : JobPcs,
                                publication : BOOLEAN,
                                terminal : {"none", "completed", "needs_attention"},
                                settled : BOOLEAN, recovered : BOOLEAN]]
    /\ branch \in 0..MaxPlans /\ draft \in 0..MaxPlans
    /\ launches \in [PlanIds -> Nat]
    /\ faults \in [runner : 0..MaxRunnerCrashes, adapter : 0..MaxAdapterCrashes, lost : 0..MaxLost]

Init ==
    /\ StoreInit
    /\ runner = [w \in Runners |-> IdleRunner]
    /\ adapter = [p \in PlanIds |-> NoJob]
    /\ branch = 0 /\ draft = 0
    /\ launches = [p \in PlanIds |-> 0]
    /\ faults = [runner |-> 0, adapter |-> 0, lost |-> 0]

Goto(w, pc) == runner' = [runner EXCEPT ![w].pc = pc]
Leave(w) == runner' = [runner EXCEPT ![w] = IdleRunner]
Job(p, changed) == adapter' = [adapter EXCEPT ![p] = changed]
Loses == faults.lost < MaxLost /\ faults' = [faults EXCEPT !.lost = @ + 1]

-----------------------------------------------------------------------------
(* cmd/agent-task-runner.                                                  *)

\* An attached job whose Start may have been lost is started again before
\* anything new is claimed.
RetryPendingStart(w, m) ==
    /\ runner[w].pc = "idle" /\ PendingAgentTaskAdapterStart(w, m)
    /\ runner' = [runner EXCEPT ![w] = [pc |-> "start", plan |-> m.plan,
                                        job |-> attempts[m.plan].job]]
    /\ UNCHANGED <<storeVars, remoteVars, faults>>

\* The adapter or its model is not ready.
HoldForReadiness(w, m) ==
    /\ runner[w].pc = "idle" /\ HoldAgentTaskExecutionForReadiness(m)
    /\ UNCHANGED <<runner, remoteVars, faults>>

ClaimReady(w, m) ==
    /\ runner[w].pc = "idle" /\ ~PendingAgentTaskAdapterStart(w, m)
    /\ ClaimAgentTaskAttempt(w, m)
    /\ runner' = [runner EXCEPT ![w] = [pc |-> "submit", plan |-> m.plan,
                                        job |-> attempts[m.plan].n + 1]]
    /\ UNCHANGED <<remoteVars, faults>>

ClaimStopsOnBudget(w, m) ==
    /\ runner[w].pc = "idle" /\ stopAgentWorkflowBudget(m)
    /\ UNCHANGED <<runner, remoteVars, faults>>

\* LoadAgentTaskAttemptTarget refuses: the claim is gone.
LoadTargetFails(w) ==
    /\ runner[w].pc = "submit" /\ ~OwnsAttempt(w, runner[w].plan)
    /\ Leave(w)
    /\ UNCHANGED <<storeVars, remoteVars, faults>>

\* Service.submit: one durable reservation per attempt row.  A later claim of
\* the row carries another deadline and is refused.
Submit(w) ==
    LET p == runner[w].plan IN
    /\ runner[w].pc = "submit" /\ OwnsAttempt(w, p)
    /\ IF adapter[p].job \in {0, runner[w].job}
       THEN /\ Goto(w, "attach")
            /\ IF adapter[p].job = 0
               THEN Job(p, [NoJob EXCEPT !.job = runner[w].job, !.status = "reserved"])
               ELSE UNCHANGED adapter
       ELSE Goto(w, "mark") /\ UNCHANGED adapter
    /\ UNCHANGED <<storeVars, branch, draft, launches, faults>>

\* The reservation is made and its response lost.
SubmitLost(w) ==
    LET p == runner[w].plan IN
    /\ runner[w].pc = "submit" /\ OwnsAttempt(w, p) /\ adapter[p].job = 0
    /\ Job(p, [NoJob EXCEPT !.job = runner[w].job, !.status = "reserved"])
    /\ Goto(w, "mark") /\ Loses
    /\ UNCHANGED <<storeVars, branch, draft, launches>>

\* The adapter did not accept the plan; a lost claim is no error.
DispatchFailed(w) ==
    /\ runner[w].pc = "mark"
    /\ \/ MarkAgentTaskAttemptNeedsAttention(w, runner[w].plan)
       \/ ~OwnsAttempt(w, runner[w].plan) /\ UNCHANGED storeVars
    /\ Leave(w)
    /\ UNCHANGED <<remoteVars, faults>>

Attach(w) ==
    LET p == runner[w].plan IN
    /\ runner[w].pc = "attach"
    /\ \/ AttachAgentTaskAdapterJob(w, p, runner[w].job) /\ Goto(w, "start")
       \/ /\ ~(OwnsAttempt(w, p) /\ attempts[p].job = 0)
          /\ Goto(w, "revoke") /\ UNCHANGED storeVars
    /\ UNCHANGED <<remoteVars, faults>>

\* The attachment commits and its response is lost: the runner takes it for
\* a failure.
AttachLost(w) ==
    /\ runner[w].pc = "attach"
    /\ AttachAgentTaskAdapterJob(w, runner[w].plan, runner[w].job)
    /\ Goto(w, "revoke") /\ Loses
    /\ UNCHANGED remoteVars

\* Service.cancel: nothing after a terminal event, else durable.
Cancelled(p) == [adapter[p] EXCEPT !.cancelled = TRUE, !.ctx = FALSE, !.status = "cancelled"]
JobUnlocked(p, job) == adapter[p].job = job /\ adapter[p].pc # "gate"

RevokeReservation(w) ==
    LET p == runner[w].plan IN
    /\ runner[w].pc = "revoke" /\ JobUnlocked(p, runner[w].job)
    /\ Leave(w)
    /\ IF adapter[p].status = "terminal" THEN UNCHANGED adapter ELSE Job(p, Cancelled(p))
    /\ UNCHANGED <<storeVars, branch, draft, launches, faults>>

\* The cancellation consumer of the runner.
CancelJob(m) ==
    /\ m.kind = "cancel" /\ JobUnlocked(m.plan, m.job)
    /\ adapter[m.plan].status \notin {"terminal", "cancelled"}
    /\ Job(m.plan, Cancelled(m.plan))
    /\ UNCHANGED <<storeVars, runner, branch, draft, launches, faults>>

\* Service.start up to the gate, whose answer it awaits under the job's lock.
\* A job whose deadline passed is cancelled instead.
Start(w) ==
    LET p == runner[w].plan IN
    /\ runner[w].pc = "start" /\ JobUnlocked(p, runner[w].job)
    /\ Leave(w)
    /\ \/ /\ adapter[p].cancelled \/ adapter[p].spent
          /\ UNCHANGED adapter
       \/ /\ ~adapter[p].cancelled /\ ~adapter[p].spent
          /\ Job(p, [adapter[p] EXCEPT !.status = "starting", !.pc = "gate"])
       \/ /\ ~adapter[p].cancelled /\ ~adapter[p].spent /\ ~attempts[p].live
          /\ Job(p, Cancelled(p))
    /\ UNCHANGED <<storeVars, branch, draft, launches, faults>>

RunnerCrashes(w) ==
    /\ runner[w].pc # "idle" /\ faults.runner < MaxRunnerCrashes
    /\ Leave(w)
    /\ faults' = [faults EXCEPT !.runner = @ + 1]
    /\ UNCHANGED <<storeVars, remoteVars>>

-----------------------------------------------------------------------------
(* internal/agentadapter: the start gate and the execution.                *)

GateOpens(p) ==
    /\ adapter[p].pc = "gate" /\ ClaimAgentTaskAdapterStart(p, adapter[p].job)
    /\ Job(p, [adapter[p] EXCEPT !.status = "started", !.spent = TRUE, !.pc = "coding"])
    /\ launches' = [launches EXCEPT ![p] = @ + 1]
    /\ UNCHANGED <<runner, branch, draft, faults>>

\* Denied, or granted and the answer lost: never launched, and the receipt
\* stays at "starting".
GateFails(p) ==
    /\ adapter[p].pc = "gate"
    /\ \/ ~StartAllowed(p, adapter[p].job) /\ UNCHANGED <<storeVars, faults>>
       \/ ClaimAgentTaskAdapterStart(p, adapter[p].job) /\ Loses
    /\ Job(p, [adapter[p] EXCEPT !.cancelled = TRUE, !.ctx = FALSE, !.pc = "off"])
    /\ UNCHANGED <<runner, branch, draft, launches>>

Executing(p) == adapter[p].pc \notin {"off", "gate"}
At(p, pc) == adapter[p].pc = pc /\ adapter[p].ctx
Retained(p, kind) == [adapter[p] EXCEPT !.pc = "off", !.status = "terminal", !.terminal = kind]

\* Service.run returns without a word once its context is cancelled.
ExecutionStops(p) ==
    /\ Executing(p) /\ ~adapter[p].ctx
    /\ Job(p, [adapter[p] EXCEPT !.pc = "off"])
    /\ UNCHANGED <<storeVars, runner, branch, draft, launches, faults>>

\* A refused or lost heartbeat cancels the context of the run.
HeartbeatFails(p) ==
    /\ Executing(p) /\ adapter[p].ctx
    /\ \/ ~EventAccepted(p, adapter[p].job) /\ UNCHANGED faults
       \/ EventAccepted(p, adapter[p].job) /\ Loses
    /\ Job(p, [adapter[p] EXCEPT !.ctx = FALSE])
    /\ UNCHANGED <<storeVars, runner, branch, draft, launches>>

\* The read-only reconciliation finds the draft of the retained commit.
Reconciled(p) == adapter[p].publication /\ draft = p

\* Execute returned an error.
ExecutionFails(p) ==
    /\ Executing(p) /\ adapter[p].ctx
    /\ \/ Job(p, Retained(p, "needs_attention"))
       \/ Reconciled(p) /\ Job(p, Retained(p, "completed"))
    /\ UNCHANGED <<storeVars, runner, branch, draft, launches, faults>>

\* Clone, coding agent, patch validation, verification and commit, then the
\* pre-push lease check.
PrePush(p) ==
    /\ At(p, "coding") /\ EventAccepted(p, adapter[p].job)
    /\ Job(p, [adapter[p] EXCEPT !.pc = "checkpoint"])
    /\ UNCHANGED <<storeVars, runner, branch, draft, launches, faults>>

\* publicationCheckpointRecorder, first half: the local receipt.
RetainCheckpoint(p) ==
    /\ At(p, "checkpoint") /\ adapter[p].status = "started" /\ ~adapter[p].cancelled
    /\ Job(p, [adapter[p] EXCEPT !.pc = "confirm", !.publication = TRUE])
    /\ UNCHANGED <<storeVars, runner, branch, draft, launches, faults>>

\* Mutant: the provider is written to without the control plane's receipt.
ConfirmLocally(p) ==
    /\ At(p, "confirm")
    /\ Job(p, [adapter[p] EXCEPT !.pc = "push"])
    /\ UNCHANGED <<storeVars, runner, branch, draft, launches, faults>>

\* Second half: the control plane retains it too.
ConfirmCheckpoint(p) ==
    /\ At(p, "confirm") /\ RecordCheckpoint(p, adapter[p].job)
    /\ Job(p, [adapter[p] EXCEPT !.pc = "push"])
    /\ UNCHANGED <<runner, branch, draft, launches, faults>>

\* The push is under way when a cancellation arrives.
Push(p) ==
    /\ adapter[p].pc = "push" /\ branch = 0
    /\ branch' = p
    /\ Job(p, [adapter[p] EXCEPT !.pc = "predraft"])
    /\ UNCHANGED <<storeVars, runner, draft, launches, faults>>

PreDraft(p) ==
    /\ At(p, "predraft") /\ EventAccepted(p, adapter[p].job)
    /\ Job(p, [adapter[p] EXCEPT !.pc = "draft"])
    /\ UNCHANGED <<storeVars, runner, branch, draft, launches, faults>>

\* createDraftPullRequest, and the result checked against the checkpoint.  The
\* answer may be lost after the draft exists.
CreateDraft(p) ==
    /\ adapter[p].pc = "draft" /\ branch = p
    /\ draft' = p
    /\ \/ adapter[p].ctx /\ Job(p, Retained(p, "completed")) /\ UNCHANGED faults
       \/ Loses /\ UNCHANGED adapter
    /\ UNCHANGED <<storeVars, runner, branch, launches>>

-----------------------------------------------------------------------------
(* Terminal events and recovery.                                           *)

Pending(p) == adapter[p].terminal # "none" /\ ~adapter[p].settled

\* deliverTerminal, first tried by the run and then by RetryPending.
DeliverTerminal(p) ==
    /\ Pending(p)
    /\ \/ /\ RecordTerminal(p, adapter[p].job, adapter[p].terminal)
          /\ \/ Job(p, [adapter[p] EXCEPT !.settled = TRUE]) /\ UNCHANGED faults
             \/ Loses /\ UNCHANGED adapter
       \/ /\ ~EventAccepted(p, adapter[p].job)
          /\ Job(p, [adapter[p] EXCEPT !.settled = TRUE])
          /\ UNCHANGED <<storeVars, faults>>
    /\ UNCHANGED <<runner, branch, draft, launches>>

\* The process dies; loadReceipts brings back every job, and only a
\* reservation can still be started.
AdapterCrashes ==
    /\ faults.adapter < MaxAdapterCrashes
    /\ faults' = [faults EXCEPT !.adapter = @ + 1]
    /\ adapter' = [p \in PlanIds |->
                      IF adapter[p].status \in {"none", "reserved"} THEN adapter[p]
                      ELSE [adapter[p] EXCEPT !.spent = TRUE, !.cancelled = TRUE, !.ctx = FALSE,
                                              !.pc = "off", !.recovered = TRUE]]
    /\ UNCHANGED <<storeVars, runner, branch, draft, launches>>

\* Mutant: recovery runs an interrupted job again.
RecoverRelaunches(p) ==
    /\ adapter[p].recovered /\ adapter[p].status \in {"starting", "started"}
    /\ Job(p, [adapter[p] EXCEPT !.pc = "coding", !.ctx = TRUE, !.recovered = FALSE])
    /\ launches' = [launches EXCEPT ![p] = @ + 1]
    /\ UNCHANGED <<storeVars, runner, branch, draft, faults>>

\* Service.Recover: an interrupted job is reported, never run again.
Recover(p) ==
    /\ adapter[p].recovered /\ adapter[p].status \in {"starting", "started"}
    /\ \/ Job(p, Retained(p, "needs_attention"))
       \/ adapter[p].status = "started" /\ Reconciled(p) /\ Job(p, Retained(p, "completed"))
    /\ UNCHANGED <<storeVars, runner, branch, draft, launches, faults>>

-----------------------------------------------------------------------------
Elsewhere == UNCHANGED <<runner, remoteVars, faults>>

StoreStep ==
    \/ \E m \in mail, confirmed \in BOOLEAN : WithAgentTaskAcknowledgementFence(m, confirmed)
    \/ ExpireUnacknowledgedAgentTasks
    \/ RetryAgentTaskSource
    \/ \E d \in Decisions \ {"unknown"}, g \in BOOLEAN : RecordAgentTaskSourceSnapshot(d, g)
    \/ FailAgentTaskSourceSnapshot
    \/ CreateAgentTaskPlan
    \/ \E p \in DOMAIN plans : ApproveAgentTaskPlan(p)
    \/ CancelAgentTask
    \/ \E p \in PlanIds : LeaseLapses(p) \/ ExpireAgentTaskAttempts(p)

Dispatch(w) ==
    \/ \E m \in mail : \/ RetryPendingStart(w, m) \/ HoldForReadiness(w, m)
                       \/ ClaimReady(w, m) \/ ClaimStopsOnBudget(w, m)
    \/ LoadTargetFails(w) \/ Submit(w) \/ SubmitLost(w) \/ DispatchFailed(w)
    \/ Attach(w) \/ AttachLost(w) \/ RevokeReservation(w) \/ Start(w)
    \/ RunnerCrashes(w)

AdapterStep(p) ==
    \/ GateOpens(p) \/ GateFails(p) \/ ExecutionStops(p) \/ HeartbeatFails(p)
    \/ ExecutionFails(p) \/ PrePush(p) \/ RetainCheckpoint(p) \/ ConfirmCheckpoint(p)
    \/ Push(p) \/ PreDraft(p) \/ CreateDraft(p) \/ DeliverTerminal(p) \/ Recover(p)

Next ==
    \/ StoreStep /\ Elsewhere
    \/ \E w \in Runners : Dispatch(w)
    \/ \E m \in mail : CancelJob(m)
    \/ \E p \in PlanIds : AdapterStep(p)
    \/ AdapterCrashes

\* The reaper and the cancellation consumer run for ever, a deadline comes,
\* the gate answers and a run whose context is cancelled returns.
Fairness ==
    \A p \in PlanIds :
        /\ WF_vars(LeaseLapses(p) /\ Elsewhere)
        /\ WF_vars(ExpireAgentTaskAttempts(p) /\ Elsewhere)
        /\ WF_vars(\E m \in mail : m.plan = p /\ CancelJob(m))
        /\ WF_vars(GateOpens(p) \/ GateFails(p))
        /\ WF_vars(ExecutionStops(p))

Spec == Init /\ [][Next]_vars /\ Fairness

-----------------------------------------------------------------------------
(* What the pieces promise together.                                       *)

\* "Once the one-use start gate has been claimed ... a broker redelivery must
\* not launch another sandbox": however often requests are delivered, answers
\* are lost and processes die, one approved plan launches one coding agent.
OneLaunchPerPlan == \A p \in PlanIds : launches[p] <= 1

\* A task is executing exactly while one attempt row is running, and that row
\* is the one of the approved latest plan.
ExecutingHasItsAttempt ==
    /\ \A p, q \in PlanIds :
          attempts[p].state = "running" /\ attempts[q].state = "running" => p = q
    /\ task.state = "executing" <=> \E p \in PlanIds : attempts[p].state = "running"
    /\ \A p \in PlanIds : attempts[p].state = "running" => p = Latest /\ plans[p] = "approved"

\* What the provider shows was retained by the control plane before: the
\* branch holds the commit of a plan with a checkpoint, and a completed task
\* the draft of its latest plan.
PublishedIsAccountedFor ==
    /\ branch # 0 => attempts[branch].checkpoint = attempts[branch].n
    /\ draft # 0 => draft = branch
    /\ task.state = "completed" => draft = Latest /\ attempts[draft].state = "succeeded"

\* A job still executing after its attempt was ended has its cancellation
\* queued, or already cancelled.
RevokedJobIsCancelled ==
    \A p \in PlanIds :
        Executing(p) /\ adapter[p].ctx /\ attempts[p].state # "running" =>
            Message("cancel", 0, p, adapter[p].job) \in mail

\* Source work of a task asked for on the provider starts only after the
\* provider shows the acknowledgement.
SourceFollowsAcknowledgement ==
    (\E m \in mail : m.kind = "ack") /\ ResolveQueued => visible

\* A cancelled, rejected or completed task stays so and runs nothing new.
StoppedStaysStopped ==
    [][task.state \in {"cancelled", "rejected", "completed"} =>
          task'.state = task.state /\ launches' = launches]_vars

\* The watchdog ends every attempt that has a job, and the adapter stops the
\* jobs of the attempts that were ended.
AttachedWorkEnds ==
    \A p \in PlanIds :
        /\ (attempts[p].state = "running" /\ attempts[p].job # 0) ~> attempts[p].state # "running"
        /\ (Executing(p) /\ attempts[p].state # "running") ~> ~Executing(p)

\* agent_tasks.go:962: "an expired lease becomes needs_attention".
ExpiredLeaseIsReaped ==
    \A p \in PlanIds :
        (attempts[p].state = "running" /\ ~attempts[p].live) ~>
            (attempts[p].live \/ attempts[p].state # "running")
=============================================================================
