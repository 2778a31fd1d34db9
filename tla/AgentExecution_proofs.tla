------------------------ MODULE AgentExecution_proofs ------------------------
(***************************************************************************)
(* What an approved plan may cause, for any number of runners, plans,      *)
(* claims, crashes and lost answers: one launch, an attempt row exactly    *)
(* while the task executes, nothing on the provider that the control plane *)
(* had not retained, and no work for a task that was stopped.              *)
(*                                                                         *)
(* The database, the runners and the adapter's jobs change in few ways;    *)
(* StoreOp and the lemmas after it say which, and each invariant is then   *)
(* a matter of those ways alone.                                           *)
(***************************************************************************)
EXTENDS AgentExecution, TLAPS

Row == [state : AttemptStates, n : 0..MaxAttempts, worker : Runners \cup {"none"},
        live : BOOLEAN, job : 0..MaxAttempts, started : BOOLEAN,
        checkpoint : 0..MaxAttempts]
TaskRow == [state : TaskStates, rev : Nat \ {0}, source : {"pending", "ready", "failed"},
            decision : Decisions, retries : 0..MaxSourceRetries]
MailRow == [kind : {"ack", "source", "source_retry", "execute", "cancel"},
            rev : Nat, plan : 0..MaxPlans, job : 0..MaxAttempts]
RunnerRow == [pc : RunnerPcs, plan : 0..MaxPlans, job : 0..MaxAttempts]
JobRow == [job : 0..MaxAttempts, status : Statuses, spent : BOOLEAN,
           cancelled : BOOLEAN, ctx : BOOLEAN, pc : JobPcs, publication : BOOLEAN,
           terminal : {"none", "completed", "needs_attention"},
           settled : BOOLEAN, recovered : BOOLEAN]

\* What refers to a plan or a job names one that exists; a row nobody claimed
\* is blank.
References ==
    /\ \A m \in mail : m.kind = "execute" => m.plan \in PlanIds
    /\ \A m \in mail : m.kind = "cancel" => m.plan \in PlanIds /\ m.job # 0
    /\ \A w \in Runners : runner[w].pc # "idle" => runner[w].plan \in PlanIds /\ runner[w].job # 0
    /\ \A p \in PlanIds : attempts[p].state = "none" => attempts[p].n = 0

\* A task that was asked for on the provider has its source released by the
\* acknowledgement alone, and is retried after that only.
AcknowledgedFirst ==
    /\ (\E m \in mail : m.kind = "source_retry") => SourceReleased
    /\ (\E m \in mail : m.kind = "ack") /\ SourceReleased => visible

\* The local receipt of a job: what was launched is spent for good, and only
\* a reservation can be started.
OneUse(p) ==
    /\ adapter[p].job = 0 =>
           /\ adapter[p].status = "none" /\ adapter[p].pc = "off" /\ ~adapter[p].spent
           /\ adapter[p].terminal = "none" /\ ~adapter[p].recovered
    /\ adapter[p].job # 0 => adapter[p].status # "none"
    /\ adapter[p].pc = "gate" => ~adapter[p].spent
    /\ adapter[p].recovered \/ Executing(p) => adapter[p].spent
    /\ adapter[p].terminal # "none" => adapter[p].spent /\ adapter[p].pc = "off"
    /\ launches[p] <= 1
    /\ launches[p] # 0 => adapter[p].spent

\* The control plane's row of a job that runs: attached for good, and ended
\* only together with a queued cancellation.
Attached(p) ==
    Executing(p) =>
        /\ attempts[p].state # "none" /\ attempts[p].job = adapter[p].job
        /\ adapter[p].ctx /\ attempts[p].state # "running" =>
               Message("cancel", 0, p, adapter[p].job) \in mail

\* Retained by the control plane, in a row that no claim takes over.
Receipted(p) ==
    attempts[p].state # "none" /\ attempts[p].job # 0 /\ attempts[p].checkpoint = attempts[p].n

Published ==
    /\ \A p \in PlanIds :
          /\ adapter[p].pc \in {"push", "predraft", "draft"} => Receipted(p)
          /\ adapter[p].terminal = "completed" => draft = p
    /\ branch # 0 => Receipted(branch)
    /\ draft # 0 => draft = branch
    /\ task.state = "completed" => draft # 0 /\ draft = Latest /\ attempts[draft].state = "succeeded"

Inv ==
    /\ TypeOK /\ References /\ AcknowledgedFirst /\ ExecutingHasItsAttempt
    /\ \A p \in PlanIds : OneUse(p) /\ Attached(p)
    /\ Published

-----------------------------------------------------------------------------
(* What a step does to the database.                                       *)

\* The transactions of the runners, of the adapter and of everybody else.
StoreOp ==
    \/ UNCHANGED storeVars
    \/ StoreStep
    \/ \E m \in mail : HoldAgentTaskExecutionForReadiness(m) \/ stopAgentWorkflowBudget(m)
    \/ \E m \in mail, w \in Runners : ClaimAgentTaskAttempt(w, m)
    \/ \E w \in Runners :
          /\ runner[w].pc # "idle"
          /\ \/ MarkAgentTaskAttemptNeedsAttention(w, runner[w].plan)
             \/ AttachAgentTaskAdapterJob(w, runner[w].plan, runner[w].job)
    \/ \E p \in PlanIds :
          \/ adapter[p].pc = "gate" /\ ClaimAgentTaskAdapterStart(p, adapter[p].job)
          \/ adapter[p].pc = "confirm" /\ RecordCheckpoint(p, adapter[p].job)
          \/ adapter[p].terminal # "none" /\ RecordTerminal(p, adapter[p].job, adapter[p].terminal)

LEMMA StoreMoves == [Next]_vars => StoreOp
<1> USE DEF StoreOp, storeVars
<1>1. ASSUME StoreStep /\ Elsewhere PROVE StoreOp
  BY <1>1
<1>2. ASSUME NEW w \in Runners, Dispatch(w) PROVE StoreOp
  <2>1. ASSUME NEW m \in mail, RetryPendingStart(w, m) PROVE StoreOp
    BY <2>1 DEF RetryPendingStart
  <2>2. ASSUME NEW m \in mail, HoldForReadiness(w, m) PROVE StoreOp
    BY <2>2 DEF HoldForReadiness
  <2>3. ASSUME NEW m \in mail, ClaimReady(w, m) PROVE StoreOp
    BY <2>3 DEF ClaimReady
  <2>4. ASSUME NEW m \in mail, ClaimStopsOnBudget(w, m) PROVE StoreOp
    BY <2>4 DEF ClaimStopsOnBudget
  <2>5. CASE LoadTargetFails(w) \/ Submit(w) \/ SubmitLost(w) \/ RevokeReservation(w)
             \/ Start(w) \/ RunnerCrashes(w)
    BY <2>5 DEF LoadTargetFails, Submit, SubmitLost, RevokeReservation, Start, RunnerCrashes
  <2>6. CASE DispatchFailed(w)
    BY <2>6 DEF DispatchFailed
  <2>7. CASE Attach(w) \/ AttachLost(w)
    BY <2>7 DEF Attach, AttachLost
  <2> QED BY <1>2, <2>1, <2>2, <2>3, <2>4, <2>5, <2>6, <2>7 DEF Dispatch
<1>3. ASSUME NEW m \in mail, CancelJob(m) PROVE StoreOp
  BY <1>3 DEF CancelJob
<1>4. ASSUME NEW p \in PlanIds, AdapterStep(p) PROVE StoreOp
  <2>1. CASE GateOpens(p)
    BY <2>1 DEF GateOpens
  <2>2. CASE GateFails(p)
    BY <2>2 DEF GateFails
  <2>3. CASE ExecutionStops(p) \/ HeartbeatFails(p) \/ ExecutionFails(p) \/ PrePush(p)
             \/ RetainCheckpoint(p)
    BY <2>3 DEF ExecutionStops, HeartbeatFails, ExecutionFails, PrePush, RetainCheckpoint
  <2>4. CASE ConfirmCheckpoint(p)
    BY <2>4 DEF ConfirmCheckpoint, At
  <2>5. CASE Push(p) \/ PreDraft(p) \/ CreateDraft(p) \/ Recover(p)
    BY <2>5 DEF Push, PreDraft, CreateDraft, Recover
  <2>6. CASE DeliverTerminal(p)
    BY <2>6 DEF DeliverTerminal, Pending
  <2> QED BY <1>4, <2>1, <2>2, <2>3, <2>4, <2>5, <2>6 DEF AdapterStep
<1>5. CASE AdapterCrashes
  BY <1>5 DEF AdapterCrashes
<1>6. CASE UNCHANGED vars
  BY <1>6 DEF vars
<1> QED BY <1>1, <1>2, <1>3, <1>4, <1>5, <1>6 DEF Next

-----------------------------------------------------------------------------
(* Types of the database.                                                  *)

\* The next state and revision of a task.
LEMMA MovedType ==
    ASSUME task \in TaskRow, NEW s \in TaskStates
    PROVE  /\ Moved(s) \in TaskRow
           /\ Moved(s).state = s /\ Moved(s).rev = task.rev + 1
           /\ Moved(s).source = task.source /\ Moved(s).decision = task.decision
           /\ Moved(s).retries = task.retries
<1>1. task.rev + 1 \in Nat \ {0}
  BY SMT DEF TaskRow
<1>2. Moved(s) \in TaskRow
  BY <1>1, Zenon DEF Moved, TaskRow
<1> QED BY <1>2 DEF Moved, TaskRow

\* Superseding the open plan touches no other and forgets none.
LEMMA SupersededType ==
    ASSUME plans \in Seq(PlanStates)
    PROVE  /\ Superseded(plans) \in Seq(PlanStates)
           /\ Len(Superseded(plans)) = Len(plans)
           /\ \A i \in DOMAIN plans : Superseded(plans)[i] =
                  IF plans[i] = "awaiting_approval" THEN "superseded" ELSE plans[i]
BY DEF Superseded, PlanStates

\* What a message names exists.
LEMMA MessageType ==
    ASSUME NEW k \in {"ack", "source", "source_retry", "execute", "cancel"}, NEW r \in Nat,
           NEW p \in 0..MaxPlans, NEW j \in 0..MaxAttempts
    PROVE  Message(k, r, p, j) \in MailRow
BY DEF Message, MailRow

\* The row of an ended attempt, and of a claimed one.
LEMMA EndedType ==
    ASSUME NEW row \in Row, NEW s \in AttemptStates
    PROVE  /\ Ended(row, s) \in Row
           /\ Ended(row, s).state = s /\ Ended(row, s).n = row.n /\ Ended(row, s).job = row.job
           /\ Ended(row, s).checkpoint = row.checkpoint
<1>1. Ended(row, s) \in Row
  BY Zenon DEF Ended, Row
<1> QED BY <1>1 DEF Ended, Row

LEMMA ClaimedType ==
    ASSUME NEW row \in Row, NEW w \in Runners, row.n < MaxAttempts, AgentAssumption
    PROVE  /\ Claimed(row, w) \in Row
           /\ Claimed(row, w).state = "running" /\ Claimed(row, w).job = 0
<1>1. row.n + 1 \in 0..MaxAttempts /\ 0 \in 0..MaxAttempts
  BY SMT DEF Row, AgentAssumption
<1>2. "running" \in AttemptStates /\ w \in Runners \cup {"none"}
  BY DEF AttemptStates
<1>3. Claimed(row, w) \in Row
  BY <1>1, <1>2, Zenon DEF Claimed, Row
<1> QED BY <1>3 DEF Claimed, Row

\* The end of an attempt, and of its task while that executes.
LEMMA EndAttemptType ==
    ASSUME StoreTypeOK, AgentAssumption, NEW p \in PlanIds,
           NEW s \in AttemptStates, NEW t \in TaskStates, NEW c \in BOOLEAN,
           EndAttempt(p, s, t, c)
    PROVE  StoreTypeOK'
<1>1. task' \in TaskRow
  BY MovedType DEF EndAttempt, StoreTypeOK, TaskRow
<1>2. attempts \in [PlanIds -> Row]
  BY DEF StoreTypeOK, Row
<1>3. attempts' \in [PlanIds -> Row]
  BY <1>2, EndedType DEF EndAttempt
<1>4. attempts[p].job \in 0..MaxAttempts
  BY DEF StoreTypeOK
<1>5. p \in 0..MaxPlans
  BY SMT DEF PlanIds, AgentAssumption
<1>6. Message("cancel", 0, p, attempts[p].job) \in MailRow
  BY <1>4, <1>5, MessageType
<1>7. mail' \subseteq MailRow
  BY <1>6 DEF EndAttempt, StoreTypeOK, MailRow
<1> QED BY <1>1, <1>3, <1>7 DEF EndAttempt, StoreTypeOK, TaskRow, Row, MailRow

\* A transaction keeps the rows well formed.
Typed ==
    /\ task \in TaskRow /\ plans \in Seq(PlanStates) /\ Len(plans) <= MaxPlans
    /\ attempts \in [PlanIds -> Row] /\ mail \subseteq MailRow /\ visible \in BOOLEAN

LEMMA TypedIsStoreTypeOK == StoreTypeOK <=> Typed
BY DEF StoreTypeOK, Typed, TaskRow, Row, MailRow

LEMMA StoreTypes ==
    ASSUME StoreTypeOK, References, AgentAssumption, StoreOp,
           runner \in [Runners -> RunnerRow], adapter \in [PlanIds -> JobRow]
    PROVE  StoreTypeOK'
<1> USE AgentAssumption
<1>a. Typed
  BY TypedIsStoreTypeOK
<1>b. /\ task \in TaskRow /\ plans \in Seq(PlanStates) /\ Len(plans) <= MaxPlans
      /\ attempts \in [PlanIds -> Row] /\ mail \subseteq MailRow /\ visible \in BOOLEAN
  BY <1>a DEF Typed
<1>c. SUFFICES Typed'
  BY DEF StoreTypeOK, Typed, TaskRow, Row, MailRow
<1>d. \A p \in PlanIds : p \in 0..MaxPlans
  BY SMT DEF PlanIds, AgentAssumption
<1>e. task.rev \in Nat /\ task.rev + 1 \in Nat /\ 0 \in 0..MaxPlans /\ 0 \in 0..MaxAttempts
  BY <1>b DEF TaskRow, AgentAssumption
<1>f. \A s \in TaskStates : Moved(s) \in TaskRow
  BY <1>b, MovedType
<1>1. CASE UNCHANGED storeVars
  BY <1>1, <1>b DEF storeVars, Typed
<1>2. CASE StoreStep
  <2>1. ASSUME NEW m \in mail, NEW c \in BOOLEAN, WithAgentTaskAcknowledgementFence(m, c)
        PROVE  Typed'
    <3>1. Message("source", task.rev, 0, 0) \in MailRow
      BY <1>e, MessageType
    <3> QED BY <2>1, <3>1, <1>b DEF WithAgentTaskAcknowledgementFence, Typed
  <2>2. CASE ExpireUnacknowledgedAgentTasks \/ FailAgentTaskSourceSnapshot
    <3>1. "needs_attention" \in TaskStates
      BY DEF TaskStates
    <3>a. Moved("needs_attention") \in TaskRow
      BY <1>f, <3>1
    <3>2. [Moved("needs_attention") EXCEPT !.source = "failed"] \in TaskRow
      BY <3>a, Zenon DEF TaskRow
    <3> QED BY <2>2, <3>2, <1>b
            DEF ExpireUnacknowledgedAgentTasks, FailAgentTaskSourceSnapshot, Typed
  <2>3. CASE RetryAgentTaskSource
    <3>1. "received" \in TaskStates
      BY DEF TaskStates
    <3>2. Moved("received").retries = task.retries
      BY <3>1, <1>b, MovedType
    <3>3. task.retries + 1 \in 0..MaxSourceRetries
      BY <2>3, <1>b DEF RetryAgentTaskSource, TaskRow, AgentAssumption
    <3>a. Moved("received") \in TaskRow
      BY <1>f, <3>1
    <3>4. [Moved("received") EXCEPT !.source = "pending", !.retries = task.retries + 1] \in TaskRow
      BY <3>a, <3>3, Zenon DEF TaskRow
    <3>5. task' \in TaskRow
      BY <2>3, <3>2, <3>4 DEF RetryAgentTaskSource
    <3>6. Message(IF SourceReleased THEN "source_retry" ELSE "ack", task.rev + 1, 0, 0) \in MailRow
      BY <1>e, MessageType
    <3> QED BY <2>3, <3>5, <3>6, <1>b DEF RetryAgentTaskSource, Typed
  <2>4. ASSUME NEW d \in Decisions \ {"unknown"}, NEW g \in BOOLEAN,
               RecordAgentTaskSourceSnapshot(d, g)
        PROVE  Typed'
    <3> DEFINE ready == [Moved(task.state) EXCEPT !.source = "ready", !.decision = d]
    <3>1. ready \in TaskRow
      BY <1>b, <1>f, Zenon DEF TaskRow
    <3> HIDE DEF ready
    <3>2. ready.rev + 1 \in Nat \ {0}
      BY <3>1, SMT DEF TaskRow
    <3>3. \A s \in TaskStates : [ready EXCEPT !.state = s, !.rev = ready.rev + 1] \in TaskRow
      BY <3>1, <3>2, Zenon DEF TaskRow
    <3>4. {"rejected", "awaiting_approval"} \subseteq TaskStates
      BY DEF TaskStates
    <3>5. task' \in {ready, [ready EXCEPT !.state = "rejected", !.rev = ready.rev + 1],
                     [ready EXCEPT !.state = "awaiting_approval", !.rev = ready.rev + 1]}
      BY <2>4 DEF RecordAgentTaskSourceSnapshot, ready
    <3>6. task' \in TaskRow
      BY <3>1, <3>3, <3>4, <3>5
    <3>7. plans' \in Seq(PlanStates) /\ Len(plans') <= MaxPlans
      <4>1. <<"awaiting_approval">> \in Seq(PlanStates) /\ Len(<<"awaiting_approval">>) = 1
        BY DEF PlanStates
      <4>2. CASE g
        BY <2>4, <4>1, <4>2 DEF RecordAgentTaskSourceSnapshot, AgentAssumption
      <4>3. CASE ~g
        BY <2>4, <1>b, <4>3 DEF RecordAgentTaskSourceSnapshot
      <4> QED BY <4>2, <4>3
    <3> QED BY <2>4, <3>6, <3>7, <1>b DEF RecordAgentTaskSourceSnapshot, Typed
  <2>5. CASE CreateAgentTaskPlan
    <3>1. "awaiting_approval" \in TaskStates /\ "awaiting_approval" \in PlanStates
      BY DEF TaskStates, PlanStates
    <3>2. plans' \in Seq(PlanStates) /\ Len(plans') = Len(plans) + 1
      BY <2>5, <3>1, <1>b, SupersededType DEF CreateAgentTaskPlan
    <3> QED BY <2>5, <3>1, <3>2, <1>b, <1>f DEF CreateAgentTaskPlan, Latest, Typed, AgentAssumption
  <2>6. ASSUME NEW p \in DOMAIN plans, ApproveAgentTaskPlan(p) PROVE Typed'
    <3>1. "execution_queued" \in TaskStates /\ "approved" \in PlanStates
      BY DEF TaskStates, PlanStates
    <3>2. plans' \in Seq(PlanStates) /\ Len(plans') = Len(plans)
      <4>1. Superseded(plans) \in Seq(PlanStates) /\ Len(Superseded(plans)) = Len(plans)
        BY <1>b, SupersededType
      <4> QED BY <2>6, <3>1, <4>1 DEF ApproveAgentTaskPlan
    <3>3. Message("execute", task.rev + 1, p, 0) \in MailRow
      BY <1>b, <1>e, MessageType DEF AgentAssumption
    <3> QED BY <2>6, <3>1, <3>2, <3>3, <1>b, <1>f DEF ApproveAgentTaskPlan, Typed
  <2>7. CASE CancelAgentTask
    <3>1. "cancelled" \in TaskStates /\ "superseded" \in AttemptStates
      BY DEF TaskStates, AttemptStates
    <3>2. \A p \in PlanIds : Ended(attempts[p], "superseded") \in Row
      BY <3>1, <1>b, EndedType
    <3>3. attempts' \in [PlanIds -> Row]
      BY <2>7, <3>2, <1>b DEF CancelAgentTask
    <3>4. \A p \in PlanIds : attempts[p].job \in 0..MaxAttempts
      BY <1>b DEF Row
    <3>5. \A p \in PlanIds : Message("cancel", 0, p, attempts[p].job) \in MailRow
      BY <1>d, <3>4, MessageType
    <3>6. mail' \subseteq MailRow
      BY <2>7, <3>5, <1>b DEF CancelAgentTask
    <3> QED BY <2>7, <3>1, <3>3, <3>6, <1>b, <1>f DEF CancelAgentTask, Typed
  <2>8. ASSUME NEW p \in PlanIds, LeaseLapses(p) PROVE Typed'
    <3>1. [attempts EXCEPT ![p].live = FALSE] \in [PlanIds -> Row]
      BY <1>b, ZenonT(60) DEF Row
    <3> QED BY <2>8, <3>1, <1>b DEF LeaseLapses, Typed
  <2>9. ASSUME NEW p \in PlanIds, ExpireAgentTaskAttempts(p) PROVE Typed'
    <3>1. StoreTypeOK'
      BY <2>9, EndAttemptType DEF ExpireAgentTaskAttempts, AttemptStates, TaskStates
    <3> QED BY <3>1 DEF StoreTypeOK, Typed, TaskRow, Row, MailRow
  <2> QED BY <1>2, <2>1, <2>2, <2>3, <2>4, <2>5, <2>6, <2>7, <2>8, <2>9 DEF StoreStep
<1>3. ASSUME NEW m \in mail, HoldAgentTaskExecutionForReadiness(m) PROVE Typed'
  BY <1>3, <1>b, <1>f DEF HoldAgentTaskExecutionForReadiness, TaskStates, Typed
<1>4. ASSUME NEW m \in mail, stopAgentWorkflowBudget(m) PROVE Typed'
  <2>1. m.plan \in PlanIds
    BY <1>4 DEF stopAgentWorkflowBudget, Claimable, Queued, Reclaiming, References
  <2>2. "needs_attention" \in AttemptStates /\ "needs_attention" \in TaskStates
    BY DEF AttemptStates, TaskStates
  <2>3. attempts' \in [PlanIds -> Row]
    BY <1>4, <2>1, <2>2, <1>b, EndedType DEF stopAgentWorkflowBudget
  <2> QED BY <1>4, <2>2, <2>3, <1>b, <1>f DEF stopAgentWorkflowBudget, Typed
<1>5. ASSUME NEW m \in mail, NEW w \in Runners, ClaimAgentTaskAttempt(w, m) PROVE Typed'
  <2>1. m.plan \in PlanIds
    BY <1>5 DEF ClaimAgentTaskAttempt, Claimable, Queued, Reclaiming, References
  <2>2. attempts[m.plan].n < MaxAttempts
    BY <1>5, <2>1, <1>b
    DEF ClaimAgentTaskAttempt, Claimable, canReclaimAgentAttempt, References, Row, AgentAssumption
  <2>3. "executing" \in TaskStates
    BY DEF TaskStates
  <2>4. attempts' \in [PlanIds -> Row]
    BY <1>5, <2>1, <2>2, <1>b, ClaimedType DEF ClaimAgentTaskAttempt
  <2> QED BY <1>5, <2>3, <2>4, <1>b, <1>f DEF ClaimAgentTaskAttempt, Typed
<1>6. ASSUME NEW w \in Runners, runner[w].pc # "idle",
             MarkAgentTaskAttemptNeedsAttention(w, runner[w].plan)
      PROVE  Typed'
  <2>1. runner[w].plan \in PlanIds
    BY <1>6 DEF References
  <2>2. StoreTypeOK'
    BY <1>6, <2>1, EndAttemptType
    DEF MarkAgentTaskAttemptNeedsAttention, AttemptStates, TaskStates
  <2> QED BY <2>2 DEF StoreTypeOK, Typed, TaskRow, Row, MailRow
<1>7. ASSUME NEW w \in Runners, runner[w].pc # "idle",
             AttachAgentTaskAdapterJob(w, runner[w].plan, runner[w].job)
      PROVE  Typed'
  <2>1. runner[w].plan \in PlanIds
    BY <1>7 DEF References
  <2>2. runner[w].job \in 0..MaxAttempts
    BY DEF RunnerRow
  <2>3. [attempts EXCEPT ![runner[w].plan].job = runner[w].job] \in [PlanIds -> Row]
    BY <2>1, <2>2, <1>b, ZenonT(60) DEF Row
  <2> QED BY <1>7, <2>3, <1>b DEF AttachAgentTaskAdapterJob, Typed
<1>8. ASSUME NEW p \in PlanIds, ClaimAgentTaskAdapterStart(p, adapter[p].job) PROVE Typed'
  <2>1. [attempts EXCEPT ![p].started = TRUE] \in [PlanIds -> Row]
    BY <1>b, ZenonT(60) DEF Row
  <2> QED BY <1>8, <2>1, <1>b DEF ClaimAgentTaskAdapterStart, Typed
<1>9. ASSUME NEW p \in PlanIds, RecordCheckpoint(p, adapter[p].job) PROVE Typed'
  <2>1. attempts[p].n \in 0..MaxAttempts
    BY <1>b DEF Row
  <2>2. [attempts EXCEPT ![p].checkpoint = attempts[p].n] \in [PlanIds -> Row]
    BY <2>1, <1>b, ZenonT(60) DEF Row
  <2> QED BY <1>9, <2>2, <1>b DEF RecordCheckpoint, Typed
<1>10. ASSUME NEW p \in PlanIds, RecordTerminal(p, adapter[p].job, adapter[p].terminal)
       PROVE  Typed'
  <2>1. StoreTypeOK'
    BY <1>10, EndAttemptType DEF RecordTerminal, AttemptStates, TaskStates
  <2> QED BY <2>1 DEF StoreTypeOK, Typed, TaskRow, Row, MailRow
<1> QED BY <1>1, <1>2, <1>3, <1>4, <1>5, <1>6, <1>7, <1>8, <1>9, <1>10 DEF StoreOp

-----------------------------------------------------------------------------
(* The attempt rows and the outbox.                                        *)

\* The ways of one attempt row: an ended one is final, one with a job is
\* neither claimed again nor given another, and its end queues the job's
\* cancellation unless the job itself reported.
RowMoves(p) ==
    /\ attempts[p].state \notin {"none", "running"} => attempts'[p] = attempts[p]
    /\ attempts'[p].state = "none" => attempts[p].state = "none" /\ attempts'[p].n = attempts[p].n
    /\ attempts[p].state # "none" /\ attempts[p].job # 0 =>
           /\ attempts'[p].state # "none" /\ attempts'[p].n = attempts[p].n
           /\ attempts'[p].job = attempts[p].job
           /\ attempts'[p].checkpoint \in {attempts[p].checkpoint, attempts[p].n}
    /\ attempts[p].state = "running" /\ attempts[p].job # 0 /\ attempts'[p].state # "running" =>
           \/ Message("cancel", 0, p, attempts[p].job) \in mail'
           \/ adapter[p].terminal # "none"

LEMMA EndAttemptMoves ==
    ASSUME StoreTypeOK, NEW q \in PlanIds, NEW p \in PlanIds, NEW c \in BOOLEAN,
           NEW s \in AttemptStates \ {"none", "running"}, NEW t,
           attempts[q].state = "running", EndAttempt(q, s, t, c),
           c \/ adapter[q].terminal # "none"
    PROVE  RowMoves(p)
<1>1. attempts \in [PlanIds -> Row]
  BY DEF StoreTypeOK, Row
<1>2. /\ Ended(attempts[q], s) \in Row
      /\ Ended(attempts[q], s).state = s /\ Ended(attempts[q], s).n = attempts[q].n
      /\ Ended(attempts[q], s).job = attempts[q].job
      /\ Ended(attempts[q], s).checkpoint = attempts[q].checkpoint
  BY <1>1, EndedType
<1>3. attempts'[q] = Ended(attempts[q], s) /\ (p # q => attempts'[p] = attempts[p])
  BY <1>1 DEF EndAttempt
<1>4. c /\ attempts[q].job # 0 => Message("cancel", 0, q, attempts[q].job) \in mail'
  BY DEF EndAttempt
<1>5. CASE p = q
  BY <1>2, <1>3, <1>4, <1>5 DEF RowMoves
<1>6. CASE p # q
  BY <1>3, <1>6 DEF RowMoves
<1> QED BY <1>5, <1>6

LEMMA RowsMove ==
    ASSUME StoreTypeOK, References, StoreOp, NEW p \in PlanIds
    PROVE  RowMoves(p)
<1>1. attempts \in [PlanIds -> Row]
  BY DEF StoreTypeOK, Row
<1>2. ASSUME attempts' = attempts PROVE RowMoves(p)
  BY <1>2 DEF RowMoves
<1>3. CASE UNCHANGED storeVars
  BY <1>2, <1>3 DEF storeVars
<1>4. CASE StoreStep
  <2>1. ASSUME NEW m \in mail, NEW c \in BOOLEAN, WithAgentTaskAcknowledgementFence(m, c)
        PROVE  RowMoves(p)
    BY <1>2, <2>1 DEF WithAgentTaskAcknowledgementFence
  <2>2. CASE \/ ExpireUnacknowledgedAgentTasks \/ RetryAgentTaskSource
             \/ FailAgentTaskSourceSnapshot \/ CreateAgentTaskPlan
    BY <1>2, <2>2 DEF ExpireUnacknowledgedAgentTasks, RetryAgentTaskSource,
                      FailAgentTaskSourceSnapshot, CreateAgentTaskPlan
  <2>3. ASSUME NEW d \in Decisions \ {"unknown"}, NEW g \in BOOLEAN,
               RecordAgentTaskSourceSnapshot(d, g)
        PROVE  RowMoves(p)
    BY <1>2, <2>3 DEF RecordAgentTaskSourceSnapshot
  <2>4. ASSUME NEW q \in DOMAIN plans, ApproveAgentTaskPlan(q) PROVE RowMoves(p)
    BY <1>2, <2>4 DEF ApproveAgentTaskPlan
  <2>5. CASE CancelAgentTask
    <3>1. attempts'[p] = IF attempts[p].state = "running" THEN Ended(attempts[p], "superseded")
                         ELSE attempts[p]
      BY <2>5 DEF CancelAgentTask
    <3>2. attempts[p].state = "running" /\ attempts[p].job # 0 =>
              Message("cancel", 0, p, attempts[p].job) \in mail'
      BY <2>5 DEF CancelAgentTask
    <3>3. CASE attempts[p].state = "running"
      <4>1. attempts[p] \in Row /\ "superseded" \in AttemptStates
        BY <1>1 DEF AttemptStates
      <4>2. /\ Ended(attempts[p], "superseded").state = "superseded"
            /\ Ended(attempts[p], "superseded").n = attempts[p].n
            /\ Ended(attempts[p], "superseded").job = attempts[p].job
            /\ Ended(attempts[p], "superseded").checkpoint = attempts[p].checkpoint
        BY <4>1, EndedType
      <4> QED BY <3>1, <3>2, <3>3, <4>2 DEF RowMoves
    <3> QED BY <3>1, <3>3 DEF RowMoves
  <2>6. ASSUME NEW q \in PlanIds, LeaseLapses(q) PROVE RowMoves(p)
    <3>1. \/ p # q /\ attempts'[p] = attempts[p]
          \/ p = q /\ attempts'[p] = [attempts[p] EXCEPT !.live = FALSE]
      BY <2>6, <1>1 DEF LeaseLapses
    <3> QED BY <2>6, <3>1, <1>1 DEF LeaseLapses, RowMoves, Row
  <2>7. ASSUME NEW q \in PlanIds, ExpireAgentTaskAttempts(q) PROVE RowMoves(p)
    BY <2>7, EndAttemptMoves DEF ExpireAgentTaskAttempts, AttemptStates
  <2> QED BY <1>4, <2>1, <2>2, <2>3, <2>4, <2>5, <2>6, <2>7 DEF StoreStep
<1>5. ASSUME NEW m \in mail, HoldAgentTaskExecutionForReadiness(m) PROVE RowMoves(p)
  BY <1>2, <1>5 DEF HoldAgentTaskExecutionForReadiness
<1>6. ASSUME NEW m \in mail, stopAgentWorkflowBudget(m) PROVE RowMoves(p)
  <2>1. m.plan \in PlanIds
    BY <1>6 DEF stopAgentWorkflowBudget, Claimable, Queued, Reclaiming, References
  <2>2. CASE p # m.plan \/ attempts[m.plan].state = "none"
    <3>1. attempts'[p] = attempts[p]
      BY <1>6, <2>1, <2>2, <1>1 DEF stopAgentWorkflowBudget
    <3> QED BY <3>1 DEF RowMoves
  <2>3. CASE p = m.plan /\ attempts[m.plan].state # "none"
    <3>1. attempts[p].state = "running" /\ attempts[p].job = 0
      BY <1>6, <2>3 DEF stopAgentWorkflowBudget, Claimable, canReclaimAgentAttempt
    <3>2. attempts'[p] = Ended(attempts[p], "needs_attention")
      BY <1>6, <2>1, <2>3, <1>1 DEF stopAgentWorkflowBudget
    <3>3. Ended(attempts[p], "needs_attention").state = "needs_attention"
      <4>1. attempts[p] \in Row /\ "needs_attention" \in AttemptStates
        BY <1>1 DEF AttemptStates
      <4> QED BY <4>1, EndedType
    <3> QED BY <3>1, <3>2, <3>3 DEF RowMoves
  <2> QED BY <2>2, <2>3
<1>7. ASSUME NEW m \in mail, NEW w \in Runners, ClaimAgentTaskAttempt(w, m) PROVE RowMoves(p)
  <2>1. m.plan \in PlanIds
    BY <1>7 DEF ClaimAgentTaskAttempt, Claimable, Queued, Reclaiming, References
  <2>2. CASE p # m.plan
    <3>1. attempts'[p] = attempts[p]
      BY <1>7, <2>1, <2>2, <1>1 DEF ClaimAgentTaskAttempt
    <3> QED BY <3>1 DEF RowMoves
  <2>3. CASE p = m.plan
    <3>a. Claimable(m)
      BY <1>7, Zenon DEF ClaimAgentTaskAttempt
    <3>1. attempts[p].state = "none" \/ (attempts[p].state = "running" /\ attempts[p].job = 0)
      BY <2>3, <3>a DEF Claimable, canReclaimAgentAttempt
    <3>2. attempts'[p] = Claimed(attempts[p], w)
      BY <1>7, <2>3, <1>1 DEF ClaimAgentTaskAttempt
    <3>3. Claimed(attempts[p], w).state = "running"
      BY <1>1 DEF Claimed, Row
    <3> QED BY <3>1, <3>2, <3>3 DEF RowMoves
  <2> QED BY <2>2, <2>3
<1>8. ASSUME NEW w \in Runners, runner[w].pc # "idle",
             MarkAgentTaskAttemptNeedsAttention(w, runner[w].plan)
      PROVE  RowMoves(p)
  <2>1. runner[w].plan \in PlanIds
    BY <1>8 DEF References
  <2> QED BY <1>8, <2>1, EndAttemptMoves
          DEF MarkAgentTaskAttemptNeedsAttention, OwnsAttempt, AttemptStates
<1>9. ASSUME NEW w \in Runners, runner[w].pc # "idle",
             AttachAgentTaskAdapterJob(w, runner[w].plan, runner[w].job)
      PROVE  RowMoves(p)
  <2>1. runner[w].plan \in PlanIds
    BY <1>9 DEF References
  <2>2. \/ p # runner[w].plan /\ attempts'[p] = attempts[p]
        \/ p = runner[w].plan /\ attempts'[p] = [attempts[p] EXCEPT !.job = runner[w].job]
    BY <1>9, <2>1, <1>1 DEF AttachAgentTaskAdapterJob
  <2> QED BY <1>9, <2>2, <1>1 DEF AttachAgentTaskAdapterJob, OwnsAttempt, RowMoves, Row
<1>10. ASSUME NEW q \in PlanIds, ClaimAgentTaskAdapterStart(q, adapter[q].job) PROVE RowMoves(p)
  <2>1. \/ p # q /\ attempts'[p] = attempts[p]
        \/ p = q /\ attempts'[p] = [attempts[p] EXCEPT !.started = TRUE]
    BY <1>10, <1>1 DEF ClaimAgentTaskAdapterStart
  <2> QED BY <1>10, <2>1, <1>1 DEF ClaimAgentTaskAdapterStart, StartAllowed, Held, RowMoves, Row
<1>11. ASSUME NEW q \in PlanIds, RecordCheckpoint(q, adapter[q].job) PROVE RowMoves(p)
  <2>1. \/ p # q /\ attempts'[p] = attempts[p]
        \/ p = q /\ attempts'[p] = [attempts[p] EXCEPT !.checkpoint = attempts[p].n]
    BY <1>11, <1>1 DEF RecordCheckpoint
  <2> QED BY <1>11, <2>1, <1>1 DEF RecordCheckpoint, EventAccepted, Held, RowMoves, Row
<1>12. ASSUME NEW q \in PlanIds, adapter[q].terminal # "none",
              RecordTerminal(q, adapter[q].job, adapter[q].terminal)
       PROVE  RowMoves(p)
  BY <1>12, EndAttemptMoves DEF RecordTerminal, EventAccepted, Held, AttemptStates
<1> QED BY <1>3, <1>4, <1>5, <1>6, <1>7, <1>8, <1>9, <1>10, <1>11, <1>12 DEF StoreOp

\* Messages are never taken back, and each names what exists; the source is
\* released and asked for again only behind the acknowledgement.
LEMMA MailMoves ==
    ASSUME StoreTypeOK, References, AcknowledgedFirst, AgentAssumption, StoreOp
    PROVE  /\ mail \subseteq mail'
           /\ \A m \in mail' : m.kind = "execute" => m.plan \in PlanIds
           /\ \A m \in mail' : m.kind = "cancel" => m.plan \in PlanIds /\ m.job # 0
           /\ AcknowledgedFirst'
<1> DEFINE Goal == /\ mail \subseteq mail'
                   /\ \A m \in mail' : m.kind = "execute" => m.plan \in PlanIds
                   /\ \A m \in mail' : m.kind = "cancel" => m.plan \in PlanIds /\ m.job # 0
                   /\ AcknowledgedFirst'
<1>a. ASSUME mail' = mail, visible' = visible PROVE Goal
  BY <1>a DEF References, AcknowledgedFirst, SourceReleased
<1>b. ASSUME NEW p \in PlanIds, visible' = visible,
             \/ mail' = mail
             \/ attempts[p].job # 0 /\ mail' = mail \cup {Message("cancel", 0, p, attempts[p].job)}
             \/ \E r : mail' = mail \cup {Message("execute", r, p, 0)}
      PROVE  Goal
  BY <1>b DEF References, AcknowledgedFirst, SourceReleased, Message
<1>c. ASSUME NEW p \in PlanIds, NEW s, NEW t, NEW c \in BOOLEAN, EndAttempt(p, s, t, c)
      PROVE  Goal
  <2>1. \/ mail' = mail
        \/ attempts[p].job # 0 /\ mail' = mail \cup {Message("cancel", 0, p, attempts[p].job)}
    BY <1>c DEF EndAttempt
  <2>2. visible' = visible
    BY <1>c DEF EndAttempt
  <2> QED BY <1>b, <2>1, <2>2
<1> SUFFICES Goal
  BY DEF Goal
<1> HIDE DEF Goal
<1>1. CASE UNCHANGED storeVars
  BY <1>1, <1>a DEF storeVars
<1>2. CASE StoreStep
  <2>1. ASSUME NEW m \in mail, NEW c \in BOOLEAN, WithAgentTaskAcknowledgementFence(m, c)
        PROVE  Goal
    <3>1. \/ mail' = mail
          \/ mail' = mail \cup {Message("source", task.rev, 0, 0)}
      BY <2>1 DEF WithAgentTaskAcknowledgementFence
    <3>2. visible' = TRUE
      BY <2>1 DEF WithAgentTaskAcknowledgementFence
    <3>3. CASE mail' = mail
      BY <3>2, <3>3 DEF Goal, References, AcknowledgedFirst, SourceReleased
    <3>4. CASE mail' = mail \cup {Message("source", task.rev, 0, 0)}
      <4> DEFINE new == Message("source", task.rev, 0, 0)
      <4>1. new.kind = "source"
        BY DEF Message
      <4> HIDE DEF new
      <4>2. mail' = mail \cup {new}
        BY <3>4 DEF new
      <4> QED BY <3>2, <4>1, <4>2 DEF Goal, References, AcknowledgedFirst, SourceReleased
    <3> QED BY <3>1, <3>3, <3>4
  <2>2. CASE ExpireUnacknowledgedAgentTasks \/ FailAgentTaskSourceSnapshot \/ CreateAgentTaskPlan
    BY <1>a, <2>2, Zenon
    DEF ExpireUnacknowledgedAgentTasks, FailAgentTaskSourceSnapshot, CreateAgentTaskPlan
  <2>3. CASE RetryAgentTaskSource
    <3>1. CASE SourceReleased
      <4>1. mail' = mail \cup {Message("source_retry", task.rev + 1, 0, 0)} /\ visible' = visible
        BY <2>3, <3>1 DEF RetryAgentTaskSource
      <4> QED BY <3>1, <4>1 DEF Goal, References, AcknowledgedFirst, SourceReleased, Message
    <3>2. CASE ~SourceReleased
      <4>1. mail' = mail \cup {Message("ack", task.rev + 1, 0, 0)} /\ visible' = visible
        BY <2>3, <3>2 DEF RetryAgentTaskSource
      <4> QED BY <3>2, <4>1 DEF Goal, References, AcknowledgedFirst, SourceReleased, Message
    <3> QED BY <3>1, <3>2
  <2>4. ASSUME NEW d \in Decisions \ {"unknown"}, NEW g \in BOOLEAN,
               RecordAgentTaskSourceSnapshot(d, g)
        PROVE  Goal
    BY <1>a, <2>4 DEF RecordAgentTaskSourceSnapshot
  <2>5. ASSUME NEW q \in DOMAIN plans, ApproveAgentTaskPlan(q) PROVE Goal
    <3>1. q \in PlanIds
      <4>1. q \in 1..Len(plans) /\ Len(plans) \in Nat /\ Len(plans) <= MaxPlans
        BY DEF StoreTypeOK
      <4>2. MaxPlans \in Nat
        BY DEF AgentAssumption
      <4> QED BY <4>1, <4>2 DEF PlanIds
    <3>2. visible' = visible /\ mail' = mail \cup {Message("execute", task.rev + 1, q, 0)}
      BY <2>5 DEF ApproveAgentTaskPlan
    <3>3. \E r : mail' = mail \cup {Message("execute", r, q, 0)}
      BY <3>2
    <3> QED BY <1>b, <3>1, <3>2, <3>3
  <2>6. CASE CancelAgentTask
    <3>1. mail' = mail \cup {Message("cancel", 0, p, attempts[p].job) :
                               p \in {q \in PlanIds : attempts[q].state = "running"
                                                      /\ attempts[q].job # 0}}
      BY <2>6 DEF CancelAgentTask
    <3>2. visible' = visible
      BY <2>6 DEF CancelAgentTask
    <3>a. \A p \in PlanIds :
              /\ Message("cancel", 0, p, attempts[p].job).kind = "cancel"
              /\ Message("cancel", 0, p, attempts[p].job).plan = p
              /\ Message("cancel", 0, p, attempts[p].job).job = attempts[p].job
      BY DEF Message
    <3> DEFINE note(p) == Message("cancel", 0, p, attempts[p].job)
    <3>b. \A p \in PlanIds : note(p).kind = "cancel" /\ note(p).plan = p
                             /\ note(p).job = attempts[p].job
      BY <3>a
    <3>c. mail' = mail \cup {note(p) : p \in {q \in PlanIds : attempts[q].state = "running"
                                                            /\ attempts[q].job # 0}}
      BY <3>1
    <3> HIDE DEF note
    <3>3. ASSUME NEW m \in mail', m \notin mail
          PROVE  m.kind = "cancel" /\ m.plan \in PlanIds /\ m.job # 0
      <4>1. PICK p \in PlanIds : attempts[p].job # 0 /\ m = note(p)
        BY <3>c, <3>3
      <4> QED BY <3>b, <4>1
    <3>4. mail \subseteq mail'
      BY <3>1
    <3> QED BY <3>2, <3>3, <3>4 DEF Goal, References, AcknowledgedFirst, SourceReleased
  <2>7. ASSUME NEW q \in PlanIds, LeaseLapses(q) PROVE Goal
    BY <1>a, <2>7 DEF LeaseLapses
  <2>8. ASSUME NEW q \in PlanIds, ExpireAgentTaskAttempts(q) PROVE Goal
    BY <1>c, <2>8 DEF ExpireAgentTaskAttempts
  <2> QED BY <1>2, <2>1, <2>2, <2>3, <2>4, <2>5, <2>6, <2>7, <2>8 DEF StoreStep
<1>3. ASSUME NEW m \in mail, HoldAgentTaskExecutionForReadiness(m) PROVE Goal
  BY <1>a, <1>3 DEF HoldAgentTaskExecutionForReadiness
<1>4. ASSUME NEW m \in mail, stopAgentWorkflowBudget(m) PROVE Goal
  BY <1>a, <1>4 DEF stopAgentWorkflowBudget
<1>5. ASSUME NEW m \in mail, NEW w \in Runners, ClaimAgentTaskAttempt(w, m) PROVE Goal
  BY <1>a, <1>5 DEF ClaimAgentTaskAttempt
<1>6. ASSUME NEW w \in Runners, runner[w].pc # "idle",
             MarkAgentTaskAttemptNeedsAttention(w, runner[w].plan)
      PROVE  Goal
  <2>1. runner[w].plan \in PlanIds
    BY <1>6 DEF References
  <2> QED BY <1>c, <1>6, <2>1 DEF MarkAgentTaskAttemptNeedsAttention
<1>7. ASSUME NEW w \in Runners, AttachAgentTaskAdapterJob(w, runner[w].plan, runner[w].job)
      PROVE  Goal
  BY <1>a, <1>7, Zenon DEF AttachAgentTaskAdapterJob
<1>8. ASSUME NEW q \in PlanIds, ClaimAgentTaskAdapterStart(q, adapter[q].job) PROVE Goal
  BY <1>a, <1>8, Zenon DEF ClaimAgentTaskAdapterStart
<1>9. ASSUME NEW q \in PlanIds, RecordCheckpoint(q, adapter[q].job) PROVE Goal
  BY <1>a, <1>9, Zenon DEF RecordCheckpoint
<1>10. ASSUME NEW q \in PlanIds, RecordTerminal(q, adapter[q].job, adapter[q].terminal)
       PROVE  Goal
  BY <1>c, <1>10 DEF RecordTerminal
<1> QED
  BY <1>1, <1>2, <1>3, <1>4, <1>5, <1>6, <1>7, <1>8, <1>9, <1>10 DEF StoreOp

-----------------------------------------------------------------------------
(* The task and its running attempt.                                       *)

\* The ways of the task: a stopped one stays, and it is completed by the
\* terminal event of its latest plan only.
TaskMoves ==
    /\ task.state \in {"cancelled", "rejected", "completed"} =>
           task'.state = task.state /\ plans' = plans
    /\ task'.state = "completed" /\ task.state # "completed" =>
           /\ plans' = plans /\ Latest \in PlanIds
           /\ adapter[Latest].terminal = "completed" /\ attempts'[Latest].state = "succeeded"

\* Nothing runs and the task does not execute.
LEMMA NothingRuns ==
    ASSUME \A p \in PlanIds : attempts'[p].state # "running", task'.state # "executing"
    PROVE  ExecutingHasItsAttempt'
BY DEF ExecutingHasItsAttempt

LEMMA SameRuns ==
    ASSUME ExecutingHasItsAttempt, \A p \in PlanIds : attempts'[p].state = attempts[p].state,
           task'.state = "executing" <=> task.state = "executing", plans' = plans
    PROVE  ExecutingHasItsAttempt'
BY DEF ExecutingHasItsAttempt, Latest

\* The only running attempt ends, and the task with it.
LEMMA EndAttemptStops ==
    ASSUME StoreTypeOK, ExecutingHasItsAttempt, NEW q \in PlanIds, NEW c \in BOOLEAN,
           NEW s \in AttemptStates \ {"none", "running"}, NEW t \in TaskStates \ {"executing"},
           attempts[q].state = "running", EndAttempt(q, s, t, c)
    PROVE  /\ ExecutingHasItsAttempt' /\ task.state = "executing" /\ q = Latest
           /\ task'.state = t /\ plans' = plans /\ attempts'[q].state = s
<1>1. task.state = "executing" /\ q = Latest /\ \A p \in PlanIds : attempts[p].state = "running" => p = q
  BY DEF ExecutingHasItsAttempt
<1>2. attempts \in [PlanIds -> Row] /\ task \in TaskRow
  BY DEF StoreTypeOK, Row, TaskRow
<1>3. task'.state = t
  BY <1>1, <1>2, MovedType DEF EndAttempt
<1>4. Ended(attempts[q], s).state = s
  BY <1>2, EndedType
<1>5. attempts' = [attempts EXCEPT ![q] = Ended(attempts[q], s)] /\ plans' = plans
  BY DEF EndAttempt
<1>6. attempts'[q].state = s /\ \A p \in PlanIds : attempts'[p].state # "running"
  BY <1>1, <1>2, <1>4, <1>5
<1>7. ExecutingHasItsAttempt'
  BY <1>3, <1>6, NothingRuns
<1> QED BY <1>1, <1>3, <1>5, <1>6, <1>7

LEMMA ExecutionMoves ==
    ASSUME StoreTypeOK, References, ExecutingHasItsAttempt, AgentAssumption, StoreOp
    PROVE  ExecutingHasItsAttempt' /\ TaskMoves
<1> DEFINE Goal == ExecutingHasItsAttempt' /\ TaskMoves
<1> SUFFICES Goal
  OBVIOUS
<1>a. attempts \in [PlanIds -> Row] /\ task \in TaskRow
  BY DEF StoreTypeOK, Row, TaskRow
<1>b. \A s \in TaskStates : Moved(s).state = s
  BY <1>a, MovedType
<1>c. ASSUME UNCHANGED <<attempts, plans>>, task.state \notin {"executing", "cancelled", "rejected", "completed"},
             task'.state \notin {"executing", "completed"}
      PROVE  Goal
  BY <1>c, SameRuns DEF TaskMoves
<1>d. ASSUME task' = task, plans' = plans, \A p \in PlanIds : attempts'[p].state = attempts[p].state
      PROVE  Goal
  BY <1>d, SameRuns DEF TaskMoves
<1>e. task.state # "executing" => \A p \in PlanIds : attempts[p].state # "running"
  BY DEF ExecutingHasItsAttempt
<1>f. ASSUME NEW q \in PlanIds, NEW s \in AttemptStates \ {"none", "running"},
             NEW c \in BOOLEAN, attempts[q].state = "running",
             EndAttempt(q, s, "needs_attention", c)
      PROVE  Goal
  BY <1>f, EndAttemptStops DEF TaskMoves, TaskStates
<1> HIDE DEF Goal
<1>1. CASE UNCHANGED storeVars
  BY <1>1, <1>d DEF storeVars
<1>2. CASE StoreStep
  <2>1. ASSUME NEW m \in mail, NEW c \in BOOLEAN, WithAgentTaskAcknowledgementFence(m, c)
        PROVE  Goal
    BY <1>d, <2>1 DEF WithAgentTaskAcknowledgementFence
  <2>2. CASE ExpireUnacknowledgedAgentTasks \/ FailAgentTaskSourceSnapshot
    <3>1. task' = [Moved("needs_attention") EXCEPT !.source = "failed"]
      BY <2>2 DEF ExpireUnacknowledgedAgentTasks, FailAgentTaskSourceSnapshot
    <3>2. Moved("needs_attention") \in TaskRow /\ Moved("needs_attention").state = "needs_attention"
      BY <1>a, MovedType DEF TaskStates
    <3>3. task'.state = "needs_attention"
      BY <3>1, <3>2 DEF TaskRow
    <3> QED BY <1>c, <2>2, <3>3
            DEF ExpireUnacknowledgedAgentTasks, FailAgentTaskSourceSnapshot, AwaitsSource
  <2>3. CASE RetryAgentTaskSource
    <3> DEFINE row == Moved("received")
    <3>1. row \in TaskRow /\ row.state = "received"
      BY <1>a, MovedType DEF TaskStates
    <3>2. task' = [row EXCEPT !.source = "pending", !.retries = row.retries + 1]
      BY <2>3 DEF RetryAgentTaskSource
    <3> HIDE DEF row
    <3>3. task'.state = "received"
      BY <3>1, <3>2 DEF TaskRow
    <3> QED BY <1>c, <2>3, <3>3 DEF RetryAgentTaskSource
  <2>4. ASSUME NEW d \in Decisions \ {"unknown"}, NEW g \in BOOLEAN,
               RecordAgentTaskSourceSnapshot(d, g)
        PROVE  Goal
    <3> DEFINE ready == [Moved(task.state) EXCEPT !.source = "ready", !.decision = d]
    <3>1. task.state = "received" /\ attempts' = attempts
      BY <2>4 DEF RecordAgentTaskSourceSnapshot, AwaitsSource
    <3>2. task' \in {ready, [ready EXCEPT !.state = "rejected", !.rev = ready.rev + 1],
                     [ready EXCEPT !.state = "awaiting_approval", !.rev = ready.rev + 1]}
      BY <2>4 DEF RecordAgentTaskSourceSnapshot
    <3>3. Moved(task.state) \in TaskRow /\ Moved(task.state).state = "received"
      BY <1>a, <3>1, MovedType DEF TaskStates
    <3>4. ready \in TaskRow /\ ready.state = "received"
      <4>1. ready \in TaskRow
        BY <3>3, Zenon DEF TaskRow
      <4>2. ready.state = "received"
        BY <3>3 DEF TaskRow
      <4> QED BY <4>1, <4>2
    <3> HIDE DEF ready
    <3>5. task'.state \in {"received", "rejected", "awaiting_approval"}
      BY <3>2, <3>4 DEF TaskRow
    <3>6. ExecutingHasItsAttempt'
      BY <1>e, <3>1, <3>5, NothingRuns
    <3> QED BY <3>1, <3>5, <3>6 DEF Goal, TaskMoves
  <2>5. CASE CreateAgentTaskPlan
    <3>1. task'.state = "awaiting_approval" /\ attempts' = attempts
      BY <2>5, <1>b DEF CreateAgentTaskPlan, TaskStates
    <3>2. task.state \notin {"executing", "cancelled", "rejected", "completed"}
      BY <2>5 DEF CreateAgentTaskPlan
    <3>3. ExecutingHasItsAttempt'
      BY <1>e, <3>1, <3>2, NothingRuns
    <3> QED BY <3>1, <3>2, <3>3 DEF Goal, TaskMoves
  <2>6. ASSUME NEW q \in DOMAIN plans, ApproveAgentTaskPlan(q) PROVE Goal
    <3>1. task'.state = "execution_queued" /\ attempts' = attempts
      BY <2>6, <1>b DEF ApproveAgentTaskPlan, TaskStates
    <3>2. task.state = "awaiting_approval"
      BY <2>6 DEF ApproveAgentTaskPlan
    <3>3. ExecutingHasItsAttempt'
      BY <1>e, <3>1, <3>2, NothingRuns
    <3> QED BY <3>1, <3>2, <3>3 DEF Goal, TaskMoves
  <2>7. CASE CancelAgentTask
    <3>1. task'.state = "cancelled" /\ plans' = plans
      BY <2>7, <1>b DEF CancelAgentTask, TaskStates
    <3>2. \A p \in PlanIds : attempts[p].state = "running" =>
              Ended(attempts[p], "superseded").state = "superseded"
      BY <1>a, EndedType DEF AttemptStates
    <3>3. \A p \in PlanIds : attempts'[p].state # "running"
      BY <2>7, <3>2 DEF CancelAgentTask
    <3>4. task.state \notin {"cancelled", "rejected", "completed"}
      BY <2>7 DEF CancelAgentTask, agentTaskStateCancellable
    <3>5. ExecutingHasItsAttempt'
      BY <3>1, <3>3, NothingRuns
    <3> QED BY <3>1, <3>4, <3>5 DEF Goal, TaskMoves
  <2>8. ASSUME NEW q \in PlanIds, LeaseLapses(q) PROVE Goal
    <3>1. \A p \in PlanIds : attempts'[p].state = attempts[p].state
      BY <2>8, <1>a DEF LeaseLapses, Row
    <3> QED BY <1>d, <2>8, <3>1, Zenon DEF LeaseLapses
  <2>9. ASSUME NEW q \in PlanIds, ExpireAgentTaskAttempts(q) PROVE Goal
    BY <1>f, <2>9 DEF ExpireAgentTaskAttempts, AttemptStates
  <2> QED BY <1>2, <2>1, <2>2, <2>3, <2>4, <2>5, <2>6, <2>7, <2>8, <2>9 DEF StoreStep
<1>3. ASSUME NEW m \in mail, HoldAgentTaskExecutionForReadiness(m) PROVE Goal
  <2>1. task'.state = "needs_attention"
    BY <1>3, <1>b DEF HoldAgentTaskExecutionForReadiness, TaskStates
  <2> QED BY <1>3, <1>c, <2>1 DEF HoldAgentTaskExecutionForReadiness, Queued
<1>4. ASSUME NEW m \in mail, stopAgentWorkflowBudget(m) PROVE Goal
  <2>1. m.plan \in PlanIds /\ m.plan = Latest /\ Claimable(m)
    BY <1>4 DEF stopAgentWorkflowBudget, Claimable, Queued, Reclaiming, References
  <2>2. task'.state = "needs_attention" /\ plans' = plans
    BY <1>4, <1>b DEF stopAgentWorkflowBudget, TaskStates
  <2>3. task.state \in {"execution_queued", "executing"}
    BY <2>1 DEF Claimable, Queued, Reclaiming
  <2>4. Ended(attempts[m.plan], "needs_attention").state = "needs_attention"
    <3>1. attempts[m.plan] \in Row /\ "needs_attention" \in AttemptStates
      BY <1>a, <2>1 DEF AttemptStates
    <3> QED BY <3>1, EndedType
  <2>5. \A p \in PlanIds : attempts[p].state = "running" => p = m.plan
    BY <2>1 DEF ExecutingHasItsAttempt
  <2>6. \A p \in PlanIds : attempts'[p].state # "running"
    BY <1>4, <1>a, <2>1, <2>4, <2>5 DEF stopAgentWorkflowBudget
  <2>7. ExecutingHasItsAttempt'
    BY <2>2, <2>6, NothingRuns
  <2> QED BY <2>2, <2>3, <2>7 DEF Goal, TaskMoves
<1>5. ASSUME NEW m \in mail, NEW w \in Runners, ClaimAgentTaskAttempt(w, m) PROVE Goal
  <2>1. Claimable(m) /\ plans' = plans
    BY <1>5, Zenon DEF ClaimAgentTaskAttempt
  <2>2. m.plan \in PlanIds /\ m.plan = Latest /\ plans[m.plan] = "approved"
    BY <2>1 DEF Claimable, Queued, Reclaiming, References
  <2>3. task.state \in {"execution_queued", "executing"} /\ task'.state = "executing"
    BY <1>5, <2>1, <1>b DEF ClaimAgentTaskAttempt, Claimable, Queued, Reclaiming, TaskStates
  <2>4. Claimed(attempts[m.plan], w).state = "running"
    BY <1>a, <2>2 DEF Claimed, Row
  <2>5. attempts' = [attempts EXCEPT ![m.plan] = Claimed(attempts[m.plan], w)]
    BY <1>5 DEF ClaimAgentTaskAttempt
  <2>6. \A p \in PlanIds : attempts'[p].state = "running" <=> p = m.plan
    BY <1>a, <2>2, <2>4, <2>5 DEF ExecutingHasItsAttempt
  <2>7. Latest' = Latest /\ plans'[m.plan] = "approved"
    BY <2>1, <2>2 DEF Latest
  <2>8. ExecutingHasItsAttempt'
    BY <2>2, <2>3, <2>6, <2>7 DEF ExecutingHasItsAttempt
  <2> QED BY <2>1, <2>3, <2>8 DEF Goal, TaskMoves
<1>6. ASSUME NEW w \in Runners, runner[w].pc # "idle",
             MarkAgentTaskAttemptNeedsAttention(w, runner[w].plan)
      PROVE  Goal
  <2>1. runner[w].plan \in PlanIds
    BY <1>6 DEF References
  <2> QED BY <1>f, <1>6, <2>1
          DEF MarkAgentTaskAttemptNeedsAttention, OwnsAttempt, AttemptStates
<1>7. ASSUME NEW w \in Runners, AttachAgentTaskAdapterJob(w, runner[w].plan, runner[w].job)
      PROVE  Goal
  <2> DEFINE q == runner[w].plan  j == runner[w].job
  <2>1. attempts' = [attempts EXCEPT ![q].job = j] /\ task' = task /\ plans' = plans
    BY <1>7, Zenon DEF AttachAgentTaskAdapterJob
  <2> HIDE DEF q, j
  <2>2. \A p \in PlanIds : attempts'[p].state = attempts[p].state
    BY <2>1, <1>a DEF Row
  <2> QED BY <1>d, <2>1, <2>2
<1>8. ASSUME NEW q \in PlanIds, ClaimAgentTaskAdapterStart(q, adapter[q].job) PROVE Goal
  <2>1. attempts' = [attempts EXCEPT ![q].started = TRUE] /\ task' = task /\ plans' = plans
    BY <1>8, Zenon DEF ClaimAgentTaskAdapterStart
  <2>2. \A p \in PlanIds : attempts'[p].state = attempts[p].state
    BY <2>1, <1>a DEF Row
  <2> QED BY <1>d, <2>1, <2>2
<1>9. ASSUME NEW q \in PlanIds, RecordCheckpoint(q, adapter[q].job) PROVE Goal
  <2>1. attempts' = [attempts EXCEPT ![q].checkpoint = attempts[q].n]
        /\ task' = task /\ plans' = plans
    BY <1>9, Zenon DEF RecordCheckpoint
  <2>2. \A p \in PlanIds : attempts'[p].state = attempts[p].state
    BY <2>1, <1>a DEF Row
  <2> QED BY <1>d, <2>1, <2>2
<1>10. ASSUME NEW q \in PlanIds, RecordTerminal(q, adapter[q].job, adapter[q].terminal)
       PROVE  Goal
  <2>1. attempts[q].state = "running"
    BY <1>10 DEF RecordTerminal, EventAccepted, Held
  <2>2. CASE adapter[q].terminal = "completed"
    <3>1. EndAttempt(q, "succeeded", "completed", FALSE)
      BY <1>10, <2>2 DEF RecordTerminal
    <3> QED BY <2>1, <2>2, <3>1, EndAttemptStops DEF Goal, TaskMoves, AttemptStates, TaskStates
  <2>3. CASE adapter[q].terminal # "completed"
    BY <1>f, <1>10, <2>1, <2>3 DEF RecordTerminal, AttemptStates
  <2> QED BY <2>2, <2>3
<1> QED BY <1>1, <1>2, <1>3, <1>4, <1>5, <1>6, <1>7, <1>8, <1>9, <1>10 DEF StoreOp

-----------------------------------------------------------------------------
(* The runners.                                                            *)

RunnersOK ==
    /\ runner \in [Runners -> RunnerRow]
    /\ \A w \in Runners : runner[w].pc # "idle" => runner[w].plan \in PlanIds /\ runner[w].job # 0

\* A runner that leaves, that goes on, or that takes up a plan.
LEMMA RunnerLeaves ==
    ASSUME RunnersOK, AgentAssumption, NEW w \in Runners, Leave(w)
    PROVE  RunnersOK'
<1>1. IdleRunner \in RunnerRow /\ IdleRunner.pc = "idle"
  BY DEF IdleRunner, RunnerRow, RunnerPcs, AgentAssumption
<1> QED BY <1>1 DEF RunnersOK, Leave

LEMMA RunnerGoesOn ==
    ASSUME RunnersOK, NEW w \in Runners, NEW pc \in RunnerPcs, runner[w].pc # "idle", Goto(w, pc)
    PROVE  RunnersOK'
<1>1. runner' = [runner EXCEPT ![w].pc = pc]
  BY DEF Goto
<1>2. runner' \in [Runners -> RunnerRow]
  BY <1>1, Zenon DEF RunnersOK, RunnerRow
<1>3. \A v \in Runners : runner'[v].plan = runner[v].plan /\ runner'[v].job = runner[v].job
                         /\ (v # w => runner'[v].pc = runner[v].pc)
  BY <1>1 DEF RunnersOK, RunnerRow
<1> QED BY <1>2, <1>3 DEF RunnersOK

LEMMA RunnerTakesUp ==
    ASSUME RunnersOK, AgentAssumption, NEW w \in Runners, NEW pc \in RunnerPcs,
           NEW p \in PlanIds, NEW j \in 1..MaxAttempts,
           runner' = [runner EXCEPT ![w] = [pc |-> pc, plan |-> p, job |-> j]]
    PROVE  RunnersOK'
<1> DEFINE row == [pc |-> pc, plan |-> p, job |-> j]
<1>1. row \in RunnerRow /\ row.plan = p /\ row.job = j
  BY DEF RunnerRow, PlanIds, AgentAssumption
<1>2. runner' = [runner EXCEPT ![w] = row]
  OBVIOUS
<1> HIDE DEF row
<1> QED BY <1>1, <1>2 DEF RunnersOK, AgentAssumption

LEMMA RunnersMove ==
    ASSUME StoreTypeOK, References, RunnersOK, AgentAssumption, [Next]_vars
    PROVE  RunnersOK'
<1>a. attempts \in [PlanIds -> Row]
  BY DEF StoreTypeOK, Row
<1>b. ASSUME runner' = runner PROVE RunnersOK'
  BY <1>b DEF RunnersOK
<1>1. CASE StoreStep /\ Elsewhere
  BY <1>b, <1>1 DEF Elsewhere
<1>2. ASSUME NEW w \in Runners, Dispatch(w) PROVE RunnersOK'
  <2>1. ASSUME NEW m \in mail, RetryPendingStart(w, m) PROVE RunnersOK'
    <3>1. m.plan \in PlanIds /\ attempts[m.plan].job # 0
      BY <2>1 DEF RetryPendingStart, PendingAgentTaskAdapterStart, Reclaiming, References
    <3>2. attempts[m.plan].job \in 1..MaxAttempts
      BY <1>a, <3>1 DEF Row, AgentAssumption
    <3> QED BY <2>1, <3>1, <3>2, RunnerTakesUp DEF RetryPendingStart, RunnerPcs
  <2>2. ASSUME NEW m \in mail, HoldForReadiness(w, m) \/ ClaimStopsOnBudget(w, m)
        PROVE  RunnersOK'
    BY <1>b, <2>2 DEF HoldForReadiness, ClaimStopsOnBudget
  <2>3. ASSUME NEW m \in mail, ClaimReady(w, m) PROVE RunnersOK'
    <3>1. Claimable(m)
      BY <2>3, Zenon DEF ClaimReady, ClaimAgentTaskAttempt
    <3>2. m.plan \in PlanIds
      BY <3>1 DEF Claimable, Queued, Reclaiming, References
    <3>3. attempts[m.plan].n + 1 \in 1..MaxAttempts
      BY <1>a, <3>1, <3>2 DEF Claimable, canReclaimAgentAttempt, References, Row, AgentAssumption
    <3> QED BY <2>3, <3>2, <3>3, RunnerTakesUp DEF ClaimReady, RunnerPcs
  <2>4. CASE LoadTargetFails(w) \/ DispatchFailed(w) \/ RevokeReservation(w) \/ Start(w)
             \/ RunnerCrashes(w)
    <3>1. Leave(w)
      BY <2>4 DEF LoadTargetFails, DispatchFailed, RevokeReservation, Start, RunnerCrashes
    <3> QED BY <3>1, RunnerLeaves
  <2>5. CASE Submit(w) \/ SubmitLost(w) \/ Attach(w) \/ AttachLost(w)
    <3>1. PICK pc \in {"attach", "mark", "start", "revoke"} : Goto(w, pc) /\ runner[w].pc # "idle"
      BY <2>5, Zenon DEF Submit, SubmitLost, Attach, AttachLost
    <3> QED BY <3>1, RunnerGoesOn DEF RunnerPcs
  <2> QED BY <1>2, <2>1, <2>2, <2>3, <2>4, <2>5 DEF Dispatch
<1>3. ASSUME NEW m \in mail, CancelJob(m) PROVE RunnersOK'
  BY <1>b, <1>3 DEF CancelJob
<1>4. ASSUME NEW p \in PlanIds, AdapterStep(p) PROVE RunnersOK'
  <2>1. runner' = runner
    BY <1>4, Zenon
    DEF AdapterStep, GateOpens, GateFails, ExecutionStops, HeartbeatFails, ExecutionFails, PrePush,
        RetainCheckpoint, ConfirmCheckpoint, Push, PreDraft, CreateDraft, DeliverTerminal, Recover
  <2> QED BY <1>b, <2>1
<1>5. CASE AdapterCrashes
  BY <1>b, <1>5 DEF AdapterCrashes
<1>6. CASE UNCHANGED vars
  BY <1>b, <1>6 DEF vars
<1> QED BY <1>1, <1>2, <1>3, <1>4, <1>5, <1>6 DEF Next

-----------------------------------------------------------------------------
(* The jobs of the adapter.                                                *)

Writing(p) == adapter[p].pc \in {"push", "predraft", "draft"}

\* The ways of one job: its name stays, it runs from the start gate on, it
\* writes to the provider from its checkpoint on, and it reports completion
\* for its own draft only.
JobMoves(p) ==
    /\ adapter[p].job # 0 => adapter'[p].job = adapter[p].job
    /\ Executing(p)' => \/ ClaimAgentTaskAdapterStart(p, adapter[p].job) /\ adapter[p].job # 0
                        \/ Executing(p) /\ (adapter'[p].ctx => adapter[p].ctx)
    /\ Writing(p)' => \/ Writing(p)
                      \/ RecordCheckpoint(p, adapter[p].job) /\ adapter[p].job # 0
    /\ adapter'[p].terminal = "completed" => adapter[p].terminal = "completed" \/ draft' = p

JobsOK ==
    /\ adapter \in [PlanIds -> JobRow] /\ launches \in [PlanIds -> Nat]
    /\ \A p \in PlanIds : OneUse(p)

\* A job nobody touches, and the step of a single job.
LEMMA StillJob ==
    ASSUME NEW p \in PlanIds, OneUse(p), adapter'[p] = adapter[p], launches'[p] = launches[p]
    PROVE  OneUse(p)' /\ JobMoves(p)
BY DEF OneUse, JobMoves, Executing, Writing

LEMMA JobsStay ==
    ASSUME JobsOK, adapter' = adapter, launches' = launches
    PROVE  JobsOK' /\ \A p \in PlanIds : JobMoves(p)
BY StillJob DEF JobsOK

LEMMA OneJob ==
    ASSUME JobsOK, NEW p \in PlanIds, NEW k \in JobRow, Job(p, k), launches' \in [PlanIds -> Nat],
           \A q \in PlanIds : q # p => launches'[q] = launches[q],
           adapter'[p] = k => OneUse(p)' /\ JobMoves(p)
    PROVE  JobsOK' /\ \A q \in PlanIds : JobMoves(q)
<1>1. adapter' \in [PlanIds -> JobRow] /\ adapter'[p] = k
  BY DEF Job, JobsOK
<1>2. \A q \in PlanIds : q # p => adapter'[q] = adapter[q]
  BY DEF Job, JobsOK
<1>3. \A q \in PlanIds : OneUse(q)' /\ JobMoves(q)
  BY <1>1, <1>2, StillJob DEF JobsOK
<1> QED BY <1>1, <1>3 DEF JobsOK

\* Service.submit and Service.cancel.
LEMMA ReservedJob ==
    ASSUME JobsOK, NEW p \in PlanIds, NEW j \in 1..MaxAttempts, adapter[p].job = 0,
           Job(p, [NoJob EXCEPT !.job = j, !.status = "reserved"]), launches' = launches,
           AgentAssumption
    PROVE  JobsOK' /\ \A q \in PlanIds : JobMoves(q)
<1> DEFINE k == [NoJob EXCEPT !.job = j, !.status = "reserved"]
<1>1. k \in JobRow
  <2>1. NoJob \in JobRow
    BY DEF NoJob, JobRow, Statuses, JobPcs, AgentAssumption
  <2>2. j \in 0..MaxAttempts /\ "reserved" \in Statuses
    BY DEF Statuses, AgentAssumption
  <2> QED BY <2>1, <2>2, Zenon DEF JobRow
<1>2. k.job = j /\ k.status = "reserved" /\ k.pc = "off" /\ ~k.spent /\ ~k.recovered
      /\ k.terminal = "none"
  BY DEF NoJob
<1>3. Job(p, k)
  OBVIOUS
<1> HIDE DEF k
<1>4. ASSUME adapter'[p] = k PROVE OneUse(p)' /\ JobMoves(p)
  BY <1>2, <1>4 DEF JobsOK, OneUse, JobMoves, Executing, Writing
<1> QED BY <1>1, <1>3, <1>4, OneJob DEF JobsOK

LEMMA CancelledJob ==
    ASSUME JobsOK, NEW p \in PlanIds, adapter[p].job # 0, adapter[p].pc # "gate",
           Job(p, Cancelled(p)), launches' = launches
    PROVE  JobsOK' /\ \A q \in PlanIds : JobMoves(q)
<1>1. adapter[p] \in JobRow /\ OneUse(p)
  BY DEF JobsOK
<1>2. Cancelled(p) \in JobRow
  BY <1>1, Zenon DEF Cancelled, JobRow, Statuses
<1>3. ASSUME adapter'[p] = Cancelled(p) PROVE OneUse(p)' /\ JobMoves(p)
  <2>1. adapter'[p] = [adapter[p] EXCEPT !.cancelled = TRUE, !.ctx = FALSE, !.status = "cancelled"]
    BY <1>3 DEF Cancelled
  <2> QED BY <1>1, <2>1 DEF OneUse, JobMoves, Executing, Writing, JobRow
<1> QED BY <1>2, <1>3, OneJob DEF JobsOK

LEMMA RetainedJob ==
    ASSUME JobsOK, NEW p \in PlanIds, NEW kind \in {"completed", "needs_attention"},
           adapter[p].spent, kind = "completed" => draft' = p,
           Job(p, Retained(p, kind)), launches' = launches
    PROVE  JobsOK' /\ \A q \in PlanIds : JobMoves(q)
<1>1. adapter[p] \in JobRow /\ OneUse(p)
  BY DEF JobsOK
<1>2. Retained(p, kind) \in JobRow
  BY <1>1, Zenon DEF Retained, JobRow, Statuses, JobPcs
<1>3. ASSUME adapter'[p] = Retained(p, kind) PROVE OneUse(p)' /\ JobMoves(p)
  <2>1. adapter'[p] = [adapter[p] EXCEPT !.pc = "off", !.status = "terminal", !.terminal = kind]
    BY <1>3 DEF Retained
  <2> QED BY <1>1, <2>1 DEF JobsOK, OneUse, JobMoves, Executing, Writing, JobRow
<1> QED BY <1>2, <1>3, OneJob DEF JobsOK

\* The steps of Execute.
LEMMA JobGoesOn ==
    ASSUME JobsOK, NEW p \in PlanIds, NEW pc \in {"off", "checkpoint", "push", "predraft", "draft"},
           Executing(p), Job(p, [adapter[p] EXCEPT !.pc = pc]), launches' = launches,
           pc \in {"push", "predraft", "draft"} =>
               Writing(p) \/ RecordCheckpoint(p, adapter[p].job)
    PROVE  JobsOK' /\ \A q \in PlanIds : JobMoves(q)
<1>1. adapter[p] \in JobRow /\ OneUse(p)
  BY DEF JobsOK
<1>2. [adapter[p] EXCEPT !.pc = pc] \in JobRow
  BY <1>1, Zenon DEF JobRow, JobPcs
<1>3. ASSUME adapter'[p] = [adapter[p] EXCEPT !.pc = pc] PROVE OneUse(p)' /\ JobMoves(p)
  BY <1>1, <1>3 DEF JobsOK, OneUse, JobMoves, Executing, Writing, JobRow
<1> QED BY <1>2, <1>3, OneJob DEF JobsOK

\* The start gate, the context and the receipts.
LEMMA StartingJob ==
    ASSUME JobsOK, NEW p \in PlanIds, adapter[p].job # 0, adapter[p].pc # "gate", ~adapter[p].spent,
           Job(p, [adapter[p] EXCEPT !.status = "starting", !.pc = "gate"]), launches' = launches
    PROVE  JobsOK' /\ \A q \in PlanIds : JobMoves(q)
<1> DEFINE k == [adapter[p] EXCEPT !.status = "starting", !.pc = "gate"]
<1>1. adapter[p] \in JobRow /\ OneUse(p)
  BY DEF JobsOK
<1>2. k \in JobRow
  BY <1>1, Zenon DEF JobRow, Statuses, JobPcs
<1>3. ASSUME adapter'[p] = k PROVE OneUse(p)' /\ JobMoves(p)
  BY <1>1, <1>3 DEF JobsOK, OneUse, JobMoves, Executing, Writing, JobRow
<1> QED BY <1>2, <1>3, OneJob DEF JobsOK

LEMMA LaunchedJob ==
    ASSUME JobsOK, NEW p \in PlanIds, adapter[p].pc = "gate",
           ClaimAgentTaskAdapterStart(p, adapter[p].job),
           Job(p, [adapter[p] EXCEPT !.status = "started", !.spent = TRUE, !.pc = "coding"]),
           launches' = [launches EXCEPT ![p] = @ + 1]
    PROVE  JobsOK' /\ \A q \in PlanIds : JobMoves(q)
<1> DEFINE k == [adapter[p] EXCEPT !.status = "started", !.spent = TRUE, !.pc = "coding"]
<1>1. adapter[p] \in JobRow /\ OneUse(p)
  BY DEF JobsOK
<1>2. k \in JobRow
  BY <1>1, Zenon DEF JobRow, Statuses, JobPcs
<1>3. launches[p] = 0 /\ launches'[p] = 1 /\ launches' \in [PlanIds -> Nat]
  BY <1>1 DEF OneUse, JobsOK
<1>4. ASSUME adapter'[p] = k PROVE OneUse(p)' /\ JobMoves(p)
  <2>1. adapter'[p].job = adapter[p].job /\ adapter'[p].status = "started" /\ adapter'[p].spent
        /\ adapter'[p].pc = "coding" /\ adapter'[p].terminal = adapter[p].terminal
        /\ adapter'[p].recovered = adapter[p].recovered
    BY <1>1, <1>4 DEF JobRow
  <2> QED BY <1>1, <1>3, <2>1 DEF OneUse, JobMoves, Executing, Writing
<1>5. \A q \in PlanIds : q # p => launches'[q] = launches[q]
  BY DEF JobsOK
<1> QED BY <1>2, <1>3, <1>4, <1>5, OneJob

LEMMA DeniedJob ==
    ASSUME JobsOK, NEW p \in PlanIds, adapter[p].pc = "gate",
           Job(p, [adapter[p] EXCEPT !.cancelled = TRUE, !.ctx = FALSE, !.pc = "off"]),
           launches' = launches
    PROVE  JobsOK' /\ \A q \in PlanIds : JobMoves(q)
<1> DEFINE k == [adapter[p] EXCEPT !.cancelled = TRUE, !.ctx = FALSE, !.pc = "off"]
<1>1. adapter[p] \in JobRow /\ OneUse(p)
  BY DEF JobsOK
<1>2. k \in JobRow
  BY <1>1, Zenon DEF JobRow, JobPcs
<1>3. ASSUME adapter'[p] = k PROVE OneUse(p)' /\ JobMoves(p)
  BY <1>1, <1>3 DEF JobsOK, OneUse, JobMoves, Executing, Writing, JobRow
<1> QED BY <1>2, <1>3, OneJob DEF JobsOK

LEMMA MarkedJob ==
    ASSUME JobsOK, NEW p \in PlanIds, launches' = launches,
           \/ Job(p, [adapter[p] EXCEPT !.ctx = FALSE])
           \/ Job(p, [adapter[p] EXCEPT !.settled = TRUE])
           \/ /\ adapter[p].pc = "checkpoint"
              /\ Job(p, [adapter[p] EXCEPT !.pc = "confirm", !.publication = TRUE])
    PROVE  JobsOK' /\ \A q \in PlanIds : JobMoves(q)
<1>1. adapter[p] \in JobRow /\ OneUse(p)
  BY DEF JobsOK
<1>2. PICK k : /\ Job(p, k)
               /\ \/ k = [adapter[p] EXCEPT !.ctx = FALSE]
                  \/ k = [adapter[p] EXCEPT !.settled = TRUE]
                  \/ /\ adapter[p].pc = "checkpoint"
                     /\ k = [adapter[p] EXCEPT !.pc = "confirm", !.publication = TRUE]
  BY Zenon
<1>3. k \in JobRow
  BY <1>1, <1>2, Zenon DEF JobRow, JobPcs
<1>4. /\ k.job = adapter[p].job /\ k.status = adapter[p].status /\ k.spent = adapter[p].spent
      /\ k.terminal = adapter[p].terminal /\ k.recovered = adapter[p].recovered
      /\ k.ctx => adapter[p].ctx
      /\ k.pc = adapter[p].pc \/ (k.pc = "confirm" /\ adapter[p].pc = "checkpoint")
  BY <1>1, <1>2 DEF JobRow
<1>5. ASSUME adapter'[p] = k PROVE OneUse(p)' /\ JobMoves(p)
  BY <1>1, <1>4, <1>5 DEF JobsOK, OneUse, JobMoves, Executing, Writing
<1> QED BY <1>2, <1>3, <1>5, OneJob DEF JobsOK

\* A death of the adapter interrupts every job that was started.
LEMMA CrashedJobs ==
    ASSUME JobsOK, AdapterCrashes
    PROVE  JobsOK' /\ \A q \in PlanIds : JobMoves(q)
<1> DEFINE k(p) == [adapter[p] EXCEPT !.spent = TRUE, !.cancelled = TRUE, !.ctx = FALSE,
                                      !.pc = "off", !.recovered = TRUE]
<1>1. \A p \in PlanIds : adapter[p] \in JobRow /\ OneUse(p)
  BY DEF JobsOK
<1>2. ASSUME NEW p \in PlanIds PROVE k(p) \in JobRow
  BY <1>1, Zenon DEF JobRow, JobPcs
<1>3. ASSUME NEW p \in PlanIds
      PROVE  /\ k(p).job = adapter[p].job /\ k(p).status = adapter[p].status /\ k(p).spent
             /\ k(p).terminal = adapter[p].terminal /\ k(p).pc = "off"
  BY <1>1 DEF JobRow
<1>4. adapter' = [p \in PlanIds |-> IF adapter[p].status \in {"none", "reserved"} THEN adapter[p]
                                    ELSE k(p)]
  BY DEF AdapterCrashes
<1>5. launches' = launches
  BY DEF AdapterCrashes
<1> HIDE DEF k
<1>6. adapter' \in [PlanIds -> JobRow]
  BY <1>1, <1>2, <1>4
<1>7. ASSUME NEW p \in PlanIds PROVE OneUse(p)' /\ JobMoves(p)
  <2>1. CASE adapter[p].status \in {"none", "reserved"}
    BY <1>1, <1>4, <1>5, <2>1, StillJob
  <2>2. CASE adapter[p].status \notin {"none", "reserved"}
    <3>1. adapter'[p] = k(p)
      BY <1>4, <2>2
    <3>2. adapter[p].job # 0
      BY <1>1, <2>2 DEF OneUse
    <3> QED BY <1>1, <1>3, <1>5, <3>1, <3>2 DEF OneUse, JobMoves, Executing, Writing
  <2> QED BY <2>1, <2>2
<1> QED BY <1>5, <1>6, <1>7 DEF JobsOK

\* Every step is one of these.
LEMMA JobsMove ==
    ASSUME StoreTypeOK, References, RunnersOK, JobsOK, AgentAssumption, [Next]_vars
    PROVE  JobsOK' /\ \A q \in PlanIds : JobMoves(q)
<1> DEFINE Goal == JobsOK' /\ \A q \in PlanIds : JobMoves(q)
<1> SUFFICES Goal
  OBVIOUS
<1>a. ASSUME adapter' = adapter, launches' = launches PROVE Goal
  BY <1>a, JobsStay
<1>b. \A p \in PlanIds : adapter[p].job = 0 => adapter[p].pc = "off"
  BY DEF JobsOK, OneUse
<1>c. \A p \in PlanIds : Executing(p) => adapter[p].spent
  BY DEF JobsOK, OneUse
<1> HIDE DEF Goal
<1>1. CASE StoreStep /\ Elsewhere
  BY <1>a, <1>1 DEF Elsewhere, remoteVars
<1>2. ASSUME NEW w \in Runners, Dispatch(w) PROVE Goal
  <2> DEFINE p == runner[w].plan
  <2>a. runner[w].pc # "idle" => p \in PlanIds /\ runner[w].job # 0
    BY DEF RunnersOK
  <2>b. runner[w].job \in 0..MaxAttempts
    BY DEF RunnersOK, RunnerRow
  <2>1. ASSUME NEW m \in mail,
               \/ RetryPendingStart(w, m) \/ HoldForReadiness(w, m)
               \/ ClaimReady(w, m) \/ ClaimStopsOnBudget(w, m)
        PROVE  Goal
    BY <1>a, <2>1, Zenon
    DEF RetryPendingStart, HoldForReadiness, ClaimReady, ClaimStopsOnBudget, remoteVars
  <2>2. CASE \/ LoadTargetFails(w) \/ DispatchFailed(w) \/ Attach(w) \/ AttachLost(w)
             \/ RunnerCrashes(w)
    BY <1>a, <2>2, Zenon
    DEF LoadTargetFails, DispatchFailed, Attach, AttachLost, RunnerCrashes, remoteVars
  <2>3. CASE Submit(w) \/ SubmitLost(w)
    <3>1. p \in PlanIds /\ runner[w].job \in 1..MaxAttempts
      BY <2>3, <2>a, <2>b DEF Submit, SubmitLost, AgentAssumption
    <3>2. launches' = launches
      BY <2>3, Zenon DEF Submit, SubmitLost
    <3>3. \/ adapter' = adapter
          \/ adapter[p].job = 0 /\ Job(p, [NoJob EXCEPT !.job = runner[w].job, !.status = "reserved"])
      BY <2>3, Zenon DEF Submit, SubmitLost
    <3> QED BY <1>a, <3>1, <3>2, <3>3, ReservedJob DEF Goal
  <2>4. CASE RevokeReservation(w)
    <3>1. p \in PlanIds /\ adapter[p].job # 0 /\ adapter[p].pc # "gate"
      BY <2>4, <2>a DEF RevokeReservation, JobUnlocked
    <3>2. launches' = launches /\ (adapter' = adapter \/ Job(p, Cancelled(p)))
      BY <2>4 DEF RevokeReservation
    <3> QED BY <1>a, <3>1, <3>2, CancelledJob DEF Goal
  <2>5. CASE Start(w)
    <3>1. p \in PlanIds /\ adapter[p].job # 0 /\ adapter[p].pc # "gate"
      BY <2>5, <2>a DEF Start, JobUnlocked
    <3>2. launches' = launches
      BY <2>5, Zenon DEF Start
    <3>3. \/ adapter' = adapter \/ Job(p, Cancelled(p))
          \/ ~adapter[p].spent /\ Job(p, [adapter[p] EXCEPT !.status = "starting", !.pc = "gate"])
      BY <2>5, Zenon DEF Start
    <3> QED BY <1>a, <3>1, <3>2, <3>3, CancelledJob, StartingJob DEF Goal
  <2> QED BY <1>2, <2>1, <2>2, <2>3, <2>4, <2>5 DEF Dispatch
<1>3. ASSUME NEW m \in mail, CancelJob(m) PROVE Goal
  <2>1. m.plan \in PlanIds /\ m.job # 0
    BY <1>3 DEF CancelJob, References
  <2> QED BY <1>3, <2>1, CancelledJob DEF CancelJob, JobUnlocked, Goal
<1>4. ASSUME NEW p \in PlanIds, AdapterStep(p) PROVE Goal
  <2>1. CASE GateOpens(p)
    BY <2>1, LaunchedJob DEF GateOpens, Goal
  <2>2. CASE GateFails(p)
    BY <2>2, DeniedJob DEF GateFails, Goal
  <2>3. CASE ExecutionStops(p)
    BY <2>3, JobGoesOn DEF ExecutionStops, Goal
  <2>4. CASE HeartbeatFails(p)
    BY <2>4, MarkedJob DEF HeartbeatFails, Goal
  <2>5. CASE ExecutionFails(p)
    <3>1. adapter[p].spent /\ launches' = launches /\ draft' = draft
      BY <2>5, <1>c DEF ExecutionFails
    <3>2. \/ Job(p, Retained(p, "needs_attention"))
          \/ draft = p /\ Job(p, Retained(p, "completed"))
      BY <2>5, Zenon DEF ExecutionFails, Reconciled
    <3> QED BY <3>1, <3>2, RetainedJob DEF Goal
  <2>6. CASE PrePush(p)
    BY <2>6, JobGoesOn DEF PrePush, At, Executing, Goal
  <2>7. CASE RetainCheckpoint(p)
    BY <2>7, MarkedJob DEF RetainCheckpoint, At, Goal
  <2>8. CASE ConfirmCheckpoint(p)
    BY <2>8, JobGoesOn DEF ConfirmCheckpoint, At, Executing, Goal
  <2>9. CASE Push(p) \/ PreDraft(p)
    BY <2>9, JobGoesOn DEF Push, PreDraft, At, Executing, Writing, Goal
  <2>10. CASE CreateDraft(p)
    <3>1. adapter[p].spent /\ launches' = launches /\ draft' = p
      BY <2>10, <1>c DEF CreateDraft, Executing
    <3>2. Job(p, Retained(p, "completed")) \/ adapter' = adapter
      BY <2>10, Zenon DEF CreateDraft
    <3> QED BY <1>a, <3>1, <3>2, RetainedJob DEF Goal
  <2>11. CASE DeliverTerminal(p)
    <3>1. launches' = launches
      BY <2>11, Zenon DEF DeliverTerminal
    <3>2. adapter' = adapter \/ Job(p, [adapter[p] EXCEPT !.settled = TRUE])
      BY <2>11, Zenon DEF DeliverTerminal
    <3> QED BY <1>a, <3>1, <3>2, MarkedJob DEF Goal
  <2>12. CASE Recover(p)
    <3>1. adapter[p].spent /\ launches' = launches /\ draft' = draft
      BY <2>12 DEF Recover, JobsOK, OneUse
    <3>2. \/ Job(p, Retained(p, "needs_attention"))
          \/ draft = p /\ Job(p, Retained(p, "completed"))
      BY <2>12, Zenon DEF Recover, Reconciled
    <3> QED BY <3>1, <3>2, RetainedJob DEF Goal
  <2> QED BY <1>4, <2>1, <2>2, <2>3, <2>4, <2>5, <2>6, <2>7, <2>8, <2>9, <2>10, <2>11, <2>12
          DEF AdapterStep
<1>5. CASE AdapterCrashes
  BY <1>5, CrashedJobs DEF Goal
<1>6. CASE UNCHANGED vars
  BY <1>a, <1>6 DEF vars, remoteVars
<1> QED BY <1>1, <1>2, <1>3, <1>4, <1>5, <1>6 DEF Next

-----------------------------------------------------------------------------
(* The provider and the counted faults.                                    *)

\* The branch is created once and the draft shows what the branch holds.
ProviderMoves ==
    \/ UNCHANGED <<branch, draft>>
    \/ \E p \in PlanIds : Writing(p) /\ branch = 0 /\ branch' = p /\ draft' = draft
    \/ \E p \in PlanIds : branch = p /\ branch' = p /\ draft' = p

FaultRow == [runner : 0..MaxRunnerCrashes, adapter : 0..MaxAdapterCrashes, lost : 0..MaxLost]

LEMMA OthersMove ==
    ASSUME faults \in FaultRow, ExecutionAssumption, [Next]_vars
    PROVE  ProviderMoves /\ faults' \in FaultRow
<1> DEFINE Goal == ProviderMoves /\ faults' \in FaultRow
<1> SUFFICES Goal
  OBVIOUS
<1>a. ASSUME branch' = branch, draft' = draft, faults' = faults \/ Loses PROVE Goal
  <2>1. ASSUME Loses PROVE faults' \in FaultRow
    <3>1. faults.lost + 1 \in 0..MaxLost
      BY <2>1, SMT DEF Loses, FaultRow, ExecutionAssumption
    <3>2. faults' = [faults EXCEPT !.lost = faults.lost + 1]
      BY <2>1 DEF Loses
    <3> QED BY <3>1, <3>2, Zenon DEF FaultRow
  <2> QED BY <1>a, <2>1 DEF ProviderMoves
<1> HIDE DEF Goal
<1>1. CASE StoreStep /\ Elsewhere
  BY <1>a, <1>1 DEF Elsewhere, remoteVars
<1>2. ASSUME NEW w \in Runners, Dispatch(w) PROVE Goal
  <2>1. ASSUME NEW m \in mail,
               \/ RetryPendingStart(w, m) \/ HoldForReadiness(w, m)
               \/ ClaimReady(w, m) \/ ClaimStopsOnBudget(w, m)
        PROVE  Goal
    BY <1>a, <2>1, Zenon
    DEF RetryPendingStart, HoldForReadiness, ClaimReady, ClaimStopsOnBudget, remoteVars
  <2>2. CASE \/ LoadTargetFails(w) \/ Submit(w) \/ SubmitLost(w) \/ DispatchFailed(w)
             \/ Attach(w) \/ AttachLost(w) \/ RevokeReservation(w) \/ Start(w)
    BY <1>a, <2>2, Zenon
    DEF LoadTargetFails, Submit, SubmitLost, DispatchFailed, Attach, AttachLost,
        RevokeReservation, Start, remoteVars
  <2>3. CASE RunnerCrashes(w)
    <3>1. faults.runner + 1 \in 0..MaxRunnerCrashes
      BY <2>3, SMT DEF RunnerCrashes, FaultRow, ExecutionAssumption
    <3>2. faults' = [faults EXCEPT !.runner = faults.runner + 1]
      BY <2>3 DEF RunnerCrashes
    <3>3. faults' \in FaultRow
      BY <3>1, <3>2, Zenon DEF FaultRow
    <3> QED BY <2>3, <3>3 DEF RunnerCrashes, remoteVars, ProviderMoves, Goal
  <2> QED BY <1>2, <2>1, <2>2, <2>3 DEF Dispatch
<1>3. ASSUME NEW m \in mail, CancelJob(m) PROVE Goal
  BY <1>a, <1>3 DEF CancelJob
<1>4. ASSUME NEW p \in PlanIds, AdapterStep(p) PROVE Goal
  <2>1. CASE \/ GateOpens(p) \/ GateFails(p) \/ ExecutionStops(p) \/ HeartbeatFails(p)
             \/ ExecutionFails(p) \/ PrePush(p) \/ RetainCheckpoint(p) \/ ConfirmCheckpoint(p)
    BY <1>a, <2>1, Zenon
    DEF GateOpens, GateFails, ExecutionStops, HeartbeatFails, ExecutionFails, PrePush,
        RetainCheckpoint, ConfirmCheckpoint
  <2>2. CASE PreDraft(p) \/ DeliverTerminal(p) \/ Recover(p)
    BY <1>a, <2>2, Zenon DEF PreDraft, DeliverTerminal, Recover
  <2>3. CASE Push(p)
    BY <2>3 DEF Push, Writing, ProviderMoves, Goal
  <2>4. CASE CreateDraft(p)
    <3>1. branch = p /\ branch' = p /\ draft' = p /\ (faults' = faults \/ Loses)
      BY <2>4, Zenon DEF CreateDraft
    <3>2. ASSUME Loses PROVE faults' \in FaultRow
      <4>1. faults.lost + 1 \in 0..MaxLost
        BY <3>2, SMT DEF Loses, FaultRow, ExecutionAssumption
      <4>2. faults' = [faults EXCEPT !.lost = faults.lost + 1]
        BY <3>2 DEF Loses
      <4> QED BY <4>1, <4>2, Zenon DEF FaultRow
    <3> QED BY <3>1, <3>2 DEF ProviderMoves, Goal
  <2> QED BY <1>4, <2>1, <2>2, <2>3, <2>4 DEF AdapterStep
<1>5. CASE AdapterCrashes
  <2>a. faults.adapter < MaxAdapterCrashes
    BY <1>5, Zenon DEF AdapterCrashes
  <2>1. faults.adapter + 1 \in 0..MaxAdapterCrashes
    BY <2>a, SMT DEF FaultRow, ExecutionAssumption
  <2>2. faults' = [faults EXCEPT !.adapter = faults.adapter + 1]
    BY <1>5 DEF AdapterCrashes
  <2>3. faults' \in FaultRow
    BY <2>1, <2>2, Zenon DEF FaultRow
  <2> QED BY <1>5, <2>3 DEF AdapterCrashes, ProviderMoves, Goal
<1>6. CASE UNCHANGED vars
  BY <1>a, <1>6 DEF vars, remoteVars
<1> QED BY <1>1, <1>2, <1>3, <1>4, <1>5, <1>6 DEF Next

-----------------------------------------------------------------------------
(* The invariants of the composition.                                      *)

LEMMA AttachedKept ==
    ASSUME StoreTypeOK, JobsOK, JobsOK', NEW p \in PlanIds, Attached(p), RowMoves(p), JobMoves(p),
           attempts' \in [PlanIds -> Row], mail \subseteq mail'
    PROVE  Attached(p)'
<1> SUFFICES ASSUME Executing(p)'
             PROVE  /\ attempts'[p].state # "none" /\ attempts'[p].job = adapter'[p].job
                    /\ adapter'[p].ctx /\ attempts'[p].state # "running" =>
                           Message("cancel", 0, p, adapter'[p].job) \in mail'
  BY DEF Attached
<1>a. attempts \in [PlanIds -> Row]
  BY DEF StoreTypeOK, Row
<1>1. CASE ClaimAgentTaskAdapterStart(p, adapter[p].job) /\ adapter[p].job # 0
  <2>1. attempts[p].state = "running" /\ attempts[p].job = adapter[p].job
    BY <1>1 DEF ClaimAgentTaskAdapterStart, StartAllowed, Held
  <2>2. attempts'[p] = [attempts[p] EXCEPT !.started = TRUE]
    BY <1>1, <1>a DEF ClaimAgentTaskAdapterStart
  <2>3. attempts'[p].state = "running" /\ attempts'[p].job = adapter[p].job
    BY <1>a, <2>1, <2>2 DEF Row
  <2>4. adapter'[p].job = adapter[p].job
    BY <1>1 DEF JobMoves
  <2> QED BY <2>3, <2>4
<1>2. CASE Executing(p) /\ (adapter'[p].ctx => adapter[p].ctx)
  <2>1. adapter[p].job # 0 /\ adapter[p].terminal = "none" /\ adapter'[p].job = adapter[p].job
    BY <1>2 DEF JobsOK, OneUse, Executing, JobMoves
  <2>2. attempts[p].state # "none" /\ attempts[p].job = adapter[p].job
    BY <1>2 DEF Attached
  <2>3. attempts'[p].state # "none" /\ attempts'[p].job = adapter'[p].job
    BY <2>1, <2>2 DEF RowMoves
  <2>4. ASSUME adapter'[p].ctx, attempts'[p].state # "running"
        PROVE  Message("cancel", 0, p, adapter'[p].job) \in mail'
    <3>1. CASE attempts[p].state = "running"
      BY <2>1, <2>2, <2>4, <3>1 DEF RowMoves
    <3>2. CASE attempts[p].state # "running"
      BY <1>2, <2>1, <2>4, <3>2 DEF Attached
    <3> QED BY <3>1, <3>2
  <2> QED BY <2>3, <2>4
<1> QED BY <1>1, <1>2 DEF JobMoves

\* A receipt of the control plane is for good.
LEMMA ReceiptKept ==
    ASSUME NEW p \in PlanIds, Receipted(p), RowMoves(p)
    PROVE  Receipted(p)'
BY DEF Receipted, RowMoves

LEMMA ReceiptMade ==
    ASSUME StoreTypeOK, NEW p \in PlanIds, NEW j, j # 0, RecordCheckpoint(p, j)
    PROVE  Receipted(p)'
<1>a. attempts \in [PlanIds -> Row]
  BY DEF StoreTypeOK, Row
<1>1. attempts[p].state = "running" /\ attempts[p].job = j
  BY DEF RecordCheckpoint, EventAccepted, Held
<1>2. attempts'[p] = [attempts[p] EXCEPT !.checkpoint = attempts[p].n]
  BY <1>a DEF RecordCheckpoint
<1>3. attempts'[p].state = "running" /\ attempts'[p].job = j /\ attempts'[p].checkpoint = attempts'[p].n
  BY <1>a, <1>1, <1>2 DEF Row
<1> QED BY <1>3 DEF Receipted

LEMMA PublishedKept ==
    ASSUME StoreTypeOK, Published, ProviderMoves, TaskMoves, branch \in 0..MaxPlans,
           AgentAssumption, \A p \in PlanIds : RowMoves(p) /\ JobMoves(p)
    PROVE  Published'
<1>1. \A p \in PlanIds : Receipted(p) => Receipted(p)'
  BY ReceiptKept
<1>2. ASSUME NEW p \in PlanIds, Writing(p)' PROVE Receipted(p)'
  <2>1. CASE Writing(p)
    BY <1>1, <2>1 DEF Published, Writing
  <2>2. CASE RecordCheckpoint(p, adapter[p].job) /\ adapter[p].job # 0
    BY <2>2, ReceiptMade
  <2> QED BY <1>2, <2>1, <2>2 DEF JobMoves
<1>3. branch # 0 => branch' = branch /\ branch \in PlanIds
  BY DEF ProviderMoves, PlanIds, AgentAssumption
<1>4. draft # 0 => draft' = draft
  BY <1>3 DEF ProviderMoves, Published, PlanIds, AgentAssumption
<1>5. draft' # 0 => draft' = branch'
  BY DEF ProviderMoves, Published, PlanIds, AgentAssumption
<1>6. branch' # 0 => Receipted(branch)'
  <2>1. CASE branch # 0
    BY <1>1, <1>3, <2>1 DEF Published, Receipted
  <2>2. CASE branch = 0 /\ branch' # 0
    <3>1. PICK p \in PlanIds : Writing(p) /\ branch' = p
      BY <2>2 DEF ProviderMoves, PlanIds, AgentAssumption
    <3>2. Receipted(p)'
      BY <1>1, <3>1 DEF Published, Writing
    <3> QED BY <3>1, <3>2 DEF Receipted
  <2> QED BY <2>1, <2>2
<1>7. ASSUME NEW p \in PlanIds, adapter'[p].terminal = "completed" PROVE draft' = p
  BY <1>4, <1>7 DEF JobMoves, Published, PlanIds, AgentAssumption
<1>8. task'.state = "completed" =>
          draft' # 0 /\ draft' = Latest' /\ attempts'[draft'].state = "succeeded"
  <2>1. ASSUME task'.state = "completed", task.state = "completed"
        PROVE  draft' # 0 /\ draft' = Latest' /\ attempts'[draft'].state = "succeeded"
    <3>1. draft # 0 /\ draft = Latest /\ attempts[draft].state = "succeeded" /\ draft' = draft
      BY <1>4, <2>1 DEF Published
    <3>2. draft \in PlanIds
      BY <1>3, <3>1 DEF Published
    <3>3. attempts'[draft].state = "succeeded"
      BY <3>1, <3>2 DEF RowMoves
    <3> QED BY <2>1, <3>1, <3>3 DEF TaskMoves, Latest
  <2>2. ASSUME task'.state = "completed", task.state # "completed"
        PROVE  draft' # 0 /\ draft' = Latest' /\ attempts'[draft'].state = "succeeded"
    <3>1. plans' = plans /\ Latest \in PlanIds /\ adapter[Latest].terminal = "completed"
          /\ attempts'[Latest].state = "succeeded"
      BY <2>2 DEF TaskMoves
    <3>2. draft = Latest /\ draft # 0
      BY <3>1 DEF Published, PlanIds, AgentAssumption
    <3> QED BY <1>4, <3>1, <3>2 DEF Latest
  <2> QED BY <2>1, <2>2
<1> QED BY <1>2, <1>5, <1>6, <1>7, <1>8 DEF Published, Writing

\* The parts of the type invariant and of the inductive one.
LEMMA TypeParts ==
    /\ TypeOK <=> /\ StoreTypeOK /\ runner \in [Runners -> RunnerRow]
                  /\ adapter \in [PlanIds -> JobRow] /\ launches \in [PlanIds -> Nat]
                  /\ branch \in 0..MaxPlans /\ draft \in 0..MaxPlans /\ faults \in FaultRow
    /\ Inv => RunnersOK /\ JobsOK
    /\ TypeOK' <=> /\ StoreTypeOK' /\ runner' \in [Runners -> RunnerRow]
                   /\ adapter' \in [PlanIds -> JobRow] /\ launches' \in [PlanIds -> Nat]
                   /\ branch' \in 0..MaxPlans /\ draft' \in 0..MaxPlans /\ faults' \in FaultRow
<1>1. TypeOK <=> /\ StoreTypeOK /\ runner \in [Runners -> RunnerRow]
                 /\ adapter \in [PlanIds -> JobRow] /\ launches \in [PlanIds -> Nat]
                 /\ branch \in 0..MaxPlans /\ draft \in 0..MaxPlans /\ faults \in FaultRow
  BY DEF TypeOK, RunnerRow, JobRow, FaultRow
<1>2. Inv => RunnersOK /\ JobsOK
  BY <1>1 DEF Inv, RunnersOK, JobsOK, References
<1>3. TypeOK' <=> /\ StoreTypeOK' /\ runner' \in [Runners -> RunnerRow]
                  /\ adapter' \in [PlanIds -> JobRow] /\ launches' \in [PlanIds -> Nat]
                  /\ branch' \in 0..MaxPlans /\ draft' \in 0..MaxPlans /\ faults' \in FaultRow
  BY DEF TypeOK, RunnerRow, JobRow, FaultRow
<1> QED BY <1>1, <1>2, <1>3

LEMMA InvInit == Init => Inv
<1> SUFFICES ASSUME Init PROVE Inv
  OBVIOUS
<1> USE AgentAssumption, ExecutionAssumption
<1>1. StoreInit
  BY DEF Init
<1>2. StoreTypeOK
  <2>1. NoAttempt \in Row
    BY DEF NoAttempt, Row, AttemptStates, AgentAssumption
  <2>2. attempts \in [PlanIds -> Row] /\ plans = <<>> /\ visible = FALSE
    BY <1>1, <2>1 DEF StoreInit
  <2>3. task \in TaskRow
    BY <1>1 DEF StoreInit, TaskRow, TaskStates, Decisions, AgentAssumption
  <2>4. mail \subseteq MailRow
    BY <1>1, MessageType DEF StoreInit, AgentAssumption
  <2>5. plans \in Seq(PlanStates) /\ Len(plans) <= MaxPlans
    BY <2>2 DEF AgentAssumption
  <2>6. Typed
    BY <2>2, <2>3, <2>4, <2>5 DEF Typed
  <2> QED BY <2>6, TypedIsStoreTypeOK
<1>3. NoJob \in JobRow /\ IdleRunner \in RunnerRow
  BY DEF NoJob, JobRow, Statuses, JobPcs, IdleRunner, RunnerRow, RunnerPcs, AgentAssumption
<1>4. adapter = [p \in PlanIds |-> NoJob] /\ runner = [w \in Runners |-> IdleRunner]
      /\ launches = [p \in PlanIds |-> 0] /\ branch = 0 /\ draft = 0
  BY DEF Init
<1>5. faults \in FaultRow
  BY DEF Init, FaultRow, ExecutionAssumption
<1>6. TypeOK
  BY <1>2, <1>3, <1>4, <1>5, TypeParts DEF AgentAssumption
<1>7. \A p \in PlanIds : /\ attempts[p].state = "none" /\ attempts[p].n = 0
                         /\ adapter[p].job = 0 /\ adapter[p].status = "none"
                         /\ adapter[p].pc = "off" /\ ~adapter[p].spent
                         /\ adapter[p].terminal = "none" /\ ~adapter[p].recovered
                         /\ launches[p] = 0
  BY <1>1, <1>4 DEF StoreInit, NoAttempt, NoJob
<1>8. \A w \in Runners : runner[w].pc = "idle"
  BY <1>4 DEF IdleRunner
<1>9. task.state = "received"
  BY <1>1 DEF StoreInit
<1>10. PICK kind \in {"ack", "source"} : mail = {Message(kind, 1, 0, 0)}
  BY <1>1 DEF StoreInit
<1>11. \A m \in mail : m.kind = kind
  BY <1>10 DEF Message
<1>12. References
  BY <1>7, <1>8, <1>11 DEF References
<1>13. AcknowledgedFirst
  BY <1>11 DEF AcknowledgedFirst, SourceReleased
<1>14. ExecutingHasItsAttempt
  BY <1>7, <1>9 DEF ExecutingHasItsAttempt
<1>15. \A p \in PlanIds : OneUse(p) /\ Attached(p)
  BY <1>7 DEF OneUse, Attached, Executing
<1>16. Published
  BY <1>4, <1>7, <1>9 DEF Published
<1> QED BY <1>6, <1>12, <1>13, <1>14, <1>15, <1>16 DEF Inv

LEMMA InvStep == Inv /\ [Next]_vars => Inv'
<1> SUFFICES ASSUME Inv, [Next]_vars PROVE Inv'
  OBVIOUS
<1> USE AgentAssumption, ExecutionAssumption
<1>1. /\ StoreTypeOK /\ RunnersOK /\ JobsOK /\ References /\ AcknowledgedFirst
      /\ ExecutingHasItsAttempt /\ Published /\ faults \in FaultRow
      /\ branch \in 0..MaxPlans /\ draft \in 0..MaxPlans
      /\ \A p \in PlanIds : Attached(p)
  BY TypeParts DEF Inv
<1>2. StoreOp
  BY StoreMoves
<1>3. StoreTypeOK'
  BY <1>1, <1>2, StoreTypes DEF RunnersOK, JobsOK
<1>4. RunnersOK'
  BY <1>1, RunnersMove
<1>5. JobsOK' /\ \A p \in PlanIds : JobMoves(p)
  BY <1>1, JobsMove
<1>6. ProviderMoves /\ faults' \in FaultRow
  BY <1>1, OthersMove
<1>7. branch' \in 0..MaxPlans /\ draft' \in 0..MaxPlans
  BY <1>1, <1>6 DEF ProviderMoves, PlanIds, AgentAssumption
<1>8. TypeOK'
  BY <1>3, <1>4, <1>5, <1>6, <1>7, TypeParts DEF RunnersOK, JobsOK
<1>9. \A p \in PlanIds : RowMoves(p)
  BY <1>1, <1>2, RowsMove
<1>10. /\ mail \subseteq mail' /\ AcknowledgedFirst'
       /\ \A m \in mail' : m.kind = "execute" => m.plan \in PlanIds
       /\ \A m \in mail' : m.kind = "cancel" => m.plan \in PlanIds /\ m.job # 0
  BY <1>1, <1>2, MailMoves
<1>11. \A p \in PlanIds : attempts'[p].state = "none" => attempts'[p].n = 0
  BY <1>1, <1>9 DEF RowMoves, References
<1>12. References'
  BY <1>4, <1>10, <1>11 DEF References, RunnersOK
<1>13. ExecutingHasItsAttempt' /\ TaskMoves
  BY <1>1, <1>2, ExecutionMoves
<1>14. attempts' \in [PlanIds -> Row]
  BY <1>3 DEF StoreTypeOK, Row
<1>15. \A p \in PlanIds : Attached(p)'
  BY <1>1, <1>5, <1>9, <1>10, <1>14, AttachedKept
<1>16. Published'
  BY <1>1, <1>5, <1>6, <1>9, <1>13, PublishedKept
<1> QED BY <1>5, <1>8, <1>10, <1>12, <1>13, <1>15, <1>16 DEF Inv, JobsOK

\* Every state the specification reaches satisfies the invariant.
THEOREM Invariant == Spec => []Inv
BY InvInit, InvStep, PTL DEF Spec

\* However often a request is delivered, a lease taken over, an answer lost or
\* a process restarted, the one-use start gate launches one coding agent for
\* an approved plan.
THEOREM OneLaunchHolds == Spec => []OneLaunchPerPlan
<1>1. Inv => OneLaunchPerPlan
  BY DEF Inv, OneUse, OneLaunchPerPlan
<1> QED BY <1>1, Invariant, PTL

\* ClaimAgentTaskAttempt, CancelAgentTask and every way an attempt ends move
\* the attempt row and its task together: the task executes exactly while the
\* row of its approved latest plan runs.
THEOREM ExecutionHolds == Spec => []ExecutingHasItsAttempt
<1>1. Inv => ExecutingHasItsAttempt
  BY DEF Inv
<1> QED BY <1>1, Invariant, PTL

\* Pipeline.Execute writes to the provider only behind a checkpoint the
\* control plane retained, no claim takes that row over afterwards, and
\* RecordAgentTaskAdapterEvent completes a task for the draft of its latest
\* plan only.
THEOREM PublicationHolds == Spec => []PublishedIsAccountedFor
<1>1. Inv => PublishedIsAccountedFor
  BY DEF Inv, Published, Receipted, PublishedIsAccountedFor
<1> QED BY <1>1, Invariant, PTL

\* Cancellation, the watchdog and a failed dispatch all queue the
\* cancellation of the job whose attempt they end, in the same transaction: a
\* job that still runs has been told, or is going to be.
THEOREM RevocationHolds == Spec => []RevokedJobIsCancelled
<1>1. Inv => RevokedJobIsCancelled
  BY DEF Inv, Attached, RevokedJobIsCancelled
<1> QED BY <1>1, Invariant, PTL

\* queueAgentTaskSourceResolution runs inside the acknowledgement fence and
\* RetryAgentTaskSource asks for the source again only when it had run: a
\* source request of a task asked for on the provider follows its visible
\* acknowledgement.
THEOREM AcknowledgementHolds == Spec => []SourceFollowsAcknowledgement
<1>1. Inv => SourceFollowsAcknowledgement
  <2>1. ASSUME Inv, ResolveQueued PROVE SourceReleased
    BY <2>1 DEF Inv, AcknowledgedFirst, ResolveQueued, SourceReleased
  <2> QED BY <2>1 DEF Inv, AcknowledgedFirst, SourceFollowsAcknowledgement
<1> QED BY <1>1, Invariant, PTL

\* Only the start gate launches.
LEMMA LaunchesMove ==
    ASSUME [Next]_vars
    PROVE  \/ launches' = launches
           \/ \E p \in PlanIds : ClaimAgentTaskAdapterStart(p, adapter[p].job)
<1>1. CASE StoreStep /\ Elsewhere
  BY <1>1 DEF Elsewhere, remoteVars
<1>2. ASSUME NEW w \in Runners, Dispatch(w) PROVE launches' = launches
  BY <1>2, Zenon
  DEF Dispatch, RetryPendingStart, HoldForReadiness, ClaimReady, ClaimStopsOnBudget,
      LoadTargetFails, Submit, SubmitLost, DispatchFailed, Attach, AttachLost, RevokeReservation,
      Start, RunnerCrashes, remoteVars
<1>3. ASSUME NEW m \in mail, CancelJob(m) PROVE launches' = launches
  BY <1>3 DEF CancelJob
<1>4. ASSUME NEW p \in PlanIds, AdapterStep(p)
      PROVE  launches' = launches \/ ClaimAgentTaskAdapterStart(p, adapter[p].job)
  BY <1>4, Zenon
  DEF AdapterStep, GateOpens, GateFails, ExecutionStops, HeartbeatFails, ExecutionFails, PrePush,
      RetainCheckpoint, ConfirmCheckpoint, Push, PreDraft, CreateDraft, DeliverTerminal, Recover
<1>5. CASE AdapterCrashes
  BY <1>5 DEF AdapterCrashes
<1>6. CASE UNCHANGED vars
  BY <1>6 DEF vars, remoteVars
<1> QED BY <1>1, <1>2, <1>3, <1>4, <1>5, <1>6 DEF Next

\* No transition leads out of cancelled, rejected or completed, and the start
\* gate, which needs a running attempt, refuses every job of such a task.
THEOREM StoppedHolds == Spec => StoppedStaysStopped
<1>1. Inv /\ [Next]_vars =>
          [task.state \in {"cancelled", "rejected", "completed"} =>
              task'.state = task.state /\ launches' = launches]_vars
  <2> SUFFICES ASSUME Inv, [Next]_vars, task.state \in {"cancelled", "rejected", "completed"}
               PROVE  task'.state = task.state /\ launches' = launches
    OBVIOUS
  <2>1. StoreTypeOK /\ References /\ ExecutingHasItsAttempt
    BY TypeParts DEF Inv
  <2>2. StoreOp
    BY StoreMoves
  <2>3. TaskMoves
    BY <2>1, <2>2, AgentAssumption, ExecutionMoves
  <2>4. task'.state = task.state
    BY <2>3 DEF TaskMoves
  <2>5. ASSUME NEW p \in PlanIds, ClaimAgentTaskAdapterStart(p, adapter[p].job) PROVE FALSE
    <3>1. attempts[p].state = "running"
      BY <2>5 DEF ClaimAgentTaskAdapterStart, StartAllowed, Held
    <3> QED BY <2>1, <3>1 DEF ExecutingHasItsAttempt
  <2>6. launches' = launches
    BY <2>5, LaunchesMove
  <2> QED BY <2>4, <2>6
<1> QED BY <1>1, Invariant, PTL DEF Spec, StoppedStaysStopped
=============================================================================
