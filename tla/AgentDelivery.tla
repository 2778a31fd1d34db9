---------------------------- MODULE AgentDelivery ----------------------------
(***************************************************************************)
(* What happens to the draft of an agent branch after it was delivered:    *)
(* the acceptance rows of internal/store/agent_workflow.go, the repairs of *)
(* agent_review_repair.go, feedback comments, the recovery of unverified   *)
(* publications and the monitor of internal/agentworkflow/processor.go.    *)
(*                                                                         *)
(* The tasks of one branch are numbered in the order of their creation,    *)
(* and a commit by the task that produced it.  Execution is reduced to the *)
(* push under publicationBranchLease and its outcome (AgentExecution has   *)
(* the detail).  Every decision below is made on the current row: one made *)
(* on an older revision is refused.  Whether an observation is at most two *)
(* minutes old is left open.                                               *)
(***************************************************************************)
EXTENDS Integers, Sequences, FiniteSets

CONSTANTS
    Monitors,       \* delivery monitor processes
    MaxRevisions,   \* bound: tasks of the branch
    MaxDecisions,   \* bound: decisions about one commit
    MaxReadFailures \* bound: provider reads that fail and leases that overrun

ASSUME DeliveryAssumption ==
    MaxRevisions \in Nat \ {0} /\ MaxDecisions \in Nat /\ MaxReadFailures \in Nat

VARIABLES
    dlTask,     \* the tasks of the branch
    dlAcc,      \* agent_task_acceptances, by task
    dlRecovery, \* agent_task_publication_recoveries, by task
    dlKeys,     \* internal_repair_key of the feedback cycles
    dlHead,     \* commit at the head of the branch on the provider
    dlDraft,    \* state of the draft on the provider
    dlReview,   \* outcome of the newest review run of each commit
    dlMonitor,  \* what each monitor is doing
    dlFailures  \* failed provider reads so far

dlVars == <<dlTask, dlAcc, dlRecovery, dlKeys, dlHead, dlDraft, dlReview,
            dlMonitor, dlFailures>>

DlTasks == 1..MaxRevisions
DlForeign == MaxRevisions + 1 \* a commit nobody here made
DlMaxDepth == 3               \* feedback depth, agent_review_repair.go:66
DlMaxReads == 3               \* provider reads of one recovery

\* What the observer of the independent checks reports of a commit, at the
\* time it is asked: it may be asked to observe again at any time.
DlChecks == {"queued", "passed", "failed", "exhausted"}

DlNoTask == [state |-> "none", cycle |-> 0, base |-> 0, pushed |-> FALSE]
DlNoAcc == [state |-> "none", decision |-> "none", decisions |-> 0,
            fresh |-> FALSE, by |-> "none"]
DlNoRecovery == [state |-> "none", reads |-> 0, by |-> "none"]
DlIdle == [pc |-> "idle", task |-> 0, head |-> 0, draft |-> "none"]

DlInit ==
    /\ dlTask = [t \in DlTasks |-> IF t = 1 THEN [DlNoTask EXCEPT !.state = "active"] ELSE DlNoTask]
    /\ dlAcc = [t \in DlTasks |-> DlNoAcc]
    /\ dlRecovery = [t \in DlTasks |-> DlNoRecovery]
    /\ dlKeys = {}
    /\ dlHead = 0 /\ dlDraft = "open"
    /\ dlReview = [t \in DlTasks |-> "none"]
    /\ dlMonitor = [w \in Monitors |-> DlIdle]
    /\ dlFailures = 0

DlLive(t) == dlTask[t].state \in {"active", "unverified", "completed"}
DlNewer(t) == \E u \in DlTasks : u > t /\ DlLive(u)

-----------------------------------------------------------------------------
(* Delivery.                                                               *)

\* The provider checks the lease with the push: a first task creates the
\* branch, a feedback task moves it from the head it was admitted for.
DlPush(t) ==
    /\ dlTask[t].state = "active" /\ ~dlTask[t].pushed /\ dlHead = dlTask[t].base
    /\ dlHead' = t
    /\ dlTask' = [dlTask EXCEPT ![t].pushed = TRUE]
    /\ UNCHANGED <<dlAcc, dlRecovery, dlKeys, dlDraft, dlReview, dlMonitor,
                   dlFailures>>

\* Every acceptance of the branch but the new one is superseded.
recordAgentDelivery(t) ==
    dlAcc' = [u \in DlTasks |->
                 CASE u = t /\ dlAcc[u].state = "none" ->
                        [DlNoAcc EXCEPT !.state = "reviewing"]
                   [] u # t /\ dlAcc[u].state \notin {"none", "superseded"} ->
                        [dlAcc[u] EXCEPT !.state = "superseded"]
                   [] OTHER -> dlAcc[u]]

DlDelivered(t) ==
    /\ dlTask[t].state = "active" /\ dlTask[t].pushed
    /\ dlTask' = [dlTask EXCEPT ![t].state = "completed"]
    /\ recordAgentDelivery(t)
    /\ UNCHANGED <<dlRecovery, dlKeys, dlHead, dlDraft, dlReview, dlMonitor,
                   dlFailures>>

\* The adapter stopped at its publication, or the task ended before it.
DlNotDelivered(t) ==
    /\ dlTask[t].state = "active"
    /\ dlTask' = [dlTask EXCEPT ![t].state = IF dlTask[t].pushed /\ t # 1 THEN "unverified"
                                             ELSE "stopped"]
    /\ UNCHANGED <<dlAcc, dlRecovery, dlKeys, dlHead, dlDraft, dlReview,
                   dlMonitor, dlFailures>>

\* A person pushes to the branch or closes the draft.
DlOutside ==
    /\ \/ dlHead \in DlTasks /\ dlHead' = DlForeign /\ UNCHANGED dlDraft
       \/ dlDraft = "open" /\ dlDraft' = "closed" /\ UNCHANGED dlHead
    /\ UNCHANGED <<dlTask, dlAcc, dlRecovery, dlKeys, dlReview, dlMonitor, dlFailures>>

\* The review of a commit ends: completed, or failed or with blocking findings.
DlReviewed(t, outcome) ==
    /\ dlReview[t] = "running"
    /\ dlReview' = [dlReview EXCEPT ![t] = outcome]
    /\ UNCHANGED <<dlTask, dlAcc, dlRecovery, dlKeys, dlHead, dlDraft, dlMonitor, dlFailures>>

-----------------------------------------------------------------------------
(* New tasks on the branch.                                                *)

DlUsed == {t \in DlTasks : dlTask[t].state # "none"}
DlChild(parent, rejected) ==
    [dlTask EXCEPT ![Cardinality(DlUsed) + 1] =
        [DlNoTask EXCEPT !.state = IF rejected THEN "stopped" ELSE "active",
                         !.cycle = dlTask[parent].cycle + 1, !.base = parent]]

\* prepareAgentRepairTx: depth, key, and nobody else at work.
DlRepairable(t, key) ==
    /\ dlTask[t].cycle < DlMaxDepth /\ key \notin dlKeys
    /\ \A u \in DlTasks \ {t} : dlTask[u].state \notin {"active", "unverified"}
    /\ Cardinality(DlUsed) < MaxRevisions

\* The policy, the campaign or the branch budget may stop it too.
prepareAgentRepair(t, key) ==
    \/ /\ DlRepairable(t, key)
       /\ dlKeys' = dlKeys \cup {key}
       /\ \E rejected \in BOOLEAN : dlTask' = DlChild(t, rejected)
    \/ UNCHANGED <<dlTask, dlKeys>>

\* A comment on the draft, for its latest completed task.  It does not ask
\* whether somebody is at work on the branch.
ProcessAgentTaskFeedback ==
    \E t \in DlTasks :
        /\ dlTask[t].state = "completed"
        /\ \A u \in DlTasks : dlTask[u].state = "completed" => u <= t
        /\ dlTask[t].cycle < DlMaxDepth /\ Cardinality(DlUsed) < MaxRevisions
        /\ \E rejected \in BOOLEAN : dlTask' = DlChild(t, rejected)
        /\ UNCHANGED <<dlAcc, dlRecovery, dlKeys, dlHead, dlDraft, dlReview,
                       dlMonitor, dlFailures>>

-----------------------------------------------------------------------------
(* The monitor's observation of a delivered commit.                        *)

ClaimAgentWorkflow(w, t) ==
    /\ dlMonitor[w].pc = "idle" /\ dlAcc[t].state \notin {"none", "superseded"}
    /\ dlAcc[t].by = "none"
    /\ dlAcc' = [dlAcc EXCEPT ![t].by = w]
    /\ dlMonitor' = [dlMonitor EXCEPT ![w] = [DlIdle EXCEPT !.pc = "observe", !.task = t]]
    /\ UNCHANGED <<dlTask, dlRecovery, dlKeys, dlHead, dlDraft, dlReview,
                   dlFailures>>

\* An observation is then written down, a recovery proved.
DlAfterRead(w) == IF dlMonitor[w].pc = "observe" THEN "finish" ELSE "prove"

\* readDraft answers with what the provider shows now, and the review of the
\* exact head is requested when there is none (EnsureAgentRereview).
ReadDraft(w) ==
    LET t == dlMonitor[w].task IN
    /\ dlMonitor[w].pc \in {"observe", "recover"}
    /\ dlMonitor' = [dlMonitor EXCEPT ![w] = [@ EXCEPT !.pc = DlAfterRead(w), !.head = dlHead,
                                                       !.draft = dlDraft]]
    /\ dlReview' = IF dlMonitor[w].pc = "observe" /\ dlHead = t /\ dlDraft # "closed"
                      /\ dlReview[t] = "none"
                   THEN [dlReview EXCEPT ![t] = "running"] ELSE dlReview
    /\ UNCHANGED <<dlTask, dlAcc, dlRecovery, dlKeys, dlHead, dlDraft,
                   dlFailures>>

\* The provider, the credential or the review admission is unavailable.
ReadDraftFails(w) ==
    /\ dlMonitor[w].pc \in {"observe", "recover"} /\ dlFailures < MaxReadFailures
    /\ dlFailures' = dlFailures + 1
    /\ dlMonitor' = [dlMonitor EXCEPT ![w] = [@ EXCEPT !.pc = DlAfterRead(w),
                                                       !.draft = "unavailable"]]
    /\ UNCHANGED <<dlTask, dlAcc, dlRecovery, dlKeys, dlHead, dlDraft, dlReview>>

\* The state an observation ends in.
DlObserved(t, head, draft, checks) ==
    LET state == CASE dlReview[t] = "blocked" -> "checks_failed"
                   [] dlReview[t] = "success" /\ checks = "passed" -> "awaiting_acceptance"
                   [] dlReview[t] = "success" /\ checks = "exhausted" -> "needs_attention"
                   [] dlReview[t] = "success" /\ checks = "failed" -> "checks_failed"
                   [] OTHER -> "reviewing" IN
    IF draft = "unavailable" THEN "needs_attention"
    ELSE IF head # t THEN "superseded"
    ELSE IF draft = "closed" THEN "changes_requested"
    ELSE IF state = "awaiting_acceptance" /\ dlAcc[t].decision # "none" THEN dlAcc[t].decision
    ELSE state

\* Which repair, if any, the observation prepares.
DlRepairKey(t) ==
    IF dlAcc[t].decision = "changes_requested" THEN <<"acceptance", t, dlAcc[t].decisions>>
    ELSE IF dlReview[t] = "blocked" THEN <<"review", t, 0>> ELSE <<"ci", t, 0>>

FinishAgentWorkflowObservation(w) ==
    LET t == dlMonitor[w].task
        seen == dlMonitor[w] IN
    \E checks \in DlChecks : LET state == DlObserved(t, seen.head, seen.draft, checks) IN
    /\ dlMonitor[w].pc = "finish"
    /\ dlMonitor' = [dlMonitor EXCEPT ![w] = DlIdle]
    /\ IF dlAcc[t].by # w THEN UNCHANGED <<dlAcc, dlTask, dlKeys>>
       ELSE /\ dlAcc' = [dlAcc EXCEPT ![t] =
                  [@ EXCEPT !.state = state, !.by = "none",
                            !.fresh = seen.draft # "unavailable" /\ seen.head = t]]
            /\ IF /\ seen.head = t /\ seen.draft = "open"
                  /\ \/ dlAcc[t].decision = "changes_requested"
                     \/ state = "checks_failed" /\ dlAcc[t].decision = "none"
               THEN prepareAgentRepair(t, DlRepairKey(t))
               ELSE UNCHANGED <<dlTask, dlKeys>>
    /\ UNCHANGED <<dlRecovery, dlHead, dlDraft, dlReview, dlFailures>>

\* The 60 second lease of a claim runs out under a slow monitor.
DlLeaseLapses(t) ==
    /\ dlFailures < MaxReadFailures /\ dlFailures' = dlFailures + 1
    /\ \/ dlAcc[t].by # "none" /\ dlAcc' = [dlAcc EXCEPT ![t].by = "none"] /\ UNCHANGED dlRecovery
       \/ /\ dlRecovery[t].by # "none"
          /\ dlRecovery' = [dlRecovery EXCEPT ![t].by = "none"] /\ UNCHANGED dlAcc
    /\ UNCHANGED <<dlTask, dlKeys, dlHead, dlDraft, dlReview, dlMonitor>>

-----------------------------------------------------------------------------
(* Decisions of an owner.                                                  *)

DlDecidable(t, decision) ==
    /\ dlAcc[t].decisions < MaxDecisions
    /\ dlAcc[t].state \in {"awaiting_acceptance", "checks_failed", "changes_requested"}
    /\ decision = "accepted" =>
          /\ dlAcc[t].state = "awaiting_acceptance" /\ dlAcc[t].fresh
          /\ dlReview[t] = "success"

\* Mutant: a decision is not fenced by a newer task of the branch.
DecideUnfenced(t, decision) ==
    /\ DlDecidable(t, decision)
    /\ dlAcc' = [dlAcc EXCEPT ![t].state = decision, ![t].decision = decision,
                              ![t].decisions = @ + 1]
    /\ UNCHANGED <<dlTask, dlKeys, dlRecovery, dlHead, dlDraft, dlReview,
                   dlMonitor, dlFailures>>

DecideAgentTaskAcceptance(t, decision) ==
    /\ DlDecidable(t, decision) /\ ~DlNewer(t)
    /\ dlAcc' = [dlAcc EXCEPT ![t].state = decision, ![t].decision = decision,
                              ![t].decisions = @ + 1]
    /\ IF decision = "changes_requested" /\ dlAcc[t].fresh /\ dlDraft = "open"
       THEN prepareAgentRepair(t, <<"acceptance", t, dlAcc[t].decisions + 1>>)
       ELSE UNCHANGED <<dlTask, dlKeys>>
    /\ UNCHANGED <<dlRecovery, dlHead, dlDraft, dlReview, dlMonitor,
                   dlFailures>>

-----------------------------------------------------------------------------
(* Recovery of an unverified publication.                                  *)

DlRecoverable(t) == dlTask[t].state = "unverified" /\ ~DlNewer(t)

ClaimAgentPublicationRecovery(w, t) ==
    /\ dlMonitor[w].pc = "idle" /\ dlRecovery[t].by = "none"
    /\ \/ dlRecovery[t].state = "none" /\ DlRecoverable(t)
       \/ dlRecovery[t].state = "queued"
    /\ IF dlRecovery[t].reads < DlMaxReads
       THEN /\ dlRecovery' = [dlRecovery EXCEPT ![t] = [state |-> "queued", reads |-> @.reads + 1,
                                                        by |-> w]]
            /\ dlMonitor' = [dlMonitor EXCEPT ![w] = [DlIdle EXCEPT !.pc = "recover", !.task = t]]
       ELSE dlRecovery' = [dlRecovery EXCEPT ![t].state = "rejected"] /\ UNCHANGED dlMonitor
    /\ UNCHANGED <<dlTask, dlAcc, dlKeys, dlHead, dlDraft, dlReview,
                   dlFailures>>

\* Confirmed only while the commit still is the head of the open draft and no
\* newer task fences it.
FinishAgentPublicationRecovery(w) ==
    LET t == dlMonitor[w].task
        seen == dlMonitor[w]
        again == \/ seen.draft = "unavailable"
                 \/ seen.draft = "open" /\ seen.head = dlTask[t].base IN
    /\ dlMonitor[w].pc = "prove"
    /\ dlMonitor' = [dlMonitor EXCEPT ![w] = DlIdle]
    /\ CASE dlRecovery[t].by # w \/ dlRecovery[t].state # "queued" ->
                UNCHANGED <<dlRecovery, dlTask, dlAcc>>
         [] dlRecovery[t].by = w /\ DlRecoverable(t) /\ seen.draft = "open" /\ seen.head = t ->
                /\ dlRecovery' = [dlRecovery EXCEPT ![t].state = "verified", ![t].by = "none"]
                /\ dlTask' = [dlTask EXCEPT ![t].state = "completed"]
                /\ recordAgentDelivery(t)
         [] OTHER ->
                /\ dlRecovery' = [dlRecovery EXCEPT ![t].by = "none", ![t].state =
                      IF DlRecoverable(t) /\ again /\ dlRecovery[t].reads < DlMaxReads
                      THEN "queued" ELSE "rejected"]
                /\ UNCHANGED <<dlTask, dlAcc>>
    /\ UNCHANGED <<dlKeys, dlHead, dlDraft, dlReview, dlFailures>>

-----------------------------------------------------------------------------
DlObserve(w) ==
    \/ \E t \in DlTasks : ClaimAgentWorkflow(w, t) \/ ClaimAgentPublicationRecovery(w, t)
    \/ ReadDraft(w) \/ ReadDraftFails(w)
    \/ FinishAgentWorkflowObservation(w) \/ FinishAgentPublicationRecovery(w)

DlNext ==
    \/ \E t \in DlTasks : \/ DlPush(t) \/ DlDelivered(t) \/ DlNotDelivered(t)
                          \/ DlLeaseLapses(t)
                          \/ \E o \in {"success", "blocked"} : DlReviewed(t, o)
                          \/ \E d \in {"accepted", "changes_requested"} :
                                DecideAgentTaskAcceptance(t, d)
    \/ DlOutside \/ ProcessAgentTaskFeedback
    \/ \E w \in Monitors : DlObserve(w)

-----------------------------------------------------------------------------
\* A monitor that read the branch before a newer delivery writes its stale
\* verdict over "superseded"; still nobody accepts a commit that a recorded
\* delivery of the branch has replaced.
AcceptedIsNewest ==
    \A t \in DlTasks :
        dlAcc'[t].decision = "accepted" /\ dlAcc[t].decision # "accepted" =>
            /\ \A u \in DlTasks : u > t => dlAcc[u].state = "none"
            /\ dlReview[t] = "success"
=============================================================================
