---------------------------- MODULE AgentCampaign ----------------------------
(***************************************************************************)
(* A workspace campaign (store/agent_campaigns.go with                     *)
(* agentcampaign/processor.go): leased scans of its repositories, one      *)
(* approval for the generated plans, pause, resume, retry and cancel, and  *)
(* executions bounded per campaign and per repository.                     *)
(*                                                                         *)
(* A target keeps one task slot, the newest task on its branch: an earlier *)
(* one is terminal before a repair is prepared.  What an attempt does      *)
(* while it runs is AgentExecution's.                                      *)
(***************************************************************************)
EXTENDS Integers, FiniteSets

CONSTANTS
    Repos,          \* repositories of the campaign, one target each
    CmScanners,     \* campaign workers
    CmConcurrency,  \* executions the campaign allows at once
    MaxCampaignActs \* bound: approvals and actions of people

ASSUME CampaignAssumption == CmConcurrency \in Nat \ {0} /\ MaxCampaignActs \in Nat

VARIABLES
    cmState,    \* state of the campaign
    cmActs,     \* its revision, less one
    cmTarget,   \* state, scan attempts, worker and lease of each target
    cmTask,     \* state of the target's task, "none" before the scan
    cmOther,    \* a task of the repository outside the campaign
    cmMail,     \* execution messages not handled yet
    cmScanner   \* the scan a worker runs

cmVars == <<cmState, cmActs, cmTarget, cmTask, cmOther, cmMail, cmScanner>>

maxScans == 3
CmNobody == "nobody"
CmNoScan == [repo |-> CmNobody, attempt |-> 0]
CmCancellable == {"received", "awaiting_approval", "execution_queued", "executing",
                  "needs_attention"}

\* CreateAgentCampaign: every target waits for a scan.
CreateAgentCampaign ==
    /\ cmState = "active" /\ cmActs = 0
    /\ cmTarget = [r \in Repos |->
           [state |-> "scan_queued", attempts |-> 0, worker |-> CmNobody, live |-> FALSE]]
    /\ cmTask = [r \in Repos |-> "none"]
    /\ cmOther = [r \in Repos |-> "execution_queued"]
    /\ cmMail = {}
    /\ cmScanner = [w \in CmScanners |-> CmNoScan]

CmLapsed(t) == t.state = "scanning" /\ ~t.live
\* Every claim first gives up the scans that lapsed three times.
CmExhausted == [r \in Repos |->
    IF CmLapsed(cmTarget[r]) /\ cmTarget[r].attempts >= maxScans
    THEN [cmTarget[r] EXCEPT !.state = "needs_attention"] ELSE cmTarget[r]]
CmScannable(r) ==
    /\ cmState = "active" /\ cmTarget[r].attempts < maxScans
    /\ cmTarget[r].state = "scan_queued" \/ CmLapsed(cmTarget[r])

ClaimAgentCampaignScan(w, r) ==
    /\ cmScanner[w] = CmNoScan /\ CmScannable(r)
    /\ LET n == cmTarget[r].attempts + 1 IN
       /\ cmTarget' = [CmExhausted EXCEPT ![r] =
              [state |-> "scanning", attempts |-> n, worker |-> w, live |-> TRUE]]
       /\ cmScanner' = [cmScanner EXCEPT ![w] = [repo |-> r, attempt |-> n]]
    /\ UNCHANGED <<cmState, cmActs, cmTask, cmOther, cmMail>>

\* Nothing to claim: the exhausted scans are given up all the same.
ExhaustCampaignScans ==
    /\ \A r \in Repos : ~CmScannable(r)
    /\ CmExhausted # cmTarget /\ cmTarget' = CmExhausted
    /\ UNCHANGED <<cmState, cmActs, cmTask, cmOther, cmMail, cmScanner>>

\* The lease passes before the worker finished, or the worker died: the
\* process that comes back has the same name and no scan.
CmLeaseLapses(r) ==
    /\ cmTarget[r].state = "scanning" /\ cmTarget[r].live
    /\ cmTarget' = [cmTarget EXCEPT ![r].live = FALSE]
    /\ UNCHANGED <<cmState, cmActs, cmTask, cmOther, cmMail, cmScanner>>
CmWorkerDies(w) ==
    /\ cmScanner[w] # CmNoScan
    /\ cmScanner' = [cmScanner EXCEPT ![w] = CmNoScan]
    /\ UNCHANGED <<cmState, cmActs, cmTarget, cmTask, cmOther, cmMail>>

\* What a scan can end in: nothing to plan, a plan with its task, a request
\* that is not for a person to approve (a task without a plan), a failure.
CmResults == {<<"scan_complete", "none">>, <<"plan_ready", "awaiting_approval">>,
              <<"needs_attention", "received">>, <<"needs_attention", "none">>}
FinishAgentCampaignScan(w, result) ==
    LET r == cmScanner[w].repo
        t == cmTarget[r] IN
    /\ cmScanner[w] # CmNoScan
    /\ cmScanner' = [cmScanner EXCEPT ![w] = CmNoScan]
    /\ IF /\ t.state = "scanning" /\ t.worker = w /\ t.live
          /\ t.attempts = cmScanner[w].attempt /\ cmState # "cancelled"
       THEN /\ cmTarget' = [cmTarget EXCEPT ![r] =
                   [@ EXCEPT !.state = result[1], !.worker = CmNobody, !.live = FALSE]]
            /\ cmTask' = [cmTask EXCEPT ![r] = result[2]]
       ELSE UNCHANGED <<cmTarget, cmTask>>
    /\ UNCHANGED <<cmState, cmActs, cmOther, cmMail>>

CmPending == \E r \in Repos : cmTarget[r].state \in {"scan_queued", "scanning"}
\* approveAgentTaskPlanTx for a task of a campaign.
CmApprovable(r) == cmState = "active" /\ ~CmPending /\ cmTask[r] = "awaiting_approval"

\* Mutant: the approval of one plan does not ask the campaign.
ApproveCampaignPlansUnasked(plans) ==
    /\ plans # {} /\ cmActs < MaxCampaignActs
    /\ \A r \in plans : cmTask[r] = "awaiting_approval"
    /\ cmTask' = [r \in Repos |-> IF r \in plans THEN "execution_queued" ELSE cmTask[r]]
    /\ cmMail' = cmMail \cup plans
    /\ cmActs' = cmActs + 1
    /\ UNCHANGED <<cmState, cmTarget, cmOther, cmScanner>>

\* All plans of the request or none of them.
ApproveAgentCampaign(plans) ==
    /\ plans # {} /\ cmActs < MaxCampaignActs
    /\ \A r \in plans : CmApprovable(r)
    /\ cmTask' = [r \in Repos |-> IF r \in plans THEN "execution_queued" ELSE cmTask[r]]
    /\ cmMail' = cmMail \cup plans
    /\ cmActs' = cmActs + 1
    /\ UNCHANGED <<cmState, cmTarget, cmOther, cmScanner>>

\* A task that stopped gets the next revision of its plan, to be approved.
prepareCampaignRetryPlans == [r \in Repos |->
    IF cmTask[r] \in {"needs_attention", "failed"} THEN "awaiting_approval" ELSE cmTask[r]]
CmRequeued == [r \in Repos |->
    IF /\ cmTarget[r].state = "needs_attention" /\ cmTask[r] = "none"
       /\ cmTarget[r].attempts < maxScans
    THEN [cmTarget[r] EXCEPT !.state = "scan_queued"] ELSE cmTarget[r]]
CmCancelledTargets == [r \in Repos |->
    IF cmTarget[r].state \in {"scan_queued", "scanning", "plan_ready", "needs_attention"}
    THEN [cmTarget[r] EXCEPT !.state = "cancelled", !.worker = CmNobody, !.live = FALSE]
    ELSE cmTarget[r]]

ActAgentCampaign(action) ==
    /\ cmState # "cancelled" /\ cmActs < MaxCampaignActs
    /\ cmActs' = cmActs + 1
    /\ \/ /\ action = "pause" /\ cmState' = "paused"
          /\ UNCHANGED <<cmTarget, cmTask>>
       \/ /\ action = "resume" /\ cmState' = "active"
          /\ UNCHANGED <<cmTarget, cmTask>>
       \/ /\ action = "retry_failed" /\ cmState' = cmState
          /\ cmTarget' = CmRequeued /\ cmTask' = prepareCampaignRetryPlans
       \/ /\ action = "cancel" /\ cmState' = "cancelled"
          /\ cmTarget' = CmCancelledTargets
          /\ cmTask' = [r \in Repos |->
                IF cmTask[r] \in CmCancellable THEN "cancelled" ELSE cmTask[r]]
    /\ UNCHANGED <<cmOther, cmMail, cmScanner>>

\* Mutant: the scheduler never publishes again.
ScheduleNoExecutions ==
    /\ cmMail # cmMail \cup {r \in Repos : cmTask[r] = "execution_queued"}
    /\ UNCHANGED cmVars

\* The durable scheduler publishes what is approved and still queued again.
ScheduleAgentCampaignExecutions ==
    /\ cmState = "active"
    /\ cmMail' = cmMail \cup {r \in Repos : cmTask[r] = "execution_queued"}
    /\ cmMail' # cmMail
    /\ UNCHANGED <<cmState, cmActs, cmTarget, cmTask, cmOther, cmScanner>>

CmRunning == {r \in Repos : cmTask[r] = "executing"}
campaignExecutionAllowed(r) ==
    /\ cmState = "active"
    /\ Cardinality(CmRunning) < CmConcurrency
    /\ cmOther[r] # "executing"

\* ClaimAgentTaskAttempt of a campaign's task: refused or not, the broker's
\* message is acknowledged.
ClaimCampaignExecution(r) ==
    /\ r \in cmMail
    /\ cmMail' = cmMail \ {r}
    /\ cmTask' = IF cmTask[r] = "execution_queued" /\ campaignExecutionAllowed(r)
                 THEN [cmTask EXCEPT ![r] = "executing"] ELSE cmTask
    /\ UNCHANGED <<cmState, cmActs, cmTarget, cmOther, cmScanner>>

\* Mutant: tasks outside a campaign do not wait for it.
ClaimOtherUnasked(r) ==
    /\ cmOther[r] = "execution_queued"
    /\ cmOther' = [cmOther EXCEPT ![r] = "executing"]
    /\ UNCHANGED <<cmState, cmActs, cmTarget, cmTask, cmMail, cmScanner>>

\* ClaimAgentTaskAttempt of another task: it waits for the campaign's.
ClaimOtherExecution(r) ==
    /\ cmOther[r] = "execution_queued" /\ cmTask[r] # "executing"
    /\ cmOther' = [cmOther EXCEPT ![r] = "executing"]
    /\ UNCHANGED <<cmState, cmActs, cmTarget, cmTask, cmMail, cmScanner>>

\* An attempt ends: in a draft, or stopped for a person.
CmAttemptEnds(r) ==
    \/ /\ cmTask[r] = "executing"
       /\ \E end \in {"proposed", "needs_attention"} : cmTask' = [cmTask EXCEPT ![r] = end]
       /\ UNCHANGED <<cmState, cmActs, cmTarget, cmOther, cmMail, cmScanner>>
    \/ /\ cmOther[r] = "executing"
       /\ cmOther' = [cmOther EXCEPT ![r] = "proposed"]
       /\ UNCHANGED <<cmState, cmActs, cmTarget, cmTask, cmMail, cmScanner>>

\* prepareAgentRepairTx: a draft asks for a repair, whose plan is to be
\* approved.  The campaign is read without a lock, so the child may commit
\* after a cancellation; "repairing" is a proposed task between the two.
CmRepairBegins(r) ==
    /\ cmTask[r] = "proposed" /\ cmState # "cancelled" /\ cmActs < MaxCampaignActs
    /\ cmTask' = [cmTask EXCEPT ![r] = "repairing"]
    /\ UNCHANGED <<cmState, cmActs, cmTarget, cmOther, cmMail, cmScanner>>
CmRepairCommits(r) ==
    /\ cmTask[r] = "repairing"
    /\ cmTask' = [cmTask EXCEPT ![r] = "awaiting_approval"]
    /\ UNCHANGED <<cmState, cmActs, cmTarget, cmOther, cmMail, cmScanner>>

CmNext ==
    \/ \E w \in CmScanners :
          \/ \E r \in Repos : ClaimAgentCampaignScan(w, r)
          \/ \E result \in CmResults : FinishAgentCampaignScan(w, result)
          \/ CmWorkerDies(w)
    \/ ExhaustCampaignScans \/ ScheduleAgentCampaignExecutions
    \/ \E plans \in SUBSET Repos : ApproveAgentCampaign(plans)
    \/ \E action \in {"pause", "resume", "retry_failed", "cancel"} : ActAgentCampaign(action)
    \/ \E r \in Repos :
          \/ CmLeaseLapses(r) \/ ClaimCampaignExecution(r) \/ ClaimOtherExecution(r)
          \/ CmAttemptEnds(r)
          \/ CmRepairBegins(r) \/ CmRepairCommits(r)

-----------------------------------------------------------------------------
\* The limits of campaignExecutionAllowedTx hold across every claim path: the
\* campaign never runs more than its concurrency, and while it runs in a
\* repository nothing else does.
CampaignWithinLimits ==
    /\ Cardinality(CmRunning) <= CmConcurrency
    /\ \A r \in CmRunning : cmOther[r] # "executing"

\* A cancelled campaign is quiet: none of its tasks runs or waits to run,
\* whatever scan, approval, repair or message was under way.
CancelledCampaignIsQuiet ==
    cmState = "cancelled" =>
        \A r \in Repos : cmTask[r] \notin {"execution_queued", "executing"}

\* "Broker delivery can be acknowledged when a batch is paused or full":
\* approved work is not lost with its message.  It leaves the queue, unless
\* the campaign stays paused.
ApprovedWorkStarts ==
    \A r \in Repos :
        cmTask[r] = "execution_queued" ~> (cmTask[r] # "execution_queued" \/ cmState = "paused")
=============================================================================
