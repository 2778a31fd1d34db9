----------------------------- MODULE RuleRollout -----------------------------
(***************************************************************************)
(* How a new version of a rule set comes to decide reviews: its approval   *)
(* (store/rules.go), its binding beside the active one, the shadow rollout *)
(* whose replays are compared (store/rule_tests.go, rulelab) and the       *)
(* staged canary with its monitor (store/rule_rollouts.go,                 *)
(* rule_rollout_monitor.go).                                               *)
(*                                                                         *)
(* One rule set in one scope.  The baseline version is bound and active.   *)
(* The rollout rows carry updated_at, which every change of state or stage *)
(* moves; the evidence of a stage are the candidate runs created since.    *)
(* Runs that ended well before the stage began are read by nothing, and    *)
(* are dropped.                                                            *)
(***************************************************************************)
EXTENDS Integers, Sequences, FiniteSets

CONSTANTS
    Managers,       \* subjects that may manage rules
    MaxCanaryRuns,  \* bound: candidate runs that matter at a time
    MaxRuleEdits,   \* bound: pauses, resumptions and binding changes
    MaxReplays,     \* bound: claims of the shadow replay
    RollbackAfter   \* auto_rollback_failed_runs

ASSUME RolloutAssumption ==
    /\ MaxCanaryRuns \in Nat \ {0} /\ MaxRuleEdits \in Nat /\ MaxReplays \in Nat
    /\ RollbackAfter \in Nat \ {0}

VARIABLES
    rlVersion,  \* the candidate version: its state, and the votes on it
    rlBinding,  \* state of the two bindings
    rlShadow,   \* the shadow rollout
    rlReplay,   \* the replay that compares candidate and baseline
    rlCanary,   \* the canary rollout: state, stage, author
    rlRuns,     \* runs that the candidate decides: created since updated_at or
                \* before, state, and the history whether a stage lost sight of it
    rlAdmission,\* an admission transaction under way: since updated_at or before
    rlEdits     \* pauses, resumptions and binding changes so far

rlVars == <<rlVersion, rlBinding, rlShadow, rlReplay, rlCanary, rlRuns, rlAdmission, rlEdits>>

RlNobody == "nobody"
RlPending == "pending"
RlNoRun == [state |-> "none", fresh |-> FALSE, lost |-> FALSE]
RlRunIds == 1..MaxCanaryRuns

RlInit ==
    /\ rlVersion = [state |-> "draft", by |-> RlNobody, votes |-> {}]
    /\ rlBinding = [baseline |-> "active", candidate |-> "none"]
    /\ rlShadow = [state |-> "none", by |-> RlNobody]
    /\ rlReplay = [state |-> "none", attempt |-> 0, live |-> FALSE]
    /\ rlCanary = [state |-> "none", by |-> RlNobody, stage |-> 0]
    /\ rlRuns = [r \in RlRunIds |-> RlNoRun] /\ rlAdmission = "none" /\ rlEdits = 0

-----------------------------------------------------------------------------
(* Approval and binding.                                                   *)

RequestRuleApproval(s) ==
    /\ rlVersion.state = "draft"
    /\ rlVersion' = [state |-> "in_review", by |-> s, votes |-> {}]
    /\ UNCHANGED <<rlBinding, rlShadow, rlReplay, rlCanary, rlRuns, rlAdmission, rlEdits>>

\* One vote per approver; the requester's own counts only where the workspace
\* allows it.  The required number of approvals is a choice of the requester.
DecideRuleApproval(s, decision, enough) ==
    /\ rlVersion.state = "in_review" /\ s \notin rlVersion.votes
    /\ rlVersion' =
         CASE decision = "rejected" -> [rlVersion EXCEPT !.state = "draft"]
           [] decision = "approved" /\ enough -> [rlVersion EXCEPT !.state = "approved"]
           [] OTHER -> [rlVersion EXCEPT !.votes = @ \cup {s}]
    /\ (decision = "rejected" => rlEdits < MaxRuleEdits)
    /\ rlEdits' = IF decision = "rejected" THEN rlEdits + 1 ELSE rlEdits
    /\ UNCHANGED <<rlBinding, rlShadow, rlReplay, rlCanary, rlRuns, rlAdmission>>

PublishRuleVersion ==
    /\ rlVersion.state = "approved"
    /\ rlVersion' = [rlVersion EXCEPT !.state = "published"]
    /\ UNCHANGED <<rlBinding, rlShadow, rlReplay, rlCanary, rlRuns, rlAdmission, rlEdits>>

\* An active binding beside the active baseline needs a rollout.
CreateRuleBinding(state) ==
    /\ rlVersion.state = "published" /\ rlBinding.candidate = "none"
    /\ state = "active" => rlBinding.baseline # "active"
    /\ rlBinding' = [rlBinding EXCEPT !.candidate = state]
    /\ UNCHANGED <<rlVersion, rlShadow, rlReplay, rlCanary, rlRuns, rlAdmission, rlEdits>>

RlOpen(r) == r.state \in {"active", "paused"}

\* A mutated form: only the candidate's rollouts are looked for.
CandidateHeld(b) == b = "candidate" /\ RlOpen(rlCanary)

\* An open canary holds both its bindings.
activeCanary(b) == b \in {"baseline", "candidate"} /\ RlOpen(rlCanary)

\* UpdateRuleBinding asks for the rollout only where a shadow binding is made
\* active.
UpdateRuleBinding(b, state) ==
    LET other == IF b = "baseline" THEN "candidate" ELSE "baseline" IN
    /\ rlBinding[b] \notin {"none", state} /\ ~activeCanary(b)
    /\ (rlBinding[b] = "shadow" /\ state = "active") =>
          /\ ~(b = "candidate" /\ (rlShadow.state # "none" \/ rlCanary.state # "none"))
          /\ rlBinding[other] # "active"
    /\ rlEdits < MaxRuleEdits /\ rlEdits' = rlEdits + 1
    /\ rlBinding' = [rlBinding EXCEPT ![b] = state]
    /\ UNCHANGED <<rlVersion, rlShadow, rlReplay, rlCanary, rlRuns, rlAdmission>>

-----------------------------------------------------------------------------
(* Shadow rollout and its replay.                                          *)

RlPair == rlBinding = [baseline |-> "active", candidate |-> "shadow"]

CreateShadowRollout(s) ==
    /\ RlPair /\ rlShadow.state = "none"
    /\ rlShadow' = [state |-> "active", by |-> s]
    /\ UNCHANGED <<rlVersion, rlBinding, rlReplay, rlCanary, rlRuns, rlAdmission, rlEdits>>

\* A baseline review with a retained plan is replayed with the candidate.
QueueShadowRuleTests ==
    /\ RlPair /\ rlShadow.state = "active" /\ rlReplay.state = "none"
    /\ rlReplay' = [rlReplay EXCEPT !.state = "queued"]
    /\ UNCHANGED <<rlVersion, rlBinding, rlShadow, rlCanary, rlRuns, rlAdmission, rlEdits>>

ClaimRuleTestRun ==
    /\ \/ rlReplay.state = "queued"
       \/ rlReplay.state = "running" /\ ~rlReplay.live
    /\ rlReplay.attempt < MaxReplays
    /\ rlReplay' = [state |-> "running", attempt |-> rlReplay.attempt + 1, live |-> TRUE]
    /\ UNCHANGED <<rlVersion, rlBinding, rlShadow, rlCanary, rlRuns, rlAdmission, rlEdits>>

\* A result counts under the newest attempt and a live lease; otherwise it is
\* dropped and the row stays for the next claim.
CompleteRuleTestRun(state) ==
    /\ rlReplay.state = "running" /\ rlReplay.live
    /\ rlReplay' = [rlReplay EXCEPT !.state = state, !.live = FALSE]
    /\ UNCHANGED <<rlVersion, rlBinding, rlShadow, rlCanary, rlRuns, rlAdmission, rlEdits>>
ReplayLeaseLapses ==
    /\ rlReplay.state = "running" /\ rlReplay.live /\ rlReplay.attempt < MaxReplays
    /\ rlReplay' = [rlReplay EXCEPT !.live = FALSE]
    /\ UNCHANGED <<rlVersion, rlBinding, rlShadow, rlCanary, rlRuns, rlAdmission, rlEdits>>

-----------------------------------------------------------------------------
(* The canary.  Stages 1 to 4 are 100, 500, 2500 and 10000 basis points.   *)

\* Another subject than the author of the shadow rollout starts it.
CreateCanary(s, stage) ==
    /\ RlPair /\ stage \in {1, 2} /\ rlCanary.state = "none"
    /\ rlShadow.state = "active" /\ rlShadow.by # s /\ rlReplay.state = "completed"
    /\ rlCanary' = [state |-> "active", by |-> s, stage |-> stage]
    /\ UNCHANGED <<rlVersion, rlBinding, rlShadow, rlReplay, rlRuns, rlAdmission, rlEdits>>

\* Admission: its transaction starts, which is the run's created_at, and later
\* takes a share lock on the rollout, which waits for a change under way.
BeginAdmission ==
    /\ rlAdmission = "none" /\ rlCanary.state = "active"
    /\ \E r \in RlRunIds : rlRuns[r] = RlNoRun
    /\ rlAdmission' = "since"
    /\ UNCHANGED <<rlVersion, rlBinding, rlShadow, rlReplay, rlCanary, rlRuns, rlEdits>>
RlFreeRun == CHOOSE r \in RlRunIds : rlRuns[r] = RlNoRun /\ \A q \in RlRunIds :
                                        rlRuns[q] = RlNoRun => r <= q
loadActiveCanaryRuleBindings ==
    /\ rlAdmission # "none" /\ rlAdmission' = "none"
    /\ rlRuns' = IF rlCanary.state = "active" /\ RlPair
                 THEN [rlRuns EXCEPT ![RlFreeRun] =
                         [state |-> RlPending, fresh |-> rlAdmission = "since",
                          lost |-> rlAdmission = "before"]]
                 ELSE rlRuns
    /\ UNCHANGED <<rlVersion, rlBinding, rlShadow, rlReplay, rlCanary, rlEdits>>

\* "blocked" is a completed review whose merge gate is no success; a run that
\* was cancelled, superseded or refused by the quota says nothing.
RlRunEnds(r, state) ==
    /\ rlRuns[r].state = RlPending
    /\ rlRuns' = [rlRuns EXCEPT ![r] = IF state = "void" \/ (state = "success" /\ ~@.fresh)
                                       THEN RlNoRun ELSE [@ EXCEPT !.state = state]]
    /\ UNCHANGED <<rlVersion, rlBinding, rlShadow, rlReplay, rlCanary, rlAdmission, rlEdits>>

RlStageRuns == {r \in RlRunIds : rlRuns[r].fresh}

canaryStageEvidence ==
    /\ \E r \in RlStageRuns : rlRuns[r].state = "success"
    /\ \A r \in RlStageRuns : rlRuns[r].state \notin {"failed", "blocked", RlPending}

\* updated_at moves: every run and the admission under way began before it.
\* Where the step asks for no evidence, the runs that did not end well are
\* lost to it.
RlMoved(unasked) ==
    /\ rlRuns' = [r \in RlRunIds |->
                     IF rlRuns[r].state \in {"none", "success"} THEN RlNoRun
                     ELSE [rlRuns[r] EXCEPT !.fresh = FALSE, !.lost = @ \/ unasked]]
    /\ rlAdmission' = IF rlAdmission = "since" THEN "before" ELSE rlAdmission

AdvanceCanary ==
    /\ rlCanary.state = "active" /\ rlCanary.stage < 4 /\ RlPair /\ canaryStageEvidence
    /\ RlMoved(FALSE)
    /\ rlCanary' = [rlCanary EXCEPT !.stage = @ + 1]
    /\ UNCHANGED <<rlVersion, rlBinding, rlShadow, rlReplay, rlEdits>>

\* Another subject than the author of the canary promotes it.
PromoteCanary(s) ==
    /\ rlCanary.state = "active" /\ rlCanary.stage = 4 /\ s # rlCanary.by
    /\ RlPair /\ canaryStageEvidence /\ RlMoved(FALSE)
    /\ rlCanary' = [rlCanary EXCEPT !.state = "promoted"]
    /\ rlBinding' = [baseline |-> "disabled", candidate |-> "active"]
    /\ rlShadow' = IF RlOpen(rlShadow) THEN [rlShadow EXCEPT !.state = "promoted"] ELSE rlShadow
    /\ UNCHANGED <<rlVersion, rlReplay, rlEdits>>

validRuleRolloutTransition(current, next) ==
    \/ current = "active" /\ next \in {"paused", "rolled_back"}
    \/ current = "paused" /\ next \in {"active", "rolled_back"}

\* A pause or a resumption starts the evidence of the stage afresh.
UpdateCanary(state) ==
    /\ validRuleRolloutTransition(rlCanary.state, state) /\ RlMoved(TRUE)
    /\ rlEdits < MaxRuleEdits /\ rlEdits' = rlEdits + 1
    /\ rlCanary' = [rlCanary EXCEPT !.state = state]
    /\ UNCHANGED <<rlVersion, rlBinding, rlShadow, rlReplay>>
UpdateShadow(state) ==
    /\ validRuleRolloutTransition(rlShadow.state, state)
    /\ rlEdits < MaxRuleEdits /\ rlEdits' = rlEdits + 1
    /\ rlShadow' = [rlShadow EXCEPT !.state = state]
    /\ UNCHANGED <<rlVersion, rlBinding, rlReplay, rlCanary, rlRuns, rlAdmission>>

\* ReconcileCanaryFailures: failed reviews of every stage of the last window.
rollbackFailedCanary ==
    /\ rlCanary.state = "active"
    /\ Cardinality({r \in RlRunIds : rlRuns[r].state = "failed"}) >= RollbackAfter
    /\ RlMoved(TRUE)
    /\ rlCanary' = [rlCanary EXCEPT !.state = "rolled_back"]
    /\ UNCHANGED <<rlVersion, rlBinding, rlShadow, rlReplay, rlEdits>>

RlNext ==
    \/ \E s \in Managers :
          \/ RequestRuleApproval(s)
          \/ \E decision \in {"approved", "rejected"}, enough \in BOOLEAN :
                DecideRuleApproval(s, decision, enough)
          \/ CreateShadowRollout(s) \/ PromoteCanary(s)
          \/ \E stage \in {1, 2} : CreateCanary(s, stage)
    \/ PublishRuleVersion
    \/ \E state \in {"active", "shadow"} : CreateRuleBinding(state)
    \/ \E b \in {"baseline", "candidate"}, state \in {"active", "shadow", "disabled"} :
          UpdateRuleBinding(b, state)
    \/ QueueShadowRuleTests \/ ClaimRuleTestRun \/ ReplayLeaseLapses
    \/ \E state \in {"completed", "failed"} : CompleteRuleTestRun(state)
    \/ BeginAdmission \/ loadActiveCanaryRuleBindings
    \/ \E r \in RlRunIds, state \in {"success", "failed", "blocked", "void"} : RlRunEnds(r, state)
    \/ AdvanceCanary \/ rollbackFailedCanary
    \/ \E state \in {"active", "paused", "rolled_back"} : UpdateCanary(state) \/ UpdateShadow(state)

-----------------------------------------------------------------------------
(* Properties.                                                             *)

\* A promoted candidate failed no review and had none open, except those the
\* stages lost sight of: they were open or failed when somebody paused the
\* canary, or their admission had begun before the stage they were admitted in
\* (canaryStageEvidence counts from updated_at, rule_rollouts.go:350).
PromotedWasClean ==
    rlCanary.state = "promoted" =>
        \A r \in RlRunIds : rlRuns[r].state \in {"none", "success"} \/ rlRuns[r].lost

\* While a canary is active or paused its two bindings stay as they were when it
\* began, so its evidence is about the rules that review beside it and its
\* promotion finds the pair it was approved for (rules.go:1055; api/server.go:3764
\* "pause and roll back the active Canary before changing either binding").
CanaryKeepsItsPair == RlOpen(rlCanary) => RlPair
=============================================================================
