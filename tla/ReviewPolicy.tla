----------------------------- MODULE ReviewPolicy -----------------------------
(***************************************************************************)
(* Review configuration and what it decides: versions by section and scope *)
(* (store/review_config.go), the two-person change of an active model      *)
(* route (store/review_config_approval.go), the snapshot an admission      *)
(* takes (store/workflow.go) and the policy a run applies to its findings  *)
(* (runner/execution_policy.go, domain/review_config.go,                   *)
(* publisher/merge_gate.go).                                               *)
(*                                                                         *)
(* One repository of one tenant.  Its configuration is the provider-       *)
(* qualified override, else the old unqualified one, else the tenant's,    *)
(* else the default.  Three sections stand for the eight: general (does    *)
(* it admit this event, and the rank of the blocking severity, 0 for off), *)
(* categories (the least rank of a governed category) and models (the      *)
(* route).  Contents are valid ones: an invalid one is refused before any  *)
(* write.  Severities are their ranks, 0 for an unknown one.               *)
(***************************************************************************)
EXTENDS Integers, FiniteSets

CONSTANTS
    RcPeople,       \* subjects that may manage and approve configuration
    MaxRcEdits      \* bound: writes of configuration and of the floor

ASSUME PolicyAssumption == MaxRcEdits \in Nat /\ "nobody" \notin RcPeople

VARIABLES
    rcRow,      \* review_configurations with their newest version
    rcChange,   \* change request of a scope's model route
    rcFloor,    \* minimum_severity of the installation
    rcRun,      \* the admission under way, then its run
    rcEdits

rcVars == <<rcRow, rcChange, rcFloor, rcRun, rcEdits>>

RcScopes == {"repository", "legacy", "tenant"}
RcSections == {"general", "categories", "models"}

\* CanonicalReviewConfig accepts these.
RcContents(section) ==
    CASE section = "general" -> {[admits |-> a, blocking |-> b] : a \in BOOLEAN, b \in {0, 2}}
      [] section = "categories" -> {0, 3}
      [] section = "models" -> {1, 2}

DefaultReviewConfig ==
    [general |-> [admits |-> TRUE, blocking |-> 2], categories |-> 3, models |-> 0]

RcNoRow(section) == [active |-> FALSE, rev |-> 0, content |-> DefaultReviewConfig[section]]
RcNobody == "nobody"
RcNoChange == [state |-> "none", rev |-> 0, op |-> "upsert", content |-> 0, by |-> RcNobody, decided |-> RcNobody]
RcNoRun == [state |-> "none", read |-> DefaultReviewConfig["general"],
            snapshot |-> DefaultReviewConfig, floor |-> 0, published |-> {}]

RcInit ==
    /\ \E legacy \in BOOLEAN :
         rcRow = [sc \in RcScopes |-> [se \in RcSections |->
                    IF legacy /\ sc = "legacy" /\ se = "models"
                      THEN [active |-> TRUE, rev |-> 1, content |-> 1] ELSE RcNoRow(se)]]
    /\ rcChange = [sc \in RcScopes |-> RcNoChange]
    /\ rcFloor = 3 /\ rcRun = RcNoRun /\ rcEdits = 0

RcEdit == rcEdits < MaxRcEdits /\ rcEdits' = rcEdits + 1

-----------------------------------------------------------------------------
(* Writing.                                                                *)

\* A revision follows the versions an inactive row already has.  An active
\* model route is not saved directly, an unqualified one not at all.
SaveReviewConfig(sc, se, content) ==
    LET row == rcRow[sc][se] IN
    /\ ~(se = "models" /\ (row.active \/ sc = "legacy")) /\ RcEdit
    /\ rcRow' = [rcRow EXCEPT ![sc][se] = [active |-> TRUE, rev |-> row.rev + 1, content |-> content]]
    /\ UNCHANGED <<rcChange, rcFloor, rcRun>>

RestoreInheritedReviewConfig(sc, se) ==
    /\ sc # "tenant" /\ rcRow[sc][se].active /\ se # "models" /\ RcEdit
    /\ rcRow' = [rcRow EXCEPT ![sc][se].active = FALSE]
    /\ UNCHANGED <<rcChange, rcFloor, rcRun>>

\* One pending request for a scope; an upsert differs from the active route.
RequestReviewConfigChange(s, sc, op, content) ==
    LET row == rcRow[sc]["models"] IN
    /\ row.active /\ rcChange[sc].state # "pending" /\ RcEdit
    /\ op = "upsert" => content # row.content
    /\ op = "restore" => sc # "tenant" /\ content = row.content
    /\ rcChange' = [rcChange EXCEPT ![sc] = [state |-> "pending", rev |-> row.rev, op |-> op,
                                             content |-> content, by |-> s, decided |-> RcNobody]]
    /\ UNCHANGED <<rcRow, rcFloor, rcRun>>

\* Both rows are locked.  A route that moved since supersedes the request; an
\* inactive one leaves it pending.
DecideReviewConfigChange(s, sc, approves) ==
    LET c == rcChange[sc]  row == rcRow[sc]["models"]
        applies == row.rev = c.rev
    IN  /\ c.state = "pending" /\ c.by # s /\ row.active
        /\ rcChange' = [rcChange EXCEPT ![sc].decided = s, ![sc].state =
                          IF ~applies THEN "superseded" ELSE IF approves THEN "approved" ELSE "rejected"]
        /\ rcRow' = IF ~applies \/ ~approves THEN rcRow
                    ELSE IF c.op = "restore" THEN [rcRow EXCEPT ![sc]["models"].active = FALSE]
                    ELSE [rcRow EXCEPT ![sc]["models"].rev = @ + 1, ![sc]["models"].content = c.content]
        /\ UNCHANGED <<rcFloor, rcRun, rcEdits>>

\* CreateInstallation for a deactivated identity: the connection comes back
\* with the floor of the new request.
UpdatePublicationFloor(f) ==
    /\ f # rcFloor /\ RcEdit /\ rcFloor' = f
    /\ UNCHANGED <<rcRow, rcChange, rcRun>>

-----------------------------------------------------------------------------
(* Admission, in a transaction that reads what is committed at each        *)
(* statement: first the decision, then the snapshot of every section.      *)

resolveEffectiveReviewConfiguration(se) ==
    CASE rcRow["repository"][se].active -> rcRow["repository"][se].content
      [] ~rcRow["repository"][se].active /\ rcRow["legacy"][se].active -> rcRow["legacy"][se].content
      [] ~rcRow["repository"][se].active /\ ~rcRow["legacy"][se].active /\ rcRow["tenant"][se].active ->
           rcRow["tenant"][se].content
      [] OTHER -> DefaultReviewConfig[se]

\* reviewAdmissionSkipReason: nothing is admitted where the policy says no.
DecideAdmission ==
    LET general == resolveEffectiveReviewConfiguration("general") IN
    /\ rcRun.state = "none" /\ general.admits
    /\ rcRun' = [RcNoRun EXCEPT !.state = "deciding", !.read = general]
    /\ UNCHANGED <<rcRow, rcChange, rcFloor, rcEdits>>

\* The trigger of review_runs: the floor of the installation at the insert.
snapshot_review_publication_minimum == rcFloor

snapshotReviewConfigurations ==
    /\ rcRun.state = "deciding"
    /\ rcRun' = [rcRun EXCEPT !.state = "admitted", !.floor = snapshot_review_publication_minimum,
                   !.snapshot = [se \in RcSections |-> resolveEffectiveReviewConfiguration(se)]]
    /\ UNCHANGED <<rcRow, rcChange, rcFloor, rcEdits>>

-----------------------------------------------------------------------------
(* A run: the analysis reports findings of every kind.                     *)

RcFindings == [rank : 0..4, governed : BOOLEAN]

FilterFindings(findings) ==
    {f \in findings : f.governed => f.rank >= rcRun.snapshot["categories"]}

EvaluateMergeGate(findings) ==
    LET blocking == rcRun.snapshot["general"].blocking IN
    IF blocking = 0 THEN {} ELSE {f \in findings : f.rank >= blocking}

\* Unknown and blocking findings are published below the floor too.
FilterFindingsByPublicationMinimum(findings) ==
    LET blocking == rcRun.snapshot["general"].blocking IN
    {f \in findings : \/ f.rank = 0 \/ f.rank >= rcRun.floor
                      \/ blocking # 0 /\ f.rank >= blocking}

\* The result is published, or published again by a later attempt from the
\* retained plan and findings.
PublishFindings ==
    /\ rcRun.state \in {"admitted", "publishing"}
    /\ rcRun' = [rcRun EXCEPT !.state = "publishing",
                   !.published = FilterFindingsByPublicationMinimum(FilterFindings(RcFindings))]
    /\ UNCHANGED <<rcRow, rcChange, rcFloor, rcEdits>>

completeSuccessfulReview ==
    /\ rcRun.state = "publishing" /\ rcRun' = [rcRun EXCEPT !.state = "gated"]
    /\ UNCHANGED <<rcRow, rcChange, rcFloor, rcEdits>>

RcNextReview ==
    /\ rcRun.state = "gated" /\ rcRun' = RcNoRun
    /\ UNCHANGED <<rcRow, rcChange, rcFloor, rcEdits>>

RcNext ==
    \/ \E sc \in RcScopes, se \in RcSections :
         \/ \E content \in RcContents(se) : SaveReviewConfig(sc, se, content)
         \/ RestoreInheritedReviewConfig(sc, se)
    \/ \E s \in RcPeople, sc \in RcScopes :
         \/ \E op \in {"upsert", "restore"}, content \in RcContents("models") :
              RequestReviewConfigChange(s, sc, op, content)
         \/ \E approves \in BOOLEAN : DecideReviewConfigChange(s, sc, approves)
    \/ \E f \in {1, 3} : UpdatePublicationFloor(f)
    \/ DecideAdmission \/ snapshotReviewConfigurations
    \/ PublishFindings \/ completeSuccessfulReview \/ RcNextReview

-----------------------------------------------------------------------------
(* Properties.                                                             *)

\* What fails the merge gate can be read on the pull request: the findings the
\* gate counts are all published, whatever the severity floor of the
\* installation and the category policy are, and whatever was edited since the
\* run was admitted.
BlockingFindingIsPublished ==
    rcRun.state = "gated" => EvaluateMergeGate(FilterFindings(RcFindings)) \subseteq rcRun.published

\* An active model route only changes by a request that named the revision it
\* replaces, approved by somebody else than its author.
RouteChangesByTwo ==
    \A sc \in RcScopes :
        LET row == rcRow[sc]["models"]  c == rcChange'[sc] IN
        row.active /\ rcRow'[sc]["models"] # row =>
            /\ rcChange[sc].state = "pending" /\ c.state = "approved"
            /\ c.rev = row.rev /\ c.decided \notin {c.by, RcNobody}
            /\ rcRow'[sc]["models"].content = c.content
===============================================================================
