------------------------------ MODULE RiskPlan ------------------------------
(***************************************************************************)
(* The scope of one review: which changed files the model sees             *)
(* (risk/planner.go), the immutable path filters applied to that selection *)
(* and the execution plan recorded before the model starts (runner.go,     *)
(* store/postgres.go).                                                     *)
(*                                                                         *)
(* A path is a number, in the order of the path's text; what the text      *)
(* matches is a set of traits.  Between two attempts of the run the        *)
(* deployment's default mode may change and, unless the event pinned the   *)
(* base commit, the diff as well.                                          *)
(***************************************************************************)
EXTENDS Integers, FiniteSets, Sequences, SequencesExt, FiniteSetsExt

CONSTANTS
    RpPaths,                \* paths of the diff, as numbers in textual order
    RpTraits,               \* the trait sets a path may have
    focusedSelectionLimit,  \* files of a focused review (8 in the code)
    maxPlanPaths,           \* paths a recorded plan may select (10,000 in the code)
    MaxRpAttempts           \* bound: attempts of the run

ASSUME RiskAssumption ==
    /\ RpPaths \subseteq Nat /\ IsFiniteSet(RpPaths)
    /\ {focusedSelectionLimit, maxPlanPaths, MaxRpAttempts} \subseteq Nat \ {0}

criticalFallbackScore == 55
criticalSelectionLimit == 1

VARIABLES
    rpDiff,     \* the changed paths and the traits of each
    rpFiltered, \* the paths the run's filters snapshot does not allow
    rpMode,     \* the run's requested mode and the deployment's default
    rpPinned,   \* whether the event named the base commit
    rpAttempt,  \* the attempt: number, stage and its plan
    rpStored,   \* the execution plan recorded for the run
    rpReviewed  \* the path sets the model was given; {} is the whole change

rpVars == <<rpDiff, rpFiltered, rpMode, rpPinned, rpAttempt, rpStored, rpReviewed>>

Signals == {"auth", "state", "public", "manifest", "image", "service_image", "deploy"}
NoPlan == [mode |-> "none", selected |-> {}, deferred |-> {}]

-----------------------------------------------------------------------------
(* The planner.                                                            *)

Weight(trait) ==
    CASE trait = "auth" -> 45
      [] trait = "service_image" -> 40
      [] trait \in {"state", "manifest", "image"} -> 35
      [] trait \in {"public", "deploy"} -> 25
      [] trait = "test" -> -25

\* An artifact and a document have a score of their own, whatever else the path
\* matches; every other path starts as ordinary application code.  A container
\* or build file is not counted as a deployment directory as well.
Classify(traits) ==
    LET counted == IF traits \cap {"image", "service_image"} # {} THEN traits \ {"deploy"} ELSE traits
        score == 45 + MapThenSumSet(Weight, counted) IN
    IF "artifact" \in traits THEN 0
    ELSE IF "docs" \in traits THEN 10
    ELSE Max({0, Min({100, score})})

\* The deployment traits are one signal.
riskSignals(traits) ==
    IF traits \cap {"artifact", "docs"} # {} THEN {}
    ELSE {IF t \in {"image", "service_image"} THEN "deploy" ELSE t : t \in traits \cap Signals}

include(mode, score) ==
    CASE mode = "standard" -> score > 0
      [] mode = "focused" -> score >= 45
      [] mode = "critical" -> score >= 75

Score(p) == Classify(rpDiff[p])
Riskier(p, q) == Score(p) > Score(q) \/ (Score(p) = Score(q) /\ p < q)
Ranked(S) == SetToSortSeq(S, Riskier)

\* A mutated form: a file counts as a new signal only when all its signals are.
AddsAllNew(p, seen) == riskSignals(rpDiff[p]) # {} /\ riskSignals(rpDiff[p]) \cap seen = {}
AddsSignal(p, seen) == ~(riskSignals(rpDiff[p]) \subseteq seen)

\* First the files that add a signal, then the riskiest of the others, up to
\* the limit.
Diverse(candidates, limit) ==
    LET Take(acc, p) ==
            IF Cardinality(acc.chosen) < limit /\ AddsSignal(p, acc.seen)
            THEN [chosen |-> acc.chosen \cup {p}, seen |-> acc.seen \cup riskSignals(rpDiff[p])]
            ELSE acc
        Fill(acc, p) == IF Cardinality(acc) < limit THEN acc \cup {p} ELSE acc
        first == FoldLeft(Take, [chosen |-> {}, seen |-> {}], Ranked(candidates)).chosen
    IN  FoldLeft(Fill, first, Ranked(candidates \ first))

Included(mode) == {p \in DOMAIN rpDiff : include(mode, Score(p))}

\* What the budget chooses among: a critical review also considers the strong
\* files below its threshold.
Candidates(mode) ==
    IF mode = "critical" THEN {p \in DOMAIN rpDiff : Score(p) >= criticalFallbackScore} ELSE Included(mode)

limitSignalDiverseSelection(mode, limit) ==
    IF Cardinality(Candidates(mode)) <= limit /\ Candidates(mode) = Included(mode)
    THEN Included(mode) ELSE Diverse(Candidates(mode), limit)

\* No file crosses the critical threshold: the single riskiest one that is a
\* boundary at all.
criticalFallback ==
    LET boundary == {p \in DOMAIN rpDiff : Score(p) >= criticalFallbackScore} IN
    {p \in boundary : \A q \in boundary \ {p} : Riskier(p, q)}

PlanWithMode(mode) ==
    LET selected ==
            CASE mode = "standard" -> Included(mode)
              [] mode = "focused" -> limitSignalDiverseSelection(mode, focusedSelectionLimit)
              [] mode = "critical" /\ Included(mode) = {} -> criticalFallback
              [] mode = "critical" /\ Included(mode) # {} -> limitSignalDiverseSelection(mode, criticalSelectionLimit)
    IN  [mode |-> mode, selected |-> selected, deferred |-> DOMAIN rpDiff \ selected]

-----------------------------------------------------------------------------
(* An attempt of the run.                                                  *)

RiskMode(requested, configured) ==
    CASE requested = "standard" -> "focused"
      [] requested = "deep" -> "standard"
      [] requested = "security" -> "critical"
      [] requested = "configured" -> configured

RpInit ==
    /\ rpDiff \in UNION {[paths -> RpTraits] : paths \in SUBSET RpPaths}
    /\ rpFiltered \in {{}} \cup {{p} : p \in RpPaths}
    /\ rpMode \in [requested : {"configured", "standard", "deep", "security"}, configured : {"focused", "critical"}]
    /\ rpPinned \in BOOLEAN
    /\ rpAttempt = [n |-> 1, stage |-> "analyzing", plan |-> NoPlan]
    /\ rpStored = NoPlan /\ rpReviewed = {}

Staged(stage, plan) == rpAttempt' = [rpAttempt EXCEPT !.stage = stage, !.plan = plan]

\* planRisk, in the mode the run asked for or the deployment's default.
planRisk ==
    /\ rpAttempt.stage = "analyzing"
    /\ Staged("planned", PlanWithMode(RiskMode(rpMode.requested, rpMode.configured)))
    /\ UNCHANGED <<rpDiff, rpFiltered, rpMode, rpPinned, rpStored, rpReviewed>>

\* include_paths and exclude_paths, generated and vendored directories.
AllowsPath(p) == p \notin rpFiltered

\* A filtered file becomes deferred; the budget it took is not given back.
applyPathFilters ==
    /\ rpAttempt.stage = "planned"
    /\ LET plan == rpAttempt.plan
           kept == {p \in plan.selected : AllowsPath(p)} IN
       Staged("filtered", [plan EXCEPT !.selected = kept, !.deferred = @ \cup (plan.selected \ kept)])
    /\ UNCHANGED <<rpDiff, rpFiltered, rpMode, rpPinned, rpStored, rpReviewed>>

NormalizeReviewExecutionPlan(plan) == Cardinality(plan.selected) <= maxPlanPaths

\* A mutated form: the newest plan replaces the recorded one.
SaveNewestPlan ==
    /\ rpAttempt.stage = "filtered" /\ NormalizeReviewExecutionPlan(rpAttempt.plan)
    /\ rpStored' = rpAttempt.plan /\ Staged("saved", rpAttempt.plan)
    /\ UNCHANGED <<rpDiff, rpFiltered, rpMode, rpPinned, rpReviewed>>

\* The first plan stays; an attempt that planned anything else fails, and so
\* does one whose plan is too large to record.
SaveReviewExecutionPlan ==
    /\ rpAttempt.stage = "filtered"
    /\ rpStored' = IF rpStored = NoPlan /\ NormalizeReviewExecutionPlan(rpAttempt.plan) THEN rpAttempt.plan ELSE rpStored
    /\ Staged(IF rpStored' = rpAttempt.plan THEN "saved" ELSE "failed", rpAttempt.plan)
    /\ UNCHANGED <<rpDiff, rpFiltered, rpMode, rpPinned, rpReviewed>>

\* A plan that deferred every file skips the model; an empty one, of an empty
\* diff, leaves it the whole change.
deferredOnlyScope(plan) == plan.selected = {} /\ plan.deferred # {}
reviewWithScope(plan) == rpReviewed' = rpReviewed \cup {plan.selected}

reviewWithSnapshot ==
    /\ rpAttempt.stage = "saved"
    /\ IF deferredOnlyScope(rpAttempt.plan) THEN UNCHANGED rpReviewed ELSE reviewWithScope(rpAttempt.plan)
    /\ \E stage \in {"publishing", "failed"} : Staged(stage, rpAttempt.plan)
    /\ UNCHANGED <<rpDiff, rpFiltered, rpMode, rpPinned, rpStored>>

\* The report names the scope of the recorded plan, not of the attempt's.
resumePublication ==
    /\ rpAttempt.stage = "publishing" /\ Staged("published", rpStored)
    /\ UNCHANGED <<rpDiff, rpFiltered, rpMode, rpPinned, rpStored, rpReviewed>>

\* The job is retried; meanwhile the deployment's default may have changed and
\* an unpinned base moved, which took one file out of the diff.
RpRetry ==
    /\ rpAttempt.stage = "failed" /\ rpAttempt.n < MaxRpAttempts
    /\ rpAttempt' = [n |-> rpAttempt.n + 1, stage |-> "analyzing", plan |-> NoPlan]
    /\ \E c \in {"focused", "critical"} : rpMode' = [rpMode EXCEPT !.configured = c]
    /\ \/ rpDiff' = rpDiff
       \/ /\ ~rpPinned
          /\ \E p \in DOMAIN rpDiff : rpDiff' = [q \in DOMAIN rpDiff \ {p} |-> rpDiff[q]]
    /\ UNCHANGED <<rpFiltered, rpPinned, rpStored, rpReviewed>>

RpNext ==
    \/ planRisk \/ applyPathFilters \/ SaveReviewExecutionPlan
    \/ reviewWithSnapshot \/ resumePublication \/ RpRetry

-----------------------------------------------------------------------------
(* Properties.                                                             *)

\* Whatever the attempts of a run gave the model, under whatever default mode
\* and base each ran, is the scope recorded for the run and reported to the
\* pull request (postgres.go:1703 "Conflicting writes are rejected rather than
\* silently changing the scope").
ReviewedIsRecorded ==
    \A scope \in rpReviewed : scope = rpStored.selected

\* A file is passed over for a less risky one only if riskier chosen files
\* already carry all its signals, and the budget is used in full
\* (planner.go:264): the greedy selection, stated without its order of steps.
BudgetFavoursRisk ==
    rpAttempt.stage = "planned" /\ rpAttempt.plan.mode # "standard" =>
        LET mode == rpAttempt.plan.mode
            limit == IF mode = "focused" THEN focusedSelectionLimit ELSE criticalSelectionLimit
            chosen == rpAttempt.plan.selected
            Carried(p) == UNION {riskSignals(rpDiff[q]) : q \in {c \in chosen : Riskier(c, p)}}
        IN  /\ Cardinality(chosen) = Min({limit, Cardinality(Candidates(mode))})
            /\ chosen \subseteq Candidates(mode)
            /\ \A p \in Candidates(mode) \ chosen, q \in chosen :
                  Riskier(p, q) => riskSignals(rpDiff[p]) \subseteq Carried(p)
=============================================================================
