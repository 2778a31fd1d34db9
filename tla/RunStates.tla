----------------------------- MODULE RunStates -----------------------------
(***************************************************************************)
(* The states of a review run, the transition table and the stage evidence *)
(* (internal/domain/workflow.go, the helpers of AdvanceLegacyRun in        *)
(* internal/store/workflow.go).  No state of its own.                      *)
(***************************************************************************)
EXTENDS Naturals

\* The states an execution moves through, and those it ends in.
ActiveStates == {"acknowledged", "admitted", "preparing", "analyzing",
                 "normalizing", "publishing"}
TerminalStates == {"completed", "failed", "cancelled", "superseded",
                   "needs_attention"}
RunStates == ActiveStates \cup TerminalStates

\* The states in which a run holds a slot of its tenant.
ExecutingStates == ActiveStates \ {"acknowledged"}

Terminal(state) == state \in TerminalStates

\* RunState.CanTransitionTo.
CanTransitionTo(state, next) ==
    \/ state = "acknowledged" /\ next \in {"admitted", "cancelled", "failed"}
    \/ /\ state \in {"admitted", "preparing", "analyzing", "normalizing"}
       /\ next \in {"cancelled", "superseded", "failed"}
    \/ <<state, next>> \in {<<"admitted", "preparing">>,
                            <<"preparing", "analyzing">>,
                            <<"analyzing", "normalizing">>,
                            <<"normalizing", "publishing">>}
    \/ /\ state = "publishing"
       /\ next \in {"completed", "needs_attention", "superseded", "failed"}

\* runStateRank; it also numbers the stages ack .. publish of the evidence.
Rank(state) ==
    CASE state = "acknowledged" -> 1
      [] state = "admitted" -> 2
      [] state = "preparing" -> 3
      [] state = "analyzing" -> 4
      [] state = "normalizing" -> 5
      [] state = "publishing" -> 6
      [] OTHER -> 0

\* Mutant: failures are not announced.
NoConsumerForFailed(state) ==
    state \in {"acknowledged", "admitted"} \cup (TerminalStates \ {"failed"})

\* Only these transitions are announced through the outbox.
HasBrokerConsumer(state) ==
    state \in {"acknowledged", "admitted"} \cup TerminalStates

Stages == 1..6
StageStates == {"pending", "running", "succeeded", "failed", "skipped"}

\* Mutant: the stage that fails is recorded one too late.
EvidenceOffByOne(evidence, current, next) ==
    [i \in Stages |->
        CASE next = "completed" -> "succeeded"
          [] Terminal(next) /\ next # "completed" ->
                IF i =< Rank(current) THEN "succeeded"
                ELSE IF i = Rank(current) + 1 /\ next \in {"failed", "needs_attention"}
                     THEN "failed"
                     ELSE "skipped"
          [] OTHER ->
                IF i < Rank(next) \/ (next = "admitted" /\ i = Rank(next))
                THEN "succeeded"
                ELSE IF i = Rank(next) THEN "running" ELSE evidence[i]]

\* advanceRunStageEvidence for a transition from current to next.
StageEvidence(evidence, current, next) ==
    [i \in Stages |->
        CASE next = "completed" -> "succeeded"
          [] Terminal(next) /\ next # "completed" ->
                IF i < Rank(current) THEN "succeeded"
                ELSE IF i = Rank(current) /\ next \in {"failed", "needs_attention"}
                     THEN "failed"
                     ELSE "skipped"
          [] OTHER ->
                IF i < Rank(next) \/ (next = "admitted" /\ i = Rank(next))
                THEN "succeeded"
                ELSE IF i = Rank(next) THEN "running" ELSE evidence[i]]
=============================================================================
