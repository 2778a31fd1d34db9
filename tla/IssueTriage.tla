----------------------------- MODULE IssueTriage -----------------------------
(***************************************************************************)
(* The analysis of an issue a user wrote at the provider: its admission    *)
(* and manual retry (store/provider_issue_triage.go), the worker that      *)
(* acknowledges, analyses and answers in one marker-keyed comment          *)
(* (cmd/issue-triager, issuetriage/analyzer.go,                            *)
(* publisher/provider_issue.go) and the reactions to that comment, polled  *)
(* or pushed (store/provider_issue_feedback.go,                            *)
(* providerfeedback/poller.go).                                            *)
(*                                                                         *)
(* One issue.  A report is named by the revision it is about.  The outbox  *)
(* relay and the broker are those of OutboxRelay and Broker; here a        *)
(* message is in the queue at once, and what counts is the fate of its     *)
(* inbox row, which decides who may retry.  A message about a superseded   *)
(* revision or attempt does nothing when it is delivered and is forgotten  *)
(* as soon as it is superseded.                                            *)
(***************************************************************************)
EXTENDS Integers, FiniteSets

CONSTANTS
    TgWorkers,          \* issue-triager processes
    MaxTgRevisions,     \* bound: edits of the issue
    MaxTgRounds,        \* bound: revision and attempt together
    MaxTgAttempts,      \* analysis_attempt at which a retry is refused (100 in the code)
    RedeliveryLimit,    \* redeliveries before the broker dead-letters (5 in the code)
    MaxTgFaults,        \* bound: crashes
    MaxReactions        \* bound: reactions given or taken back

ASSUME TriageAssumption ==
    /\ MaxTgRevisions \in Nat \ {0} /\ MaxTgRounds \in Nat /\ MaxTgAttempts \in Nat \ {0} /\ RedeliveryLimit \in Nat
    /\ MaxTgFaults \in Nat /\ MaxReactions \in Nat

VARIABLES
    tgJob,      \* the provider_issue_analysis_jobs row
    tgMsg,      \* a message and its inbox row, by topic, revision and attempt
    tgWork,     \* what a worker has in hand
    tgComment,  \* the marker-keyed comment at the provider
    tgInstalled,\* the installation: active, turned off, active again
    tgFaults,   \* crashes so far
    tgPoll,     \* the feedback poll of the analysis and its worker's snapshot
    tgReaction  \* the reaction at the provider and as recorded

tgVars == <<tgJob, tgMsg, tgWork, tgComment, tgInstalled, tgFaults, tgPoll, tgReaction>>

TgMessages == [topic : {"acknowledge", "analyze"}, rev : 1..MaxTgRevisions, attempt : 1..MaxTgAttempts]
NoReport == 0
TgNoWork == [busy |-> FALSE, msg |-> [topic |-> "acknowledge", rev |-> 0, attempt |-> 0], pc |-> "idle", report |-> NoReport]
NoMsg == [at |-> "none", row |-> "absent", live |-> FALSE, n |-> 0]
tgOn == tgInstalled # "off"
NoPoll == [state |-> "none", held |-> FALSE, polling |-> FALSE, snapshot |-> FALSE]

TgInit ==
    /\ tgJob = [rev |-> 0, attempt |-> 1, state |-> "none", report |-> NoReport]
    /\ tgMsg = [m \in TgMessages |-> NoMsg]
    /\ tgWork = [w \in TgWorkers |-> TgNoWork]
    /\ tgComment = [rev |-> 0, kind |-> "none", report |-> NoReport]
    /\ tgInstalled = "active" /\ tgFaults = 0 /\ tgPoll = NoPoll
    /\ tgReaction \in [pushed : BOOLEAN, given : {FALSE}, recorded : {FALSE}, changes : {0}]

-----------------------------------------------------------------------------
(* Admission and manual retry.                                             *)

\* The dedupe key names topic, revision and attempt: a second one is dropped.
insertProviderIssueOutbox(topic, rev, attempt) ==
    tgMsg' = [m \in TgMessages |->
        IF tgMsg[m].at = "none" /\ m = [topic |-> topic, rev |-> rev, attempt |-> attempt]
          THEN [NoMsg EXCEPT !.at = "queue"]
        ELSE IF tgMsg[m].at \in {"none", "worker"} \/ (m.rev = rev /\ m.attempt = attempt) THEN tgMsg[m]
        ELSE [NoMsg EXCEPT !.at = "gone"]]

\* Every admitted event of the issue is a new revision of the one row.
EnqueueProviderIssueAnalysis ==
    /\ tgOn /\ tgJob.rev < MaxTgRevisions /\ tgJob.rev + tgJob.attempt < MaxTgRounds
    /\ tgJob' = [rev |-> tgJob.rev + 1, attempt |-> 1, state |-> "queued", report |-> NoReport]
    /\ insertProviderIssueOutbox("acknowledge", tgJob.rev + 1, 1)
    /\ UNCHANGED <<tgWork, tgComment, tgInstalled, tgFaults, tgPoll, tgReaction>>

PendingMsg ==
    [topic |-> IF tgJob.state = "queued" THEN "acknowledge" ELSE "analyze",
     rev |-> tgJob.rev, attempt |-> tgJob.attempt]

\* The last redelivery failed too.
TerminalDeliveryFailure(m) == tgMsg[m].row = "released" /\ tgMsg[m].n >= RedeliveryLimit + 1
\* The message was handled, yet the row waits: the installation was off.
SkippedDelivery(m) == tgMsg[m].row = "completed"

\* A mutated form: a message that was handled needs no retry.
RetryFailedDeliveriesOnly ==
    \/ tgJob.state = "failed"
    \/ tgJob.state \in {"queued", "acknowledged"} /\ TerminalDeliveryFailure(PendingMsg)

Retryable ==
    \/ tgJob.state = "failed"
    \/ /\ tgJob.state \in {"queued", "acknowledged"}
       /\ TerminalDeliveryFailure(PendingMsg) \/ SkippedDelivery(PendingMsg)

\* A retained report is published again, everything else starts over.
RetryProviderIssueAnalysis ==
    LET again == tgJob.state = "acknowledged" /\ tgJob.report # NoReport IN
    /\ tgOn /\ tgJob.attempt < MaxTgAttempts /\ tgJob.rev + tgJob.attempt < MaxTgRounds /\ Retryable
    /\ tgJob' = [tgJob EXCEPT !.attempt = @ + 1, !.state = IF again THEN "acknowledged" ELSE "queued",
                              !.report = IF again THEN @ ELSE NoReport]
    /\ insertProviderIssueOutbox(IF again THEN "analyze" ELSE "acknowledge", tgJob.rev, tgJob.attempt + 1)
    /\ UNCHANGED <<tgWork, tgComment, tgInstalled, tgFaults, tgPoll, tgReaction>>

\* An administrator turns the installation off, and on again.
InstallationTurned ==
    /\ \/ tgInstalled = "active" /\ tgInstalled' = "off"
       \/ tgInstalled = "off" /\ tgInstalled' = "again"
    /\ UNCHANGED <<tgJob, tgMsg, tgWork, tgComment, tgFaults, tgPoll, tgReaction>>

-----------------------------------------------------------------------------
(* The worker.  A message ends as handled (its inbox row completed) or as  *)
(* failed (its row released, the message redelivered until the limit).     *)

TgGoes(w, pc, report) == tgWork' = [tgWork EXCEPT ![w].pc = pc, ![w].report = report]
OfMsg(m) == tgJob.rev = m.rev /\ tgJob.attempt = m.attempt

\* The claim of the inbox row and the read of the analysis the message is
\* about: a superseded revision or attempt, and an installation that is off,
\* make the message void.
TgClaim(w, m) ==
    /\ ~tgWork[w].busy /\ tgMsg[m].at = "queue"
    /\ tgMsg[m].row \in {"absent", "released"} \/ (tgMsg[m].row = "claimed" /\ ~tgMsg[m].live)
    /\ tgMsg' = [tgMsg EXCEPT ![m].at = "worker", ![m].row = "claimed", ![m].live = TRUE, ![m].n = @ + 1]
    /\ LET pc == IF ~tgOn \/ ~OfMsg(m) THEN "handled"
                 ELSE IF m.topic = "acknowledge"
                   THEN IF tgJob.state = "queued" THEN "acknowledge" ELSE "handled"
                 ELSE CASE tgJob.state = "failed" -> "sayfailed"
                        [] tgJob.state = "acknowledged" /\ tgJob.report # NoReport -> "publish"
                        [] tgJob.state = "acknowledged" /\ tgJob.report = NoReport -> "analyze"
                        [] OTHER -> "handled"
       IN tgWork' = [tgWork EXCEPT ![w] = [busy |-> TRUE, msg |-> m, pc |-> pc,
                                           report |-> IF pc = "publish" THEN tgJob.report ELSE NoReport]]
    /\ UNCHANGED <<tgJob, tgComment, tgInstalled, tgFaults, tgPoll, tgReaction>>

\* A row that another delivery holds or finished: the message is dropped.
TgClaimRefused(m) ==
    /\ tgMsg[m].at = "queue"
    /\ tgMsg[m].row = "completed" \/ (tgMsg[m].row = "claimed" /\ tgMsg[m].live)
    /\ tgMsg' = [tgMsg EXCEPT ![m].at = "gone"]
    /\ UNCHANGED <<tgJob, tgWork, tgComment, tgInstalled, tgFaults, tgPoll, tgReaction>>

\* A mutated form: the comment is written without the lock of the row.
PublishUnfenced(w, state, report) == TRUE

\* The row is locked while the comment is written.
WithCurrentProviderIssuePublication(w, state, report) ==
    tgOn /\ OfMsg(tgWork[w].msg) /\ tgJob.state = state /\ tgJob.report = report

\* One comment per issue, found by its marker.
PublishProviderIssueAnalysis(w, kind, report) ==
    tgComment' = [rev |-> tgWork[w].msg.rev, kind |-> kind, report |-> report]

\* What a publication leads to: refused by the fence, written, or failed with
\* or without effect at the provider.
TgPublish(w, state, kind, then, refused) ==
    LET report == tgWork[w].report IN
    /\ IF WithCurrentProviderIssuePublication(w, state, report)
         THEN \/ PublishProviderIssueAnalysis(w, kind, report) /\ TgGoes(w, then, report)
              \/ PublishProviderIssueAnalysis(w, kind, report) /\ TgGoes(w, "failed", NoReport)
              \/ UNCHANGED tgComment /\ TgGoes(w, "failed", NoReport)
         ELSE UNCHANGED tgComment /\ TgGoes(w, refused, report)
    /\ UNCHANGED <<tgJob, tgMsg, tgInstalled, tgFaults, tgPoll, tgReaction>>

PublishProviderIssueAcknowledgement(w) ==
    tgWork[w].pc = "acknowledge" /\ TgPublish(w, "queued", "acknowledgement", "mark", "handled")

MarkProviderIssueAcknowledged(w) ==
    LET m == tgWork[w].msg IN
    /\ tgWork[w].pc = "mark" /\ TgGoes(w, "handled", NoReport)
    /\ IF OfMsg(m) /\ tgJob.state = "queued"
         THEN tgJob' = [tgJob EXCEPT !.state = "acknowledged"] /\ insertProviderIssueOutbox("analyze", m.rev, m.attempt)
         ELSE UNCHANGED <<tgJob, tgMsg>>
    /\ UNCHANGED <<tgComment, tgInstalled, tgFaults, tgPoll, tgReaction>>

\* The model answers with a usable report, or anything short of one is an
\* error: no route or credential, a transport error, an empty or undecodable
\* answer.
Analyze(w) ==
    /\ tgWork[w].pc = "analyze"
    /\ \/ TgGoes(w, "stage", tgWork[w].msg.rev)
       \/ TgGoes(w, "fail", NoReport)
    /\ UNCHANGED <<tgJob, tgMsg, tgComment, tgInstalled, tgFaults, tgPoll, tgReaction>>

\* The first report of a revision is kept; a later one is dropped for it.
StageProviderIssueAnalysis(w) ==
    LET current == OfMsg(tgWork[w].msg) /\ tgJob.state = "acknowledged"
        kept == IF tgJob.report = NoReport THEN tgWork[w].report ELSE tgJob.report IN
    /\ tgWork[w].pc = "stage"
    /\ IF current THEN tgJob' = [tgJob EXCEPT !.report = kept] /\ TgGoes(w, "publish", kept)
                  ELSE UNCHANGED tgJob /\ TgGoes(w, "handled", NoReport)
    /\ UNCHANGED <<tgMsg, tgComment, tgInstalled, tgFaults, tgPoll, tgReaction>>

FailProviderIssueAnalysis(w) ==
    /\ tgWork[w].pc = "fail"
    /\ IF OfMsg(tgWork[w].msg) /\ tgJob.state \in {"queued", "acknowledged"} /\ tgJob.report = NoReport
         THEN tgJob' = [tgJob EXCEPT !.state = "failed"] /\ TgGoes(w, "sayfailed", NoReport)
         ELSE UNCHANGED tgJob /\ TgGoes(w, "handled", NoReport)
    /\ UNCHANGED <<tgMsg, tgComment, tgInstalled, tgFaults, tgPoll, tgReaction>>

PublishFailure(w) == tgWork[w].pc = "sayfailed" /\ TgPublish(w, "failed", "failure", "handled", "handled")

\* A publication the fence refuses counts as made: completion asks again.
publishStagedProviderIssueAnalysis(w) ==
    tgWork[w].pc = "publish" /\ TgPublish(w, "acknowledged", "report", "complete", "complete")

CompleteProviderIssueAnalysis(w) ==
    /\ tgWork[w].pc = "complete" /\ TgGoes(w, "handled", NoReport)
    /\ IF OfMsg(tgWork[w].msg) /\ tgJob.state = "acknowledged" /\ tgJob.report = tgWork[w].report
         THEN /\ tgJob' = [tgJob EXCEPT !.state = "completed"]
              /\ tgPoll' = IF tgOn /\ ~tgReaction.pushed THEN [tgPoll EXCEPT !.state = "queued", !.held = FALSE] ELSE tgPoll
         ELSE UNCHANGED <<tgJob, tgPoll>>
    /\ UNCHANGED <<tgMsg, tgComment, tgInstalled, tgFaults, tgReaction>>

TgRedelivered(m, row) ==
    IF ~OfMsg(m) THEN [tgMsg EXCEPT ![m] = [NoMsg EXCEPT !.at = "gone"]]
    ELSE [tgMsg EXCEPT ![m].row = row, ![m].at = IF tgMsg[m].n <= RedeliveryLimit THEN "queue" ELSE "dead"]

\* The inbox row is settled, if this delivery still owns it.
TgSettle(w) ==
    LET m == tgWork[w].msg IN
    /\ tgWork' = [tgWork EXCEPT ![w] = TgNoWork]
    /\ \/ tgWork[w].pc = "handled" /\ tgMsg' = [tgMsg EXCEPT ![m] = [NoMsg EXCEPT !.row = "completed", !.at = "gone"]]
       \/ tgWork[w].pc = "failed" /\ tgMsg' = TgRedelivered(m, "released")
    /\ UNCHANGED <<tgJob, tgComment, tgInstalled, tgFaults, tgPoll, tgReaction>>

\* The process dies; the broker delivers its message again.
TgCrash(w) ==
    /\ tgWork[w].busy /\ tgFaults < MaxTgFaults /\ tgFaults' = tgFaults + 1
    /\ tgMsg' = TgRedelivered(tgWork[w].msg, "claimed")
    /\ tgWork' = [tgWork EXCEPT ![w] = TgNoWork]
    /\ UNCHANGED <<tgJob, tgComment, tgInstalled, tgPoll, tgReaction>>

\* The lease of a process that died runs out.
TgLeaseLapses(m) ==
    /\ tgMsg[m].row = "claimed" /\ tgMsg[m].live /\ tgMsg[m].at # "worker"
    /\ tgMsg' = [tgMsg EXCEPT ![m].live = FALSE]
    /\ UNCHANGED <<tgJob, tgWork, tgComment, tgInstalled, tgFaults, tgPoll, tgReaction>>

-----------------------------------------------------------------------------
(* Reactions to the comment.                                               *)

\* A user reacts, or takes it back.  Bounded to analyses that are completed.
React ==
    /\ tgJob.state = "completed" /\ \A w \in TgWorkers : ~tgWork[w].busy
    /\ tgReaction.changes < MaxReactions
    /\ tgReaction' = [tgReaction EXCEPT !.given = ~@, !.changes = @ + 1]
    /\ UNCHANGED <<tgJob, tgMsg, tgWork, tgComment, tgInstalled, tgFaults, tgPoll>>

\* GitLab's event says what the reaction was when it was sent, which may be
\* long ago.
RecordProviderIssueReaction(created) ==
    /\ tgReaction.pushed /\ tgReaction.changes >= IF created THEN 1 ELSE 2
    /\ tgReaction' = [tgReaction EXCEPT !.recorded = created]
    /\ UNCHANGED <<tgJob, tgMsg, tgWork, tgComment, tgInstalled, tgFaults, tgPoll>>

\* GitHub sends none and is asked.  A queued or completed poll is always due, a
\* running one once its lease lapsed.
ClaimProviderIssueFeedbackPoll ==
    /\ ~tgReaction.pushed /\ ~tgPoll.polling /\ tgOn /\ tgJob.state = "completed"
    /\ tgPoll' = [state |-> "running", held |-> TRUE, polling |-> TRUE, snapshot |-> tgReaction.given]
    /\ UNCHANGED <<tgJob, tgMsg, tgWork, tgComment, tgInstalled, tgFaults, tgReaction>>

\* The snapshot replaces what was recorded, if the claim still stands.
CompleteProviderIssueFeedbackPoll ==
    /\ tgPoll.polling
    /\ tgPoll' = [tgPoll EXCEPT !.polling = FALSE, !.snapshot = FALSE, !.held = FALSE,
                                !.state = IF tgPoll.held THEN "completed" ELSE @]
    /\ tgReaction' = IF tgPoll.held THEN [tgReaction EXCEPT !.recorded = tgPoll.snapshot] ELSE tgReaction
    /\ UNCHANGED <<tgJob, tgMsg, tgWork, tgComment, tgInstalled, tgFaults>>

FailProviderIssueFeedbackPoll ==
    /\ tgPoll.polling
    /\ tgPoll' = [tgPoll EXCEPT !.polling = FALSE, !.snapshot = FALSE, !.held = FALSE,
                                !.state = IF tgPoll.held THEN "completed" ELSE @]
    /\ UNCHANGED <<tgJob, tgMsg, tgWork, tgComment, tgInstalled, tgFaults, tgReaction>>

TgNext ==
    \/ EnqueueProviderIssueAnalysis \/ RetryProviderIssueAnalysis \/ InstallationTurned
    \/ \E m \in TgMessages : TgClaimRefused(m) \/ TgLeaseLapses(m) \/ \E w \in TgWorkers : TgClaim(w, m)
    \/ \E w \in TgWorkers :
         \/ PublishProviderIssueAcknowledgement(w) \/ MarkProviderIssueAcknowledged(w)
         \/ Analyze(w) \/ StageProviderIssueAnalysis(w) \/ FailProviderIssueAnalysis(w)
         \/ PublishFailure(w) \/ publishStagedProviderIssueAnalysis(w) \/ CompleteProviderIssueAnalysis(w)
         \/ TgSettle(w) \/ TgCrash(w)
    \/ React \/ ClaimProviderIssueFeedbackPoll \/ CompleteProviderIssueFeedbackPoll \/ FailProviderIssueFeedbackPoll
    \/ \E created \in BOOLEAN : RecordProviderIssueReaction(created)

-----------------------------------------------------------------------------
(* Properties.                                                             *)

\* The comment a user reads keeps up with the analysis: an analysis that is
\* completed shows the report retained for it, however the workers of older
\* revisions and attempts interleave with edits and retries (the fence of
\* provider_issue_triage.go:741-779).  An installation that was ever turned off
\* is excepted: a publication refused for that reason counts as made, and the
\* analysis completes without its report.
CommentKeepsUp ==
    tgJob.state = "completed" /\ tgInstalled = "active" =>
        tgComment = [rev |-> tgJob.rev, kind |-> "report", report |-> tgJob.report]

\* Nothing strands: a pending analysis has a message that is yet to be
\* handled, or can be retried by hand, whatever failed or was skipped
\* (provider_issue_triage.go:16-39), unless a redelivery met the claim of a
\* process that had died and was dropped.
PendingCanBeFinished ==
    tgJob.state \in {"queued", "acknowledged"} =>
        \/ tgMsg[PendingMsg].at \in {"queue", "worker"}
        \/ Retryable
        \/ tgMsg[PendingMsg].row = "claimed" /\ tgFaults > 0
=============================================================================
