----------------------------- MODULE Publication -----------------------------
(***************************************************************************)
(* What a review leaves at the provider: its check and its summary         *)
(* comment.  Two processes write them, the runner (runner/runner.go) and   *)
(* the terminal reporter (terminal/reporter.go), whose failed writes are   *)
(* retried through the outbox (store/terminal_publication_retry.go), and   *)
(* the receipts of both are kept (RecordPublicationReceipts).              *)
(*                                                                         *)
(* A comment is found by its marker and then written, in two calls; a      *)
(* check has one identity per job, which its write looks up.               *)
(***************************************************************************)
EXTENDS Integers, Sequences

CONSTANTS
    MaxRunnerAttempts,              \* bound: attempts of the job
    maxTerminalPublicationAttempts  \* attempts of a terminal publication

ASSUME PublicationAssumption ==
    MaxRunnerAttempts \in Nat \ {0} /\ maxTerminalPublicationAttempts \in Nat \ {0}

VARIABLES
    pbRun,       \* state of the run
    pbRunner,    \* step of the runner
    pbAttempt,   \* attempts of the job so far
    pbReporter,  \* step of the reporter and the attempt it handles
    pbMail,      \* attempts of the terminal event waiting in the queue
    pbFound,     \* whether each writer's lookup found the comment
    pbCheck,     \* the check at the provider
    pbComments,  \* summary comments with the marker, oldest first
    pbReceipt,   \* receipts of the two surfaces
    pbGaveUp     \* history: the reporter recorded a final failure

pbVars == <<pbRun, pbRunner, pbAttempt, pbReporter, pbMail, pbFound, pbCheck, pbComments,
            pbReceipt, pbGaveUp>>

PbReported == {"needs_attention", "cancelled", "superseded", "failed"}
PbIdle == [pc |-> "idle", attempt |-> 0, state |-> "none"]

PbInit ==
    /\ pbRun = "running" /\ pbRunner = "start" /\ pbAttempt = 1
    /\ pbReporter = PbIdle /\ pbMail = {}
    /\ pbFound = [w \in {"runner", "reporter"} |-> FALSE]
    /\ pbCheck = "none" /\ pbComments = <<>>
    /\ pbReceipt = [status |-> "none", summary |-> "none"]
    /\ pbGaveUp = FALSE

\* terminalStatus: the conclusion that goes with a state of the run.
terminalStatus(state) ==
    IF state \in {"failed", "needs_attention"} THEN "failure" ELSE "neutral"

\* RecordPublicationReceipts: a success clears the error of the surface.
RecordPublicationReceipts(surface, outcome) ==
    pbReceipt' = [pbReceipt EXCEPT ![surface] = outcome]

\* A call may be applied and still be reported as failed.
PbCheckCall(value, ok) ==
    pbCheck' \in (IF ok THEN {value} ELSE {value, pbCheck})
\* githubUpsertSummary, gitLabUpsertSummary: the second of the two calls.
PbUpsert(w, text, ok) ==
    LET written == IF pbFound[w] THEN [pbComments EXCEPT ![1] = text]
                                 ELSE Append(pbComments, text) IN
    pbComments' \in (IF ok THEN {written} ELSE {written, pbComments})
PbFind(w) == pbFound' = [pbFound EXCEPT ![w] = pbComments # <<>>]

\* A terminal transition commits with its message for the reporter.
PbEnds(state) == pbRun' = state /\ pbMail' = pbMail \cup {1}

\* A user cancels, a push supersedes.
StopFromOutside(state) ==
    /\ pbRun = "running" /\ PbEnds(state)
    /\ UNCHANGED <<pbRunner, pbAttempt, pbReporter, pbFound, pbCheck, pbComments, pbReceipt, pbGaveUp>>

-----------------------------------------------------------------------------
\* startCheck: best effort; a check that was completed is not reopened.
StartCheck(ok) ==
    /\ pbRunner = "start"
    /\ PbCheckCall(IF pbCheck \in {"none", "in_progress"} THEN "in_progress" ELSE pbCheck, ok)
    /\ RecordPublicationReceipts("status", IF ok THEN "published" ELSE "retry")
    /\ pbRunner' = "working"
    /\ UNCHANGED <<pbRun, pbAttempt, pbReporter, pbMail, pbFound, pbComments, pbGaveUp>>

\* The review has findings: the publication looks for the comment.  A stage
\* call that finds the run ended stops instead.
BeginPublish ==
    /\ pbRunner = "working"
    /\ IF pbRun = "running" THEN PbFind("runner") /\ pbRunner' = "publish"
                            ELSE pbRunner' = "stop-check" /\ UNCHANGED pbFound
    /\ UNCHANGED <<pbRun, pbAttempt, pbReporter, pbMail, pbCheck, pbComments, pbReceipt, pbGaveUp>>

PublishResult(ok) ==
    /\ pbRunner = "publish"
    /\ PbUpsert("runner", "completed", ok)
    /\ RecordPublicationReceipts("summary", IF ok THEN "published" ELSE "retry")
    /\ pbRunner' = IF ok THEN "complete" ELSE "failing"
    /\ UNCHANGED <<pbRun, pbAttempt, pbReporter, pbMail, pbFound, pbCheck, pbGaveUp>>

\* advance(RunCompleted), and Succeed once the run is completed.
CompleteRun ==
    /\ pbRunner = "complete"
    /\ pbRun' = IF pbRun = "running" THEN "completed" ELSE pbRun
    /\ pbRunner' = IF pbRun = "running" THEN "gate" ELSE "stop-check"
    /\ UNCHANGED <<pbAttempt, pbReporter, pbMail, pbFound, pbCheck, pbComments, pbReceipt, pbGaveUp>>

\* completeSuccessfulReview: the gate's conclusion, best effort.
CompleteGate(ok) ==
    /\ pbRunner = "gate"
    /\ \E conclusion \in {"success", "failure"} : PbCheckCall(conclusion, ok)
    /\ RecordPublicationReceipts("status", IF ok THEN "published" ELSE "retry")
    /\ pbRunner' = "done"
    /\ UNCHANGED <<pbRun, pbAttempt, pbReporter, pbMail, pbFound, pbComments, pbGaveUp>>

\* An error ends the attempt (handleProcessingError): the job is queued again,
\* or the run fails with its last attempt.
ProcessingError ==
    /\ pbRunner \in {"working", "failing"}
    /\ \/ /\ pbAttempt < MaxRunnerAttempts /\ pbRun = "running"
          /\ pbAttempt' = pbAttempt + 1 /\ pbRunner' = "start"
          /\ UNCHANGED <<pbRun, pbMail>>
       \/ /\ IF pbRun = "running" THEN PbEnds("failed") ELSE UNCHANGED <<pbRun, pbMail>>
          /\ pbRunner' = "fail-check" /\ UNCHANGED pbAttempt
    /\ UNCHANGED <<pbReporter, pbFound, pbCheck, pbComments, pbReceipt, pbGaveUp>>

\* The text of the runner: what the run ended in, and "failed" after a failure
\* whatever advance(RunFailed) answered.
PbRunnerState == IF pbRunner \in {"fail-check", "fail-write"} THEN "failed" ELSE pbRun

RunnerCheck(ok) ==
    /\ pbRunner \in {"stop-check", "fail-check"}
    /\ PbCheckCall(terminalStatus(PbRunnerState), ok)
    /\ RecordPublicationReceipts("status", IF ok THEN "published" ELSE "retry")
    /\ PbFind("runner")
    /\ pbRunner' = IF pbRunner = "stop-check" THEN "stop-write" ELSE "fail-write"
    /\ UNCHANGED <<pbRun, pbAttempt, pbReporter, pbMail, pbComments, pbGaveUp>>

RunnerSummary(ok) ==
    /\ pbRunner \in {"stop-write", "fail-write"}
    /\ PbUpsert("runner", PbRunnerState, ok)
    /\ pbRunner' = "done"
    /\ UNCHANGED <<pbRun, pbAttempt, pbReporter, pbMail, pbFound, pbCheck, pbReceipt, pbGaveUp>>

\* The runner dies.  A run that is still executing is claimed again.
RunnerDies ==
    /\ pbRunner # "done"
    /\ IF pbRun = "running" /\ pbAttempt < MaxRunnerAttempts
       THEN pbAttempt' = pbAttempt + 1 /\ pbRunner' = "start" /\ UNCHANGED <<pbRun, pbMail>>
       ELSE /\ pbRunner' = "done" /\ UNCHANGED pbAttempt
            /\ IF pbRun = "running" THEN PbEnds("failed") ELSE UNCHANGED <<pbRun, pbMail>>
    /\ UNCHANGED <<pbReporter, pbFound, pbCheck, pbComments, pbReceipt, pbGaveUp>>

-----------------------------------------------------------------------------
\* Publish of the terminal reporter: it reads the run as it is now.
BeginReport(n) ==
    /\ pbReporter = PbIdle /\ n \in pbMail /\ pbRun \in PbReported
    /\ pbReporter' = [pc |-> "check", attempt |-> n, state |-> pbRun]
    /\ UNCHANGED <<pbRun, pbRunner, pbAttempt, pbMail, pbFound, pbCheck, pbComments, pbReceipt, pbGaveUp>>

ReportCheck ==
    /\ pbReporter.pc = "check"
    /\ PbCheckCall(terminalStatus(pbReporter.state), TRUE)
    /\ RecordPublicationReceipts("status", "published")
    /\ PbFind("reporter")
    /\ pbReporter' = [pbReporter EXCEPT !.pc = "write"]
    /\ UNCHANGED <<pbRun, pbRunner, pbAttempt, pbMail, pbComments, pbGaveUp>>

ReportSummary ==
    /\ pbReporter.pc = "write"
    /\ PbUpsert("reporter", pbReporter.state, TRUE)
    /\ RecordPublicationReceipts("summary", "published")
    /\ pbMail' = pbMail \ {pbReporter.attempt} /\ pbReporter' = PbIdle
    /\ UNCHANGED <<pbRun, pbRunner, pbAttempt, pbFound, pbCheck, pbGaveUp>>

\* Mutant: the message is acknowledged and nothing follows it.
ReportFailsQuietly(final) ==
    /\ pbReporter.pc \in {"check", "write"}
    /\ RecordPublicationReceipts(IF pbReporter.pc = "check" THEN "status" ELSE "summary", "retry")
    /\ pbMail' = pbMail \ {pbReporter.attempt} /\ pbReporter' = PbIdle
    /\ UNCHANGED <<pbRun, pbRunner, pbAttempt, pbFound, pbCheck, pbComments, pbGaveUp>>

\* A call fails (Handle).  A permanent refusal and the last attempt are
\* recorded as final; otherwise the successor is in the outbox before the
\* message is acknowledged (ScheduleTerminalPublicationRetry).
ReportFails(final) ==
    LET surface == IF pbReporter.pc = "check" THEN "status" ELSE "summary"
        over == final \/ pbReporter.attempt >= maxTerminalPublicationAttempts IN
    /\ pbReporter.pc \in {"check", "write"}
    /\ IF pbReporter.pc = "check"
       THEN PbCheckCall(terminalStatus(pbReporter.state), FALSE) /\ UNCHANGED pbComments
       ELSE PbUpsert("reporter", pbReporter.state, FALSE) /\ UNCHANGED pbCheck
    /\ RecordPublicationReceipts(surface, IF over THEN "final" ELSE "retry")
    /\ pbMail' = (pbMail \ {pbReporter.attempt})
                 \cup (IF over THEN {} ELSE {pbReporter.attempt + 1})
    /\ pbReporter' = PbIdle
    /\ pbGaveUp' = (pbGaveUp \/ over)
    /\ UNCHANGED <<pbRun, pbRunner, pbAttempt, pbFound>>

\* The reporter dies; the message comes again.
ReporterDies ==
    /\ pbReporter # PbIdle /\ pbReporter' = PbIdle
    /\ UNCHANGED <<pbRun, pbRunner, pbAttempt, pbMail, pbFound, pbCheck, pbComments, pbReceipt, pbGaveUp>>

PbNext ==
    \/ \E state \in {"cancelled", "superseded"} : StopFromOutside(state)
    \/ BeginPublish \/ CompleteRun \/ ProcessingError \/ RunnerDies
    \/ \E ok \in BOOLEAN :
          \/ StartCheck(ok) \/ PublishResult(ok) \/ CompleteGate(ok)
          \/ RunnerCheck(ok) \/ RunnerSummary(ok)
    \/ \E n \in pbMail : BeginReport(n)
    \/ ReportCheck \/ ReportSummary \/ ReporterDies
    \/ \E final \in BOOLEAN : ReportFails(final)

-----------------------------------------------------------------------------
\* Once no message is left, a run that ended short shows a closed check and a
\* comment at the provider, or the reporter has recorded that a person has to
\* act; runner and reporter may have failed or died at any call, and the
\* runner may start its check after the run was stopped.
NoEndIsSilent ==
    (pbRun \in PbReported /\ pbMail = {}) =>
        \/ pbGaveUp
        \/ pbComments # <<>> /\ pbCheck \notin {"none", "in_progress"}
=============================================================================
