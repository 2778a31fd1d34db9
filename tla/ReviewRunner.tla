---------------------------- MODULE ReviewRunner ----------------------------
(***************************************************************************)
(* Review execution: runner threads (the poll loop and the queue consumer  *)
(* of cmd/runner) claim jobs and drive Processor.runClaimed of             *)
(* internal/runner/runner.go against the shared ReviewStore, while the     *)
(* provider's head moves, webhooks arrive late or out of order, users      *)
(* cancel and retry, leases lapse and processes die.                       *)
(*                                                                         *)
(* Checkout, model and policy code is one step that succeeds or fails; a   *)
(* set of findings is named by the attempt that computed it.               *)
(***************************************************************************)
EXTENDS ReviewStore

CONSTANTS
    Workers,     \* runner threads
    RunnerID,    \* the RUNNER_ID each of them claims with
    MaxHead,     \* bound: pushes to a review
    MaxFailures, \* bound: errors of checkout, model or provider
    MaxCrashes   \* bound: processes that die, leases that overrun

ASSUME RunnerAssumption ==
    /\ DOMAIN RunnerID = Workers
    /\ \A w \in Workers : RunnerID[w] \in Owners
    /\ MaxHead \in Nat /\ MaxFailures \in Nat /\ MaxCrashes \in Nat

VARIABLES
    worker,       \* what each runner thread is doing
    providerHead, \* the head the provider shows for each review
    findings,     \* the attempt whose findings are stored for a run
    published,    \* the attempt whose findings the provider shows for a run
    failures,     \* errors so far
    crashes       \* crashes and overruns so far

envVars == <<providerHead, findings, published, failures, crashes>>
vars == <<runs, jobs, usage, stages, intervention, outbox, current, deliveries,
          worker, providerHead, findings, published, failures, crashes>>

\* The pcs inside Processor.process, watched by cancelReviewWhenTerminal.
Processing == {"checkout", "review", "save", "normalize", "enter", "publish",
               "write", "complete"}
Pcs == Processing \cup {"idle", "claimed", "verify", "prepare", "supersede",
                        "stop", "fail", "failrun", "succeed"}

WorkerStates == [pc : Pcs, run : RunIds \cup {0}, attempt : Nat,
                 resuming : BOOLEAN, \* resumePublication
                 fatal : BOOLEAN,    \* the failure is not retried
                 held : Nat]         \* the findings about to be published

Idle == [pc |-> "idle", run |-> 0, attempt |-> 0, resuming |-> FALSE,
         fatal |-> FALSE, held |-> 0]

TypeOK ==
    /\ StoreTypeOK
    /\ worker \in [Workers -> WorkerStates]
    /\ \A w \in Workers : worker[w].pc # "idle" => worker[w].run \in RunIds
    /\ providerHead \in [Requests -> Nat]
    /\ findings \in [RunIds -> Nat]
    /\ published \in [RunIds -> Nat]
    /\ failures \in 0..MaxFailures
    /\ crashes \in 0..MaxCrashes

Init ==
    /\ StoreInit
    /\ worker = [w \in Workers |-> Idle]
    /\ providerHead = [q \in Requests |-> 1]
    /\ findings = [r \in RunIds |-> 0]
    /\ published = [r \in RunIds |-> 0]
    /\ failures = 0
    /\ crashes = 0

Run(w) == worker[w].run
HeadIsCurrent(r) == providerHead[runs[r].req] = runs[r].head
Goto(w, pc) == worker' = [worker EXCEPT ![w].pc = pc]
Leave(w) == worker' = [worker EXCEPT ![w] = Idle]

\* stopTerminalRun for a run observed to have ended: a completed run leaves
\* nothing to do, any other end cancels the job.
Halt(w, state) == IF state = "completed" THEN Leave(w) ELSE Goto(w, "stop")

Fails == failures < MaxFailures /\ failures' = failures + 1
Crashes == crashes < MaxCrashes /\ crashes' = crashes + 1

\* A thread that still works under the latest claim of r.
LiveHolder(r) ==
    \E w \in Workers : /\ worker[w].pc # "idle" /\ Run(w) = r
                       /\ worker[w].attempt = jobs[r].attempts

-----------------------------------------------------------------------------
(* runClaimed.                                                             *)

Claimed(w, r) ==
    worker' = [worker EXCEPT ![w] = [Idle EXCEPT !.pc = "claimed", !.run = r,
                                                 !.attempt = jobs[r].attempts + 1]]

RunOnce(w, r) ==
    /\ worker[w].pc = "idle"
    /\ Claim(r, RunnerID[w])
    /\ Claimed(w, r)
    /\ UNCHANGED envVars

RunForRun(w, r) ==
    /\ worker[w].pc = "idle"
    /\ ClaimForRun(r, RunnerID[w])
    /\ Claimed(w, r)
    /\ UNCHANGED envVars

\* The tenant is at capacity: the delivery is acknowledged, the poller comes
\* back to the run later.
RunForRunDefers(w, r) ==
    /\ worker[w].pc = "idle"
    /\ DeferRun(r)
    /\ UNCHANGED <<worker, envVars>>

\* Mutant: publication is resumed from the normalizing stage too.
AdmitResumesEarly(w) ==
    LET state == Advanced(Run(w), "admitted") IN
    /\ worker[w].pc = "claimed"
    /\ AdvanceLegacyRun(Run(w), "admitted")
    /\ worker' = [worker EXCEPT ![w].pc = "verify",
                                ![w].resuming = state \in {"normalizing", "publishing"}]
    /\ UNCHANGED envVars

\* advance(RunAdmitted) and stopTerminalRun.
Admit(w) ==
    LET state == Advanced(Run(w), "admitted") IN
    /\ worker[w].pc = "claimed"
    /\ AdvanceLegacyRun(Run(w), "admitted")
    /\ IF Terminal(state) /\ state # "completed"
       THEN Goto(w, "stop")
       ELSE worker' = [worker EXCEPT ![w].pc = "verify",
                                     ![w].resuming = (state = "publishing")]
    /\ UNCHANGED envVars

\* VerifyCurrentReview, then resumePublication with the stored findings or
\* the full path.
VerifyCurrentReview(w) ==
    /\ worker[w].pc = "verify"
    /\ worker' = [worker EXCEPT
                     ![w].pc = IF ~HeadIsCurrent(Run(w)) THEN "supersede"
                               ELSE IF worker[w].resuming THEN "publish" ELSE "prepare",
                     ![w].held = IF worker[w].resuming THEN findings[Run(w)] ELSE 0]
    /\ UNCHANGED <<storeVars, envVars>>

Prepare(w) ==
    LET state == Advanced(Run(w), "preparing") IN
    /\ worker[w].pc = "prepare"
    /\ AdvanceLegacyRun(Run(w), "preparing")
    /\ IF Terminal(state) /\ state # "completed" THEN Goto(w, "stop")
                                                 ELSE Goto(w, "checkout")
    /\ UNCHANGED envVars

\* The checkout is ready: advance(RunAnalyzing).
Analyze(w) ==
    LET state == Advanced(Run(w), "analyzing") IN
    /\ worker[w].pc = "checkout"
    /\ AdvanceLegacyRun(Run(w), "analyzing")
    /\ IF Terminal(state) /\ state # "completed" THEN Goto(w, "stop")
                                                 ELSE Goto(w, "review")
    /\ UNCHANGED envVars

\* reviewUntilTerminal returns: the run is observed once more.
Review(w) ==
    LET state == Advanced(Run(w), "analyzing") IN
    /\ worker[w].pc = "review"
    /\ AdvanceLegacyRun(Run(w), "analyzing")
    /\ IF Terminal(state) THEN Halt(w, state) ELSE Goto(w, "save")
    /\ UNCHANGED envVars

\* SaveFindings is not fenced by the claim.
SaveFindings(w) ==
    /\ worker[w].pc = "save"
    /\ findings' = [findings EXCEPT ![Run(w)] = worker[w].attempt]
    /\ worker' = [worker EXCEPT ![w].pc = "normalize", ![w].held = worker[w].attempt]
    /\ UNCHANGED <<storeVars, providerHead, published, failures, crashes>>

Normalize(w) ==
    LET state == Advanced(Run(w), "normalizing") IN
    /\ worker[w].pc = "normalize"
    /\ AdvanceLegacyRun(Run(w), "normalizing")
    /\ IF Terminal(state) THEN Halt(w, state) ELSE Goto(w, "enter")
    /\ UNCHANGED envVars

EnterPublishing(w) ==
    LET state == Advanced(Run(w), "publishing") IN
    /\ worker[w].pc = "enter"
    /\ AdvanceLegacyRun(Run(w), "publishing")
    /\ IF Terminal(state) THEN Halt(w, state) ELSE Goto(w, "publish")
    /\ UNCHANGED envVars

\* PublishWithReceipts: verifyCurrentHead first, then the provider writes.
VerifyBeforePublication(w) ==
    /\ worker[w].pc = "publish"
    /\ Goto(w, IF HeadIsCurrent(Run(w)) THEN "write" ELSE "supersede")
    /\ UNCHANGED <<storeVars, envVars>>

\* What a publication that reaches the provider leaves behind.
Lands(w) == published' = [published EXCEPT ![Run(w)] = worker[w].held]

Publish(w) ==
    /\ worker[w].pc = "write"
    /\ Lands(w)
    /\ Goto(w, "complete")
    /\ UNCHANGED <<storeVars, providerHead, findings, failures, crashes>>

Complete(w) ==
    LET state == Advanced(Run(w), "completed") IN
    /\ worker[w].pc = "complete"
    /\ AdvanceLegacyRun(Run(w), "completed")
    /\ IF state = "completed" THEN Goto(w, "succeed") ELSE Goto(w, "stop")
    /\ UNCHANGED envVars

Succeed(w) ==
    /\ worker[w].pc = "succeed"
    /\ FinishJob(Run(w), RunnerID[w], "succeeded")
    /\ Leave(w)
    /\ UNCHANGED envVars

\* supersedeStaleProviderHead.
Supersede(w) ==
    LET state == Advanced(Run(w), "superseded") IN
    /\ worker[w].pc = "supersede"
    /\ AdvanceLegacyRun(Run(w), "superseded")
    /\ Halt(w, state)
    /\ UNCHANGED envVars

StopTerminalRun(w) ==
    /\ worker[w].pc = "stop"
    /\ FinishJob(Run(w), RunnerID[w], "cancelled")
    /\ Leave(w)
    /\ UNCHANGED envVars

\* Mutant: the runner allows one attempt more than the store.
RecordFailureLate(w) ==
    /\ worker[w].pc = "fail"
    /\ IF worker[w].fatal THEN FinishJob(Run(w), RunnerID[w], "failed")
                          ELSE Fail(Run(w), RunnerID[w])
    /\ IF worker[w].fatal \/ worker[w].attempt > MaxAttempts
       THEN Goto(w, "failrun") ELSE Leave(w)
    /\ UNCHANGED envVars

\* handleProcessingError: the job first (a lost claim is ignored), then, in
\* a second transaction, the run.
RecordFailure(w) ==
    /\ worker[w].pc = "fail"
    /\ IF worker[w].fatal THEN FinishJob(Run(w), RunnerID[w], "failed")
                          ELSE Fail(Run(w), RunnerID[w])
    /\ IF worker[w].fatal \/ worker[w].attempt >= MaxAttempts
       THEN Goto(w, "failrun") ELSE Leave(w)
    /\ UNCHANGED envVars

FailRun(w) ==
    /\ worker[w].pc = "failrun"
    /\ AdvanceLegacyRun(Run(w), "failed")
    /\ Leave(w)
    /\ UNCHANGED envVars

-----------------------------------------------------------------------------
(* The watchers of an execution.                                           *)

\* cancelReviewWhenTerminal polls by calling advance(RunAnalyzing), which
\* moves a run that is still preparing.
Watch(w) ==
    /\ worker[w].pc \in Processing /\ ~worker[w].resuming
    /\ runs[Run(w)].state = "preparing"
    /\ AdvanceLegacyRun(Run(w), "analyzing")
    /\ UNCHANGED <<worker, envVars>>

\* The watcher sees that the run has ended and cancels the execution; process
\* returns an error, and processUntilTerminal looks at the run again.  During
\* the review the inner watcher may be first, and reviewUntilTerminal sees the
\* end itself.  The provider write that was interrupted may have landed.
Interrupt(w) ==
    /\ worker[w].pc \in Processing /\ ~worker[w].resuming
    /\ Terminal(runs[Run(w)].state)
    /\ \/ Goto(w, IF runs[Run(w)].state = "completed" THEN "fail" ELSE "stop")
       \/ worker[w].pc = "review" /\ Halt(w, runs[Run(w)].state)
    /\ \/ UNCHANGED published
       \/ worker[w].pc = "write" /\ Lands(w)
    /\ UNCHANGED <<storeVars, providerHead, findings, failures, crashes>>

\* keepClaimAlive: a renewal revives a lapsed lease nobody has taken ...
Renew(w) ==
    /\ worker[w].pc # "idle"
    /\ ~jobs[Run(w)].leased
    /\ RenewClaim(Run(w), RunnerID[w])
    /\ UNCHANGED <<worker, envVars>>

\* ... and cancels the execution when the claim is lost.
RenewalFails(w) ==
    /\ worker[w].pc \in Processing \cup {"claimed", "verify", "prepare"}
    /\ ~Owns(Run(w), RunnerID[w])
    /\ \/ worker[w].pc \in {"claimed", "prepare"} /\ Leave(w)
       \/ worker[w].pc \in Processing \cup {"verify"} /\ Goto(w, "fail")
    /\ \/ UNCHANGED published
       \/ worker[w].pc = "write" /\ Lands(w)
    /\ UNCHANGED <<storeVars, providerHead, findings, failures, crashes>>

\* Checkout, model, store or provider fail.  An exhausted time budget, a
\* permanent provider error and a malformed revision are not retried.
ExecutionFails(w) ==
    /\ worker[w].pc \in Processing \cup {"verify"}
    /\ Fails
    /\ IF /\ worker[w].pc \in Processing /\ ~worker[w].resuming
          /\ Terminal(runs[Run(w)].state)
          /\ worker[w].pc = "review" \/ runs[Run(w)].state # "completed"
       THEN Halt(w, runs[Run(w)].state)
       ELSE \E fatal \in IF worker[w].pc \in {"verify", "review", "publish", "write"}
                         THEN BOOLEAN ELSE {FALSE} :
               worker' = [worker EXCEPT ![w].pc = "fail", ![w].fatal = fatal]
    /\ \/ UNCHANGED published
       \/ worker[w].pc = "write" /\ Lands(w)
    /\ UNCHANGED <<storeVars, providerHead, findings, crashes>>

\* The process dies, or an error of the store ends runClaimed early.
WorkerCrashes(w) ==
    /\ worker[w].pc # "idle"
    /\ Crashes
    /\ Leave(w)
    /\ UNCHANGED <<storeVars, providerHead, findings, published, failures>>

LeaseLapses(r) ==
    /\ ~LiveHolder(r)
    /\ LeaseEnds(r)
    /\ UNCHANGED <<worker, envVars>>

\* Renewals are late (a stalled process or store) and the lease ends.
LeaseOverruns(r) ==
    /\ LiveHolder(r)
    /\ Crashes
    /\ LeaseEnds(r)
    /\ UNCHANGED <<worker, providerHead, findings, published, failures>>

-----------------------------------------------------------------------------
(* Provider and users.                                                     *)

Push(q) ==
    /\ providerHead[q] < MaxHead
    /\ providerHead' = [providerHead EXCEPT ![q] = @ + 1]
    /\ UNCHANGED <<storeVars, worker, findings, published, failures, crashes>>

\* Deliveries for any head pushed so far, in any order.
Webhook(q, head) ==
    /\ head \in 1..providerHead[q]
    /\ Enqueue(q, head) \/ Coalesce(q, head)
    /\ UNCHANGED <<worker, envVars>>

StoreStep(r) ==
    /\ \/ RequestRunRetry(r)
       \/ RequestRunCancellation(r)
       \/ Acknowledge(r)
       \/ ClaimReviewIntervention(r)
       \/ ResolveReviewIntervention(r)
       \/ BackoffElapses(r)
    /\ UNCHANGED <<worker, envVars>>

RunClaimed(w) ==
    \/ Admit(w)
    \/ VerifyCurrentReview(w)
    \/ Prepare(w)
    \/ Analyze(w)
    \/ Review(w)
    \/ SaveFindings(w)
    \/ Normalize(w)
    \/ EnterPublishing(w)
    \/ VerifyBeforePublication(w)
    \/ Publish(w)
    \/ Complete(w)
    \/ Succeed(w)
    \/ Supersede(w)
    \/ StopTerminalRun(w)
    \/ RecordFailure(w)
    \/ FailRun(w)

Next ==
    \/ \E q \in Requests : Push(q) \/ \E head \in 1..MaxHead : Webhook(q, head)
    \/ \E r \in RunIds : StoreStep(r) \/ LeaseLapses(r) \/ LeaseOverruns(r)
    \/ \E w \in Workers :
          \/ \E r \in RunIds : \/ RunOnce(w, r)
                             \/ RunForRun(w, r)
                             \/ RunForRunDefers(w, r)
          \/ RunClaimed(w)
          \/ Watch(w)
          \/ Interrupt(w)
          \/ Renew(w)
          \/ RenewalFails(w)
          \/ ExecutionFails(w)
          \/ WorkerCrashes(w)

SafeSpec == Init /\ [][Next]_vars

\* Threads run on, the poller polls, clocks advance and the acknowledgement
\* of a run reaches the acknowledger.  Failures and users are never fair.
Fairness ==
    /\ \A w \in Workers : WF_vars(RunClaimed(w))
    /\ WF_vars(\E w \in Workers, r \in RunIds : RunOnce(w, r))
    /\ \A r \in RunIds : /\ WF_vars(LeaseLapses(r))
                         /\ WF_vars(BackoffElapses(r) /\ UNCHANGED <<worker, envVars>>)
                         /\ WF_vars(Acknowledge(r) /\ UNCHANGED <<worker, envVars>>)

Spec == SafeSpec /\ Fairness

-----------------------------------------------------------------------------
(* Properties.                                                             *)

\* A review never has two active runs, and its active run is the one the
\* review points to, whatever webhooks, retries and cancellations race.
OneActiveRun ==
    \A q \in Requests : \A r \in ActiveRuns(q) : r = current[q]

\* Quota follows execution: exactly the active runs hold a reservation, and
\* exactly the completed ones are charged.  Every path that ends a run has
\* to finalize its reservation in the same transaction.
UsageMatchesRun ==
    \A r \in RunIds : /\ usage[r] = "reserved" <=> Active(r)
                      /\ usage[r] = "settled" <=> runs[r].state = "completed"

\* Reservations and charges never exceed the hard limit.
QuotaNeverExceeded == HardLimit > 0 => Committed =< HardLimit

\* Each run that has ended is announced exactly once, with its final state and
\* revision, and no run is announced as ended before it is: the terminal
\* reporter and the notifier see one terminal message per run.
TerminalNoticeOnce ==
    \A r \in RunIds :
        {row \in outbox : row[1] = r /\ Terminal(row[3])} =
            IF Terminal(runs[r].state)
            THEN {<<r, runs[r].revision, runs[r].state>>} ELSE {}

\* The stage rows an operator sees tell where a run is and where it failed,
\* however often its stages were replayed: everything before the current stage
\* has succeeded and nothing after it has begun, completion has all of them,
\* and a failed run has one failed stage unless the quota rejected it.  Runs
\* that were cancelled or replaced are left out: their rows are not updated.
EvidenceMatchesRun ==
    \A r \in RunIds :
        LET at == Rank(runs[r].state)
            Split(k, before, there, after) ==
                \A i \in Stages : stages[r][i] = IF i < k THEN before
                                               ELSE IF i = k THEN there ELSE after
        IN /\ runs[r].state = "acknowledged" => stages[r] = Pending
           /\ runs[r].state = "admitted" => Split(at, "succeeded", "succeeded", "pending")
           /\ at > 2 => Split(at, "succeeded", "running", "pending")
           /\ runs[r].state = "completed" => \A i \in Stages : stages[r][i] = "succeeded"
           /\ runs[r].state = "failed" =>
                 IF usage[r] = "none" THEN \A i \in Stages : stages[r][i] = "skipped"
                 ELSE \E k \in Stages : Split(k, "succeeded", "failed", "skipped")

\* What the provider shows was stored first, and it is only shown for a run
\* that had entered publishing: a retry can always resume from the store.
PublishedWasStored ==
    \A r \in RunIds : published[r] # 0 =>
        /\ findings[r] # 0
        /\ runs[r].state \in TerminalStates \cup {"publishing"}

\* As long as no process dies and no lease overruns, an active run always has
\* a job that will be worked on, or a worker that is about to fail the run.
Stranded(r) ==
    /\ Active(r)
    /\ jobs[r].state \notin {"queued", "running"}
    /\ ~\E w \in Workers : worker[w].pc = "failrun" /\ Run(w) = r
NothingStrandsUnlessCrashed ==
    crashes = 0 => \A r \in RunIds : ~Stranded(r)

\* The transactions implement the life cycle a run is promised.
Lifecycle == INSTANCE RunLifecycle
                WITH state <- [r \in RunIds |-> runs[r].state],
                     revision <- [r \in RunIds |-> runs[r].revision]
ImplementsLifecycle == Lifecycle!Spec

\* Every admitted run ends, through crashes, retries and lost leases, unless
\* it is stranded.
EventuallyEnds ==
    \A r \in RunIds : Active(r) ~> Terminal(runs[r].state) \/ Stranded(r)
=============================================================================
