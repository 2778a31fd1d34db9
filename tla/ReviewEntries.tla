---------------------------- MODULE ReviewEntries ----------------------------
(***************************************************************************)
(* The ways into a review of one merge request: webhooks, whose author may *)
(* have to be read at the provider first (store/gitlab_author_admission.go *)
(* with providermetadata/processor.go), schedules                          *)
(* (store/review_schedules.go) and the command line                        *)
(* (store/cli_reviews.go).  Each ends in createWorkflowRun, which replaces *)
(* the active run of another head and joins the active run of the same.    *)
(*                                                                         *)
(* Heads are numbered in the order of the pushes; a webhook carries the    *)
(* head of its push and may arrive at any later time, in any order.  A run *)
(* is its position in the order of creation.                               *)
(***************************************************************************)
EXTENDS Integers, Sequences

CONSTANTS
    MaxHeads,      \* bound: pushes
    MaxEntryRuns,  \* bound: runs of the request
    MaxLookups,    \* attempts of an author lookup (5 in the code)
    ReWorkers,     \* provider metadata workers
    CliKeys        \* idempotency keys of command line submissions

ASSUME EntriesAssumption == MaxHeads \in Nat \ {0} /\ MaxEntryRuns \in Nat \ {0}
                               /\ MaxLookups \in Nat \ {0}

VARIABLES
    reHead,      \* newest head at the provider
    reRuns,      \* runs of the request, oldest first
    reHook,      \* webhook of each head with its author admission
    reWorker,    \* the admission a worker holds
    reSchedule,  \* one scheduled re-review
    reCli        \* submissions by key

reVars == <<reHead, reRuns, reHook, reWorker, reSchedule, reCli>>

ReHeads == 1..MaxHeads
ReNobody == "nobody"
ReNoTask == [hook |-> 0, attempt |-> 0, step |-> "idle"]
ReNoHook == [state |-> "none", received |-> 0, attempt |-> 0, worker |-> ReNobody,
             live |-> FALSE]

ReInit ==
    /\ reHead = 1 /\ reRuns = <<>>
    /\ reHook = [h \in ReHeads |-> ReNoHook]
    /\ reWorker = [w \in ReWorkers |-> ReNoTask]
    /\ reSchedule = [state |-> "none", head |-> 0]
    /\ reCli = [k \in CliKeys |-> [step |-> "none", head |-> 0, run |-> 0]]

\* createWorkflowRun: runs of other heads are superseded; an active run of the
\* same head takes the request, otherwise a run is appended.  A quota that is
\* used up leaves a run that failed.
ReSuperseded(h) == [r \in DOMAIN reRuns |->
    IF reRuns[r].state = "active" /\ reRuns[r].head # h
    THEN [reRuns[r] EXCEPT !.state = "superseded"] ELSE reRuns[r]]
ReActive(h) == {r \in DOMAIN reRuns : reRuns[r].state = "active" /\ reRuns[r].head = h}
createWorkflowRun(h) ==
    IF ReActive(h) # {} THEN reRuns' = ReSuperseded(h)
    ELSE /\ Len(reRuns) < MaxEntryRuns
         /\ \E state \in {"active", "failed"} :
               reRuns' = Append(ReSuperseded(h), [head |-> h, state |-> state])

RePush == reHead < MaxHeads /\ reHead' = reHead + 1
          /\ UNCHANGED <<reRuns, reHook, reWorker, reSchedule, reCli>>
\* The current run finishes.
ReFinish(r) ==
    /\ reRuns[r].state = "active"
    /\ reRuns' = [reRuns EXCEPT ![r].state = "completed"]
    /\ UNCHANGED <<reHead, reHook, reWorker, reSchedule, reCli>>

-----------------------------------------------------------------------------
\* Enqueue of a webhook: the policy skips it, admits it, or needs the name of
\* its author (needsGitLabAuthorResolution).  A second delivery is a duplicate.
EnqueueWebhook(h, policy) ==
    /\ h <= reHead /\ reHook[h].state = "none"
    /\ \/ /\ policy = "skip" /\ UNCHANGED reRuns
          /\ reHook' = [reHook EXCEPT ![h].state = "skipped"]
       \/ /\ policy = "admit" /\ createWorkflowRun(h)
          /\ reHook' = [reHook EXCEPT ![h].state = "admitted"]
       \/ /\ policy = "author" /\ UNCHANGED reRuns
          /\ reHook' = [reHook EXCEPT ![h].state = "queued", ![h].received = Len(reRuns)]
    /\ UNCHANGED <<reHead, reWorker, reSchedule, reCli>>

ClaimGitLabAuthorAdmission(w, h) ==
    /\ reWorker[w] = ReNoTask
    /\ \/ reHook[h].state = "queued"
       \/ reHook[h].state = "running" /\ ~reHook[h].live
    /\ reHook[h].attempt < MaxLookups   \* bound: reclaims of lapsed leases are unlimited
    /\ reHook' = [reHook EXCEPT ![h] =
           [@ EXCEPT !.state = "running", !.attempt = reHook[h].attempt + 1, !.worker = w,
                     !.live = TRUE]]
    /\ reWorker' = [reWorker EXCEPT ![w] =
           [hook |-> h, attempt |-> reHook[h].attempt + 1, step |-> "claimed"]]
    /\ UNCHANGED <<reHead, reRuns, reSchedule, reCli>>

\* lockGitLabAuthorAdmission: the claim is still this worker's.
lockGitLabAuthorAdmission(w) ==
    LET k == reHook[reWorker[w].hook] IN
    k.state = "running" /\ k.worker = w /\ k.attempt = reWorker[w].attempt /\ k.live
ReSettled(h, state) == reHook' = [reHook EXCEPT ![h] =
    [@ EXCEPT !.state = state, !.worker = ReNobody, !.live = FALSE]]
ReReleases(w) == reWorker' = [reWorker EXCEPT ![w] = ReNoTask]

\* ResolveAuthor: the provider answers for the head it has now, another one
\* ends the admission; the answer is used in a later transaction.
ResolveAuthor(w) ==
    LET h == reWorker[w].hook IN
    /\ reWorker[w].step = "claimed"
    /\ IF reHead = h
       THEN reWorker' = [reWorker EXCEPT ![w].step = "read"] /\ UNCHANGED reHook
       ELSE /\ ReReleases(w)
            /\ IF lockGitLabAuthorAdmission(w) THEN ReSettled(h, "skipped")
                                               ELSE UNCHANGED reHook
    /\ UNCHANGED <<reHead, reRuns, reSchedule, reCli>>

\* The read fails: queued again, failed with the last attempt.
RetryGitLabAuthorAdmission(w) ==
    LET h == reWorker[w].hook IN
    /\ reWorker[w].step = "claimed" /\ ReReleases(w)
    /\ IF lockGitLabAuthorAdmission(w)
       THEN ReSettled(h, IF reWorker[w].attempt >= MaxLookups THEN "failed" ELSE "queued")
       ELSE UNCHANGED reHook
    /\ UNCHANGED <<reHead, reRuns, reSchedule, reCli>>

\* A run of another head, created after the webhook came in, is the newest.
ReNewer(h) ==
    LET n == Len(reRuns) IN
    n > 0 /\ n > reHook[h].received /\ reRuns[n].head # h

\* Mutant: the newest run is not looked at.
CompleteUnasked(w, policy) ==
    LET h == reWorker[w].hook IN
    /\ reWorker[w].step = "read" /\ ReReleases(w)
    /\ IF ~lockGitLabAuthorAdmission(w) THEN UNCHANGED <<reHook, reRuns>>
       ELSE IF policy = "skip"
       THEN ReSettled(h, "skipped") /\ UNCHANGED reRuns
       ELSE ReSettled(h, "admitted") /\ createWorkflowRun(h)
    /\ UNCHANGED <<reHead, reSchedule, reCli>>

\* Complete: the installation or the policy may refuse, a newer run wins.
CompleteGitLabAuthorAdmission(w, policy) ==
    LET h == reWorker[w].hook IN
    /\ reWorker[w].step = "read" /\ ReReleases(w)
    /\ IF ~lockGitLabAuthorAdmission(w) THEN UNCHANGED <<reHook, reRuns>>
       ELSE IF policy = "skip" \/ ReNewer(h)
       THEN ReSettled(h, "skipped") /\ UNCHANGED reRuns
       ELSE ReSettled(h, "admitted") /\ createWorkflowRun(h)
    /\ UNCHANGED <<reHead, reSchedule, reCli>>

ReLeaseLapses(h) ==
    /\ reHook[h].state = "running" /\ reHook[h].live
    /\ reHook' = [reHook EXCEPT ![h].live = FALSE]
    /\ UNCHANGED <<reHead, reRuns, reWorker, reSchedule, reCli>>

-----------------------------------------------------------------------------
\* CreateReviewSchedule: the head of a run that ended, for later.
CreateReviewSchedule(r) ==
    /\ reSchedule.state = "none" /\ reRuns[r].state # "active"
    /\ reSchedule' = [state |-> "scheduled", head |-> reRuns[r].head]
    /\ UNCHANGED <<reHead, reRuns, reHook, reWorker, reCli>>

CancelReviewSchedule ==
    /\ reSchedule.state \in {"scheduled", "blocked"}
    /\ reSchedule' = [reSchedule EXCEPT !.state = "cancelled"]
    /\ UNCHANGED <<reHead, reRuns, reHook, reWorker, reCli>>

\* AdmitDueReviewSchedule: one transaction; blocked when the connection or the
\* setup does not allow a review any more.
AdmitDueReviewSchedule(allowed) ==
    /\ reSchedule.state = "scheduled"
    /\ IF ~allowed
       THEN reSchedule' = [reSchedule EXCEPT !.state = "blocked"] /\ UNCHANGED reRuns
       ELSE /\ createWorkflowRun(reSchedule.head)
            /\ reSchedule' = [reSchedule EXCEPT !.state =
                   IF ReActive(reSchedule.head) # {} THEN "coalesced" ELSE "admitted"]
    /\ UNCHANGED <<reHead, reHook, reWorker, reCli>>

-----------------------------------------------------------------------------
\* SubmitCLIReview: Enqueue under the delivery of the key; a used key is
\* answered from what it started.  run is 0 when the submission joined.
SubmitCLIReview(k, h) ==
    /\ reCli[k].step \in {"none", "answered", "lost"} /\ h <= reHead
    /\ IF reCli[k].step = "none"
       THEN /\ createWorkflowRun(h)
            /\ reCli' = [reCli EXCEPT ![k] = [step |-> "enqueued", head |-> h,
                   run |-> IF ReActive(h) = {} THEN Len(reRuns) + 1 ELSE 0]]
       ELSE /\ h = reCli[k].head /\ UNCHANGED reRuns
            /\ reCli' = [reCli EXCEPT ![k].step = "enqueued"]
    /\ UNCHANGED <<reHead, reHook, reWorker, reSchedule>>

\* resolveCLIReviewSubmission, in a later transaction: the run of the job, or
\* the active run of the head, if it is still active.
resolveCLIReviewSubmission(k) ==
    /\ reCli[k].step = "enqueued"
    /\ reCli' = [reCli EXCEPT ![k].step =
           IF reCli[k].run # 0 \/ ReActive(reCli[k].head) # {} THEN "answered" ELSE "lost"]
    /\ UNCHANGED <<reHead, reRuns, reHook, reWorker, reSchedule>>

RequestCLIReviewCancellation(k) ==
    /\ reCli[k].step = "answered" /\ reCli[k].run # 0
    /\ reRuns[reCli[k].run].state = "active"
    /\ reRuns' = [reRuns EXCEPT ![reCli[k].run].state = "cancelled"]
    /\ UNCHANGED <<reHead, reHook, reWorker, reSchedule, reCli>>

ReCompletes == \E w \in ReWorkers, policy \in {"skip", "admit"} :
    CompleteGitLabAuthorAdmission(w, policy)

ReNext ==
    \/ RePush \/ \E r \in DOMAIN reRuns : ReFinish(r) \/ CreateReviewSchedule(r)
    \/ \E h \in ReHeads, policy \in {"skip", "admit", "author"} : EnqueueWebhook(h, policy)
    \/ \E w \in ReWorkers :
          \/ \E h \in ReHeads : ClaimGitLabAuthorAdmission(w, h)
          \/ ResolveAuthor(w) \/ RetryGitLabAuthorAdmission(w)
    \/ ReCompletes
    \/ \E h \in ReHeads : ReLeaseLapses(h)
    \/ CancelReviewSchedule
    \/ \E allowed \in BOOLEAN : AdmitDueReviewSchedule(allowed)
    \/ \E k \in CliKeys :
          \/ \E h \in ReHeads : SubmitCLIReview(k, h)
          \/ resolveCLIReviewSubmission(k) \/ RequestCLIReviewCancellation(k)

-----------------------------------------------------------------------------
\* A delayed author lookup never replaces an active run of a newer push,
\* whatever was pushed, scheduled or submitted between the webhook, the read
\* at the provider and the admission: the read refuses a head that is not the
\* newest, the admission a run that came in between, and one alone is not
\* enough (gitlab_author_admission.go:102).
LookupKeepsNewerRun ==
    \A w \in ReWorkers : \A r \in DOMAIN reRuns :
        (/\ reWorker[w].step = "read" /\ reWorker'[w] = ReNoTask
         /\ reRuns[r].state = "active" /\ reRuns[r].head > reWorker[w].hook)
        => reRuns'[r].state = "active"
=============================================================================
