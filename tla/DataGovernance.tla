---------------------------- MODULE DataGovernance ----------------------------
(***************************************************************************)
(* Retention, legal holds, export, deletion and region migration of a      *)
(* tenant's data (store/data_governance.go, data_governance_executor.go)   *)
(* and the worker that carries the jobs out (governance/processor.go,      *)
(* region.go).                                                             *)
(*                                                                         *)
(* One class of data.  Legal holds, decisions and deletions of a tenant    *)
(* exclude each other by an advisory lock, so each is one step.  The       *)
(* window in which a deletion can be taken back and the leases run out by  *)
(* steps of their own.  Columns that nothing reads any more are reset.     *)
(***************************************************************************)
EXTENDS Integers, FiniteSets

CONSTANTS
    DgRepos,        \* repositories of the tenant
    DgOwners,       \* owners: they request, decide and hold
    DgWorkers,      \* worker processes
    MaxDgJobs,      \* bound: jobs
    MaxHolds,       \* bound: legal holds put
    RegionAttempts  \* claims after which an unreachable orchestrator fails a job

ASSUME GovernanceAssumption ==
    /\ MaxDgJobs \in Nat \ {0} /\ MaxHolds \in Nat /\ RegionAttempts \in Nat \ {0}
    /\ "tenant" \notin DgRepos

VARIABLES
    dgHolds,    \* active legal holds: scopes
    dgPut,      \* legal holds put so far
    dgJob,      \* data_governance_jobs
    dgWorker,   \* what a worker has in hand
    dgErased,   \* repositories whose data was erased
    dgRegion,   \* the tenant's data: where the orchestrator has it, what is recorded
    dgPolicy    \* retention: days in force, pending change, its author

dgVars == <<dgHolds, dgPut, dgJob, dgWorker, dgErased, dgRegion, dgPolicy>>

DgScopes == DgRepos \cup {"tenant"}
DgJobs == 1..MaxDgJobs
DgNobody == "nobody"
DgNoJob == [kind |-> "none", scope |-> "tenant", by |-> DgNobody, state |-> "none", window |-> "none",
            worker |-> DgNobody, live |-> FALSE, attempt |-> 0]
DgIdle == [job |-> 0, phase |-> "idle"]


\* A job that ended.  Only of a failed one is the request read again.
DgEnded(j, state) ==
    [dgJob EXCEPT ![j] = IF state = "failed" THEN [DgNoJob EXCEPT !.state = state, !.kind = dgJob[j].kind, !.scope = dgJob[j].scope]
                         ELSE [DgNoJob EXCEPT !.state = state]]

DgInit ==
    /\ dgHolds = {} /\ dgPut = 0 /\ dgErased = {}
    /\ dgJob = [j \in DgJobs |-> DgNoJob]
    /\ dgWorker = [w \in DgWorkers |-> DgIdle]
    /\ dgRegion = [moving |-> FALSE, moved |-> FALSE, recorded |-> FALSE]
    /\ dgPolicy = [days |-> 0, pending |-> 0, by |-> DgNobody]

-----------------------------------------------------------------------------
(* Retention: the first policy and a longer one take effect, a shorter one *)
(* waits for another owner.                                                *)

CreateRetentionPolicy(s, days) ==
    /\ dgPolicy.pending = 0
    /\ dgPolicy' = IF dgPolicy.days # 0 /\ days < dgPolicy.days
                     THEN [dgPolicy EXCEPT !.pending = days, !.by = s]
                     ELSE [dgPolicy EXCEPT !.days = days]
    /\ UNCHANGED <<dgHolds, dgPut, dgJob, dgWorker, dgErased, dgRegion>>

DecideRetentionPolicy(s, approves) ==
    /\ dgPolicy.pending # 0 /\ dgPolicy.by # s
    /\ dgPolicy' = [days |-> IF approves THEN dgPolicy.pending ELSE dgPolicy.days,
                    pending |-> 0, by |-> DgNobody]
    /\ UNCHANGED <<dgHolds, dgPut, dgJob, dgWorker, dgErased, dgRegion>>

-----------------------------------------------------------------------------
(* Holds and jobs.                                                         *)

CreateDataLegalHold(sc) ==
    /\ sc \notin dgHolds /\ dgPut < MaxHolds /\ dgPut' = dgPut + 1
    /\ dgHolds' = dgHolds \cup {sc}
    /\ UNCHANGED <<dgJob, dgWorker, dgErased, dgRegion, dgPolicy>>

ReleaseDataLegalHold(sc) ==
    /\ sc \in dgHolds /\ dgHolds' = dgHolds \ {sc}
    /\ UNCHANGED <<dgPut, dgJob, dgWorker, dgErased, dgRegion, dgPolicy>>

\* A hold of the whole tenant, or of exactly the job's scope.
matchingLegalHold(sc) == "tenant" \in dgHolds \/ sc \in dgHolds

DgCreate(j, s, kind, sc) ==
    /\ dgJob[j].state = "none" /\ \A i \in 1..(j - 1) : dgJob[i].state # "none"
    /\ kind = "region" => sc = "tenant"
    /\ kind = "deletion" => ~matchingLegalHold(sc)
    /\ dgJob' = [dgJob EXCEPT ![j] = [DgNoJob EXCEPT !.kind = kind, !.scope = sc,
                   !.by = IF kind = "export" THEN DgNobody ELSE s,
                   !.state = IF kind = "export" THEN "queued" ELSE "awaiting_approval"]]
    /\ UNCHANGED <<dgHolds, dgPut, dgWorker, dgErased, dgRegion, dgPolicy>>

CreateDataGovernanceJob(j, s, kind, sc) == DgCreate(j, s, kind, sc)

\* A failed job is asked for again as a new one, which is approved anew.
RetryDataGovernanceJob(j, s, i) == dgJob[i].state = "failed" /\ DgCreate(j, s, dgJob[i].kind, dgJob[i].scope)

DecideDataGovernanceJob(s, j, approves) ==
    LET job == dgJob[j] IN
    /\ job.state = "awaiting_approval" /\ job.by # s
    /\ approves /\ job.kind = "deletion" => ~matchingLegalHold(job.scope)
    /\ dgJob' = IF ~approves THEN DgEnded(j, "rejected")
                ELSE [dgJob EXCEPT ![j].state = "queued", ![j].by = DgNobody,
                                   ![j].window = IF job.kind = "deletion" THEN "open" ELSE "none"]
    /\ UNCHANGED <<dgHolds, dgPut, dgWorker, dgErased, dgRegion, dgPolicy>>

WindowCloses(j) ==
    /\ dgJob[j].window = "open" /\ dgJob' = [dgJob EXCEPT ![j].window = "closed"]
    /\ UNCHANGED <<dgHolds, dgPut, dgWorker, dgErased, dgRegion, dgPolicy>>

CancelDataGovernanceJob(j) ==
    /\ dgJob[j].state \in {"awaiting_approval", "queued"} /\ dgJob[j].window # "closed"
    /\ dgJob' = DgEnded(j, "cancelled")
    /\ UNCHANGED <<dgHolds, dgPut, dgWorker, dgErased, dgRegion, dgPolicy>>

-----------------------------------------------------------------------------
(* The worker.                                                             *)

DgDeferred(j) == [dgJob EXCEPT ![j].state = "queued", ![j].worker = DgNobody, ![j].live = FALSE]
DgOwns(w) == LET job == dgJob[dgWorker[w].job] IN job.state = "running" /\ job.worker = w /\ job.live
DgDone(w) == dgWorker' = [dgWorker EXCEPT ![w] = DgIdle]

\* A lost claim leaves the row alone.
DgSettle(w, state) == DgDone(w) /\ dgJob' = IF DgOwns(w) THEN DgEnded(dgWorker[w].job, state) ELSE dgJob

\* A queued job past its window, or a running one without a live lease.  The
\* hold is looked for again.
ClaimDataGovernanceJob(w, j) ==
    LET job == dgJob[j] IN
    /\ dgWorker[w] = DgIdle
    /\ \/ job.state = "queued" /\ (job.kind = "deletion" => job.window = "closed")
       \/ job.state = "running" /\ ~job.live
    /\ IF job.kind = "deletion" /\ matchingLegalHold(job.scope)
         THEN dgJob' = DgEnded(j, "failed") /\ UNCHANGED dgWorker
         ELSE /\ dgJob' = [dgJob EXCEPT ![j].state = "running", ![j].worker = w, ![j].live = TRUE,
                                        ![j].attempt = IF job.kind = "region" /\ @ < RegionAttempts THEN @ + 1 ELSE @]
              /\ dgWorker' = [dgWorker EXCEPT ![w] = [job |-> j, phase |-> "claimed"]]
    /\ UNCHANGED <<dgHolds, dgPut, dgErased, dgRegion, dgPolicy>>

DgCovered(sc) == IF sc = "tenant" THEN DgRepos ELSE {sc}

\* A mutated form: the deletion trusts the check its claim made.
ExecuteUnasked(w) ==
    LET j == dgWorker[w].job IN
    /\ dgWorker[w].phase = "claimed" /\ dgJob[j].kind = "deletion"
    /\ dgErased' = IF DgOwns(w) THEN dgErased \cup DgCovered(dgJob[j].scope) ELSE dgErased
    /\ dgWorker' = [dgWorker EXCEPT ![w] = IF DgOwns(w) THEN [@ EXCEPT !.phase = "erased"] ELSE DgIdle]
    /\ UNCHANGED <<dgHolds, dgPut, dgJob, dgRegion, dgPolicy>>

\* The claim and the holds are checked under the tenant's lock; every class and
\* its tombstone are written in the same transaction.
ExecuteDataGovernanceDeletion(w) ==
    LET j == dgWorker[w].job
        held == matchingLegalHold(dgJob[j].scope)
    IN  /\ dgWorker[w].phase = "claimed" /\ dgJob[j].kind = "deletion"
        /\ dgErased' = IF DgOwns(w) /\ ~held THEN dgErased \cup DgCovered(dgJob[j].scope) ELSE dgErased
        /\ dgWorker' = [dgWorker EXCEPT ![w] =
                          CASE ~DgOwns(w) -> DgIdle
                            [] DgOwns(w) /\ held -> [@ EXCEPT !.phase = "blocked"]
                            [] OTHER -> [@ EXCEPT !.phase = "erased"]]
        /\ UNCHANGED <<dgHolds, dgPut, dgJob, dgRegion, dgPolicy>>

CompleteDataGovernanceOperation(w) ==
    /\ dgWorker[w].phase = "erased" /\ DgSettle(w, "completed")
    /\ UNCHANGED <<dgHolds, dgPut, dgErased, dgRegion, dgPolicy>>

FailDataGovernanceJob(w) ==
    /\ dgWorker[w].phase = "blocked" /\ DgSettle(w, "failed")
    /\ UNCHANGED <<dgHolds, dgPut, dgErased, dgRegion, dgPolicy>>

\* The lease is renewed while the export is built; the artifact and the end of
\* the job are one transaction.
CompleteDataGovernanceExport(w, built) ==
    /\ dgWorker[w].phase = "claimed" /\ dgJob[dgWorker[w].job].kind = "export"
    /\ DgSettle(w, IF built THEN "completed" ELSE "failed")
    /\ UNCHANGED <<dgHolds, dgPut, dgErased, dgRegion, dgPolicy>>

\* The orchestrator starts the move, or goes on with it, and answers; its answer
\* is lost; or it is not reached.  By its claims, of which every poll is one, a
\* job is failed as unreachable.
Reconcile(w, answer) ==
    LET j == dgWorker[w].job IN
    /\ dgWorker[w].phase = "claimed" /\ dgJob[j].kind = "region"
    /\ answer = "completed" => dgRegion.moved
    /\ answer = "running" => ~dgRegion.moved
    /\ dgRegion' = [dgRegion EXCEPT !.moving = @ \/ answer \in {"running", "lost"},
                                    !.recorded = @ \/ (answer = "completed" /\ DgOwns(w))]
    /\ DgDone(w)
    /\ dgJob' = CASE ~DgOwns(w) -> dgJob
                  [] DgOwns(w) /\ answer = "completed" -> DgEnded(j, "completed")
                  [] DgOwns(w) /\ answer = "failed" -> DgEnded(j, "failed")
                  [] DgOwns(w) /\ answer \in {"lost", "unreachable"} /\ dgJob[j].attempt >= RegionAttempts -> DgEnded(j, "failed")
                  [] OTHER -> DgDeferred(j)
    /\ UNCHANGED <<dgHolds, dgPut, dgErased, dgPolicy>>

DataMoves ==
    /\ dgRegion.moving /\ ~dgRegion.moved /\ dgRegion' = [dgRegion EXCEPT !.moved = TRUE]
    /\ UNCHANGED <<dgHolds, dgPut, dgJob, dgWorker, dgErased, dgPolicy>>

DgLeaseLapses(j) ==
    /\ dgJob[j].live /\ dgJob' = [dgJob EXCEPT ![j].live = FALSE]
    /\ UNCHANGED <<dgHolds, dgPut, dgWorker, dgErased, dgRegion, dgPolicy>>

DgCrash(w) ==
    /\ dgWorker[w] # DgIdle /\ DgDone(w)
    /\ UNCHANGED <<dgHolds, dgPut, dgJob, dgErased, dgRegion, dgPolicy>>

DgNext ==
    \/ \E s \in DgOwners :
         \/ \E days \in {1, 2} : CreateRetentionPolicy(s, days)
         \/ \E approves \in BOOLEAN : DecideRetentionPolicy(s, approves)
         \/ \E j \in DgJobs :
              \/ \E kind \in {"export", "deletion", "region"}, sc \in DgScopes : CreateDataGovernanceJob(j, s, kind, sc)
              \/ \E i \in DgJobs : RetryDataGovernanceJob(j, s, i)
              \/ \E approves \in BOOLEAN : DecideDataGovernanceJob(s, j, approves)
    \/ \E sc \in DgScopes : CreateDataLegalHold(sc) \/ ReleaseDataLegalHold(sc)
    \/ \E j \in DgJobs : WindowCloses(j) \/ CancelDataGovernanceJob(j) \/ DgLeaseLapses(j)
    \/ \E w \in DgWorkers :
         \/ \E j \in DgJobs : ClaimDataGovernanceJob(w, j)
         \/ ExecuteDataGovernanceDeletion(w) \/ CompleteDataGovernanceOperation(w) \/ FailDataGovernanceJob(w)
         \/ \E built \in BOOLEAN : CompleteDataGovernanceExport(w, built)
         \/ \E answer \in {"running", "completed", "failed", "lost", "unreachable"} : Reconcile(w, answer)
         \/ DgCrash(w)
    \/ DataMoves

-----------------------------------------------------------------------------
(* Properties.                                                             *)

\* Data is erased only by a running deletion whose window has closed, and
\* never while a hold of the tenant or of the job's own scope is active,
\* however late the hold was put: after the request, after its approval,
\* after the claim or between two claims.
HeldScopeIsKept ==
    dgErased' # dgErased =>
        \E j \in DgJobs : /\ dgJob[j].kind = "deletion" /\ dgJob[j].state = "running"
                          /\ dgJob[j].window = "closed"
                          /\ dgErased' = dgErased \cup DgCovered(dgJob[j].scope)
                          /\ dgHolds \cap {"tenant", dgJob[j].scope} = {}
=============================================================================
