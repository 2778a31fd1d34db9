------------------------ MODULE ReviewRunner_proofs ------------------------
(***************************************************************************)
(* Proofs about ReviewRunner for any reviews, threads, identities and      *)
(* limits.  Most of what a step does to a run is one transaction of        *)
(* ReviewStore, so the invariants of the rows are proved over those        *)
(* transactions (StoreSteps) and not over the steps of the threads.        *)
(***************************************************************************)
EXTENDS ReviewRunner, FiniteSetTheorems, TLAPS

-----------------------------------------------------------------------------
(* Types.                                                                  *)

RunRow == [req : Requests \cup {None}, head : Nat,
           trigger : {"none", "pull_request", "retry"},
           state : RunStates \cup {"absent"}, revision : Nat]
JobRow == [state : {"absent", "queued", "running", "succeeded", "failed", "cancelled"},
           owner : Owners \cup {None}, leased : BOOLEAN, due : BOOLEAN, attempts : Nat]
WorkerType ==
    /\ worker \in [Workers -> WorkerStates]
    /\ \A w \in Workers : worker[w].pc # "idle" => worker[w].run \in RunIds

LEMMA InitType == Init => TypeOK
BY StoreAssumption, RunnerAssumption
   DEF Init, StoreInit, TypeOK, StoreTypeOK, NoRun, NoJob, Pending, Idle, WorkerStates,
       Pcs, Processing, RunStates, StageStates, RunIds, Stages

\* What the rows of a new run are, field by field.
FirstRun(q, head, trigger, s, v) ==
    [req |-> q, head |-> head, trigger |-> trigger, state |-> s, revision |-> v]
FirstJob(s) == [state |-> s, owner |-> None, leased |-> FALSE, due |-> TRUE, attempts |-> 0]

LEMMA NewRowsFields ==
    ASSUME NEW n, NEW q, NEW head, NEW trigger
    PROVE  LET new == NewRows(n, q, head, trigger) IN
           \/ /\ ~QuotaExceeded
              /\ new.run = FirstRun(q, head, trigger, "acknowledged", 1)
              /\ new.job = FirstJob("queued") /\ new.usage = "reserved"
              /\ new.stages = Pending /\ new.intervention = "none"
              /\ new.rows = {<<n, 1, "acknowledged">>}
           \/ /\ QuotaExceeded
              /\ new.run = FirstRun(q, head, trigger, "failed", 2)
              /\ new.job = FirstJob("failed") /\ new.usage = "none"
              /\ new.stages = [i \in Stages |-> "skipped"] /\ new.intervention = "open"
              /\ new.rows = {<<n, 1, "acknowledged">>, <<n, 2, "failed">>}
<1>1. CASE QuotaExceeded
  BY <1>1 DEF NewRows, Rejected, NewJob, NoJob, FirstRun, FirstJob
<1>2. CASE ~QuotaExceeded
  BY <1>2 DEF NewRows, Admitted, NewJob, NoJob, FirstRun, FirstJob
<1> QED BY <1>1, <1>2

\* They have their types, whether the quota admits the run or not.
LEMMA NewRowsType ==
    ASSUME NEW n \in RunIds, NEW q \in Requests \cup {None}, NEW head \in Nat,
           NEW trigger \in {"pull_request", "retry"}
    PROVE  LET new == NewRows(n, q, head, trigger) IN
           /\ new.run \in RunRow /\ new.job \in JobRow
           /\ new.usage \in {"none", "reserved"}
           /\ new.stages \in [Stages -> StageStates]
           /\ new.intervention \in {"none", "open"}
           /\ new.rows \subseteq RunIds \X Nat \X RunStates
<1>1. FirstJob("queued") \in JobRow /\ FirstJob("failed") \in JobRow
  BY DEF FirstJob, JobRow
<1>2. /\ FirstRun(q, head, trigger, "acknowledged", 1) \in RunRow
      /\ FirstRun(q, head, trigger, "failed", 2) \in RunRow
  BY DEF FirstRun, RunRow, RunStates, ActiveStates, TerminalStates
<1>3. Pending \in [Stages -> StageStates] /\ [i \in Stages |-> "skipped"] \in [Stages -> StageStates]
  BY DEF Pending, StageStates
<1>4. /\ <<n, 1, "acknowledged">> \in RunIds \X Nat \X RunStates
      /\ <<n, 2, "failed">> \in RunIds \X Nat \X RunStates
  BY DEF RunStates, ActiveStates, TerminalStates
<1> HIDE DEF NewRows
<1> QED BY <1>1, <1>2, <1>3, <1>4, NewRowsFields

LEMMA EvidenceType ==
    ASSUME NEW e \in [Stages -> StageStates], NEW s, NEW t
    PROVE  StageEvidence(e, s, t) \in [Stages -> StageStates]
BY DEF StageEvidence, StageStates

\* A transition sets state and revision of one run; a claim, or the loss of
\* one, some fields of one job.
Moved(r, s) == [runs EXCEPT ![r] = [runs[r] EXCEPT !.state = s, !.revision = runs[r].revision + 1]]

LEMMA RowTypes ==
    ASSUME NEW row \in RunRow, NEW s \in RunStates
    PROVE  /\ row.revision + 1 \in Nat
           /\ [row EXCEPT !.state = s, !.revision = row.revision + 1] \in RunRow
<1>1. row.revision + 1 \in Nat
  BY DEF RunRow
<1> QED BY <1>1, Zenon DEF RunRow

LEMMA MovedFields ==
    ASSUME runs \in [RunIds -> RunRow], NEW r \in RunIds, NEW s \in RunStates
    PROVE  /\ Moved(r, s) \in [RunIds -> RunRow]
           /\ Moved(r, s)[r].state = s
           /\ Moved(r, s)[r].revision = runs[r].revision + 1
           /\ Moved(r, s)[r].req = runs[r].req /\ Moved(r, s)[r].head = runs[r].head
           /\ \A t \in RunIds \ {r} : Moved(r, s)[t] = runs[t]
<1>1. runs[r] \in RunRow
  OBVIOUS
<1>2. [runs[r] EXCEPT !.state = s, !.revision = runs[r].revision + 1] \in RunRow
  BY <1>1, RowTypes
<1> QED BY <1>1, <1>2 DEF Moved, RunRow

LEMMA MovedExcept ==
    ASSUME runs \in [RunIds -> RunRow], NEW r \in RunIds, NEW s
    PROVE  [runs EXCEPT ![r].state = s, ![r].revision = @ + 1] = Moved(r, s)
BY DEF Moved, RunRow

LEMMA SupersededType ==
    ASSUME NEW row \in RunRow
    PROVE  /\ SupersedeRun(row) \in RunRow
           /\ SupersedeRun(row).state = "superseded"
           /\ SupersedeRun(row).revision = row.revision + 1
           /\ SupersedeRun(row).req = row.req
<1>1. "superseded" \in RunStates
  BY DEF RunStates, TerminalStates
<1> QED BY <1>1, RowTypes DEF SupersedeRun, RunRow

LEMMA JobTypes ==
    ASSUME NEW row \in JobRow
    PROVE  /\ \A o \in Owners : [row EXCEPT !.state = "running", !.owner = o, !.leased = TRUE,
                                            !.attempts = row.attempts + 1] \in JobRow
           /\ \A b \in BOOLEAN : [row EXCEPT !.leased = b] \in JobRow
           /\ [row EXCEPT !.due = TRUE] \in JobRow
           /\ \A s \in {"succeeded", "failed", "cancelled"} :
                 /\ [row EXCEPT !.state = s, !.leased = FALSE] \in JobRow
                 /\ [row EXCEPT !.state = s, !.owner = None, !.leased = FALSE] \in JobRow
           /\ [row EXCEPT !.state = "queued", !.owner = None, !.leased = FALSE,
                          !.due = FALSE] \in JobRow
<1>1. row.attempts + 1 \in Nat
  BY DEF JobRow
<1> QED BY <1>1, Zenon DEF JobRow

StoreType ==
    /\ runs \in [RunIds -> RunRow]
    /\ jobs \in [RunIds -> JobRow]
    /\ usage \in [RunIds -> {"none", "reserved", "settled", "released"}]
    /\ stages \in [RunIds -> [Stages -> StageStates]]
    /\ intervention \in [RunIds -> {"none", "open", "claimed", "resolved"}]
    /\ outbox \subseteq (RunIds \X Nat \X RunStates)
    /\ current \in [Requests -> RunIds \cup {0}]
    /\ deliveries \in 0..MaxDeliveries

LEMMA SameType == StoreTypeOK <=> StoreType
BY DEF StoreTypeOK, StoreType, RunRow, JobRow

LEMMA EnqueueType ==
    ASSUME StoreType, NEW q \in Requests, NEW head \in Nat, Enqueue(q, head)
    PROVE  StoreType'
<1> USE DEF StoreType
<1>1. PICK n \in RunIds :
         LET new == NewRows(n, q, head, "pull_request") IN
         /\ runs' = [r \in RunIds |-> IF r = n THEN new.run
                                      ELSE IF r \in ActiveRuns(q) THEN SupersedeRun(runs[r])
                                      ELSE runs[r]]
         /\ jobs' = [jobs EXCEPT ![n] = new.job]
         /\ usage' = [r \in RunIds |-> IF r = n THEN new.usage
                                       ELSE IF r \in ActiveRuns(q) THEN Finalized(usage[r], FALSE)
                                       ELSE usage[r]]
         /\ stages' = [stages EXCEPT ![n] = new.stages]
         /\ intervention' = [intervention EXCEPT ![n] = new.intervention]
         /\ outbox' = outbox \cup new.rows \cup
               {<<r, runs[r].revision + 1, "superseded">> : r \in ActiveRuns(q)}
         /\ current' = [current EXCEPT ![q] = n]
  BY Zenon DEF Enqueue
<1> DEFINE new == NewRows(n, q, head, "pull_request")
<1>2. /\ new.run \in RunRow /\ new.job \in JobRow /\ new.usage \in {"none", "reserved"}
      /\ new.stages \in [Stages -> StageStates] /\ new.intervention \in {"none", "open"}
      /\ new.rows \subseteq RunIds \X Nat \X RunStates
  BY NewRowsType
<1> HIDE DEF new
<1>3. \A r \in RunIds : SupersedeRun(runs[r]) \in RunRow
  BY SupersededType
<1>4. runs' \in [RunIds -> RunRow]
  BY <1>1, <1>2, <1>3 DEF new
<1>5. jobs' \in [RunIds -> JobRow]
  BY <1>1, <1>2 DEF new
<1>6. usage' \in [RunIds -> {"none", "reserved", "settled", "released"}]
  BY <1>1, <1>2 DEF new, Finalized
<1>7. stages' \in [RunIds -> [Stages -> StageStates]]
  BY <1>1, <1>2 DEF new
<1>8. intervention' \in [RunIds -> {"none", "open", "claimed", "resolved"}]
  BY <1>1, <1>2 DEF new
<1>9. outbox' \subseteq (RunIds \X Nat \X RunStates)
  <2>1. \A r \in ActiveRuns(q) :
           <<r, runs[r].revision + 1, "superseded">> \in RunIds \X Nat \X RunStates
    BY DEF ActiveRuns, RunRow, RunStates, TerminalStates
  <2> QED BY <1>1, <1>2, <2>1 DEF new
<1>10. current' \in [Requests -> RunIds \cup {0}]
  BY <1>1
<1>11. deliveries' \in 0..MaxDeliveries
  BY StoreAssumption DEF Enqueue
<1> QED BY <1>4, <1>5, <1>6, <1>7, <1>8, <1>9, <1>10, <1>11

LEMMA RetryType ==
    ASSUME StoreType, NEW r \in RunIds, RequestRunRetry(r)
    PROVE  StoreType'
<1> USE DEF StoreType
<1>1. PICK n \in RunIds :
         LET new == NewRows(n, runs[r].req, runs[r].head, "retry") IN
         /\ runs' = [runs EXCEPT ![n] = new.run]
         /\ jobs' = [jobs EXCEPT ![n] = new.job]
         /\ usage' = [usage EXCEPT ![n] = new.usage]
         /\ stages' = [stages EXCEPT ![n] = new.stages]
         /\ intervention' =
               [intervention EXCEPT
                   ![n] = new.intervention,
                   ![r] = IF @ \in {"open", "claimed"} THEN "resolved" ELSE @]
         /\ outbox' = outbox \cup new.rows
         /\ current' = [current EXCEPT ![runs[r].req] = n]
  BY Zenon DEF RequestRunRetry
<1> DEFINE new == NewRows(n, runs[r].req, runs[r].head, "retry")
<1>2. runs[r].req \in Requests \cup {None} /\ runs[r].head \in Nat
  BY DEF RunRow
<1>3. /\ new.run \in RunRow /\ new.job \in JobRow /\ new.usage \in {"none", "reserved"}
      /\ new.stages \in [Stages -> StageStates] /\ new.intervention \in {"none", "open"}
      /\ new.rows \subseteq RunIds \X Nat \X RunStates
  BY <1>2, NewRowsType
<1> HIDE DEF new
<1>4. runs' \in [RunIds -> RunRow] /\ jobs' \in [RunIds -> JobRow]
  BY <1>1, <1>3 DEF new
<1>5. usage' \in [RunIds -> {"none", "reserved", "settled", "released"}]
  BY <1>1, <1>3 DEF new
<1>6. stages' \in [RunIds -> [Stages -> StageStates]]
  BY <1>1, <1>3 DEF new
<1>7. intervention' \in [RunIds -> {"none", "open", "claimed", "resolved"}]
  BY <1>1, <1>3 DEF new
<1>8. outbox' \subseteq (RunIds \X Nat \X RunStates) /\ current' \in [Requests -> RunIds \cup {0}]
  BY <1>1, <1>3 DEF new
<1>9. deliveries' \in 0..MaxDeliveries
  BY DEF RequestRunRetry
<1> QED BY <1>4, <1>5, <1>6, <1>7, <1>8, <1>9

LEMMA CancellationType ==
    ASSUME StoreType, NEW r \in RunIds, RequestRunCancellation(r)
    PROVE  StoreType' /\ runs' = Moved(r, "cancelled")
<1> USE DEF StoreType
<1>1. "cancelled" \in RunStates
  BY DEF RunStates, TerminalStates
<1>2. runs' = Moved(r, "cancelled") /\ runs' \in [RunIds -> RunRow]
  <2>1. /\ [runs EXCEPT ![r].state = "cancelled", ![r].revision = @ + 1] = Moved(r, "cancelled")
        /\ Moved(r, "cancelled") \in [RunIds -> RunRow]
    BY <1>1, MovedFields, MovedExcept
  <2> QED BY <2>1, Zenon DEF RequestRunCancellation
<1>3. jobs' \in [RunIds -> JobRow]
  <2>1. [jobs[r] EXCEPT !.state = "cancelled", !.owner = None, !.leased = FALSE] \in JobRow
    BY JobTypes
  <2> QED BY <2>1 DEF RequestRunCancellation
<1>4. usage' \in [RunIds -> {"none", "reserved", "settled", "released"}]
  BY DEF RequestRunCancellation, Finalized
<1>5. outbox' \subseteq (RunIds \X Nat \X RunStates)
  <2>1. <<r, runs[r].revision + 1, "cancelled">> \in RunIds \X Nat \X RunStates
    BY <1>1 DEF RunRow
  <2> QED BY <2>1 DEF RequestRunCancellation
<1> QED BY <1>2, <1>3, <1>4, <1>5 DEF RequestRunCancellation

\* The part of AdvanceLegacyRun that changes something.
Transition(r, next) ==
    /\ ~NoTransition(runs[r].state, next)
    /\ CanTransitionTo(runs[r].state, next)
    /\ runs' = Moved(r, next)
    /\ usage' = [usage EXCEPT ![r] = IF Terminal(next)
                                     THEN Finalized(@, next = "completed") ELSE @]
    /\ stages' = [stages EXCEPT ![r] = StageEvidence(@, runs[r].state, next)]
    /\ intervention' = [intervention EXCEPT ![r] =
                           IF next \in {"failed", "needs_attention"} /\ @ = "none"
                           THEN "open" ELSE @]
    /\ outbox' = IF HasBrokerConsumer(next)
                 THEN outbox \cup {<<r, runs[r].revision + 1, next>>} ELSE outbox
    /\ UNCHANGED <<jobs, current, deliveries>>

LEMMA AdvanceCases ==
    ASSUME StoreType, NEW r \in RunIds, NEW next \in RunStates, AdvanceLegacyRun(r, next)
    PROVE  (NoTransition(runs[r].state, next) /\ UNCHANGED storeVars) \/ Transition(r, next)
<1>1. runs \in [RunIds -> RunRow]
  BY DEF StoreType
<1>2. [runs EXCEPT ![r].state = next, ![r].revision = @ + 1] = Moved(r, next)
  BY <1>1, MovedExcept
<1> QED BY <1>2, Zenon DEF AdvanceLegacyRun, Transition

LEMMA TransitionType ==
    ASSUME StoreType, NEW r \in RunIds, NEW next \in RunStates, Transition(r, next)
    PROVE  StoreType'
<1> USE DEF StoreType
<1>1. runs' \in [RunIds -> RunRow]
  BY MovedFields DEF Transition
<1>2. usage' \in [RunIds -> {"none", "reserved", "settled", "released"}]
  BY DEF Transition, Finalized
<1>3. stages' \in [RunIds -> [Stages -> StageStates]]
  <2>1. StageEvidence(stages[r], runs[r].state, next) \in [Stages -> StageStates]
    BY EvidenceType
  <2> QED BY <2>1 DEF Transition
<1>4. intervention' \in [RunIds -> {"none", "open", "claimed", "resolved"}]
  BY DEF Transition
<1>5. outbox' \subseteq (RunIds \X Nat \X RunStates)
  <2>1. <<r, runs[r].revision + 1, next>> \in RunIds \X Nat \X RunStates
    BY DEF RunRow
  <2> QED BY <2>1 DEF Transition
<1> QED BY <1>1, <1>2, <1>3, <1>4, <1>5 DEF Transition

LEMMA CoalesceType ==
    ASSUME StoreType, NEW q \in Requests, NEW head \in Nat, Coalesce(q, head)
    PROVE  StoreType'
<1> USE DEF StoreType
<1>1. \A r \in RunIds : SupersedeRun(runs[r]) \in RunRow
  BY SupersededType
<1>2. runs' \in [RunIds -> RunRow]
  BY <1>1 DEF Coalesce
<1>3. deliveries' \in 0..MaxDeliveries
  BY StoreAssumption DEF Coalesce
<1> QED BY <1>2, <1>3 DEF Coalesce

\* The claims, renewals and ends of jobs.
JobStep(r) ==
    \/ \E o \in Owners : Lease(r, o) \/ RenewClaim(r, o) \/ Fail(r, o)
    \/ \E o \in Owners, s \in {"succeeded", "failed", "cancelled"} : FinishJob(r, o, s)
    \/ DeferRun(r) \/ BackoffElapses(r) \/ LeaseEnds(r)

LEMMA JobStepType ==
    ASSUME StoreType, NEW r \in RunIds, JobStep(r)
    PROVE  /\ StoreType'
           /\ UNCHANGED <<runs, usage, stages, intervention, outbox, current, deliveries>>
           /\ \E row \in JobRow : jobs' = [jobs EXCEPT ![r] = row]
<1> USE DEF StoreType
<1>0. jobs[r] \in JobRow
  OBVIOUS
<1>1. UNCHANGED <<runs, usage, stages, intervention, outbox, current, deliveries>>
  BY Zenon DEF JobStep, Lease, RenewClaim, Fail, FinishJob, DeferRun, BackoffElapses, LeaseEnds
<1>2. \E row \in JobRow : jobs' = [jobs EXCEPT ![r] = row]
  <2>1. ASSUME NEW o \in Owners, Lease(r, o) PROVE <1>2
    <3>1. jobs' = [jobs EXCEPT ![r] = [jobs[r] EXCEPT !.state = "running", !.owner = o,
                                         !.leased = TRUE, !.attempts = jobs[r].attempts + 1]]
      BY <2>1, <1>0 DEF Lease, JobRow
    <3> QED BY <3>1, <1>0, JobTypes
  <2>2. ASSUME NEW o \in Owners, RenewClaim(r, o) PROVE <1>2
    <3>1. jobs' = [jobs EXCEPT ![r] = [jobs[r] EXCEPT !.leased = TRUE]]
      BY <2>2 DEF RenewClaim
    <3> QED BY <3>1, <1>0, JobTypes
  <2>3. ASSUME NEW o \in Owners, Fail(r, o) PROVE <1>2
    <3>1. PICK row \in JobRow : row = IF ~Owns(r, o) THEN jobs[r]
                   ELSE IF jobs[r].attempts >= MaxAttempts
                   THEN [jobs[r] EXCEPT !.state = "failed", !.owner = None, !.leased = FALSE]
                   ELSE [jobs[r] EXCEPT !.state = "queued", !.owner = None, !.leased = FALSE,
                                        !.due = FALSE]
      BY <1>0, JobTypes
    <3> QED BY <2>3, <3>1, Zenon DEF Fail
  <2>4. ASSUME NEW o \in Owners, NEW s \in {"succeeded", "failed", "cancelled"}, FinishJob(r, o, s)
        PROVE <1>2
    <3>1. PICK row \in JobRow : row = IF Owns(r, o)
                   THEN [jobs[r] EXCEPT !.state = s, !.leased = FALSE] ELSE jobs[r]
      BY <1>0, JobTypes
    <3> QED BY <2>4, <3>1, Zenon DEF FinishJob
  <2>5. CASE DeferRun(r)
    <3>1. jobs' = [jobs EXCEPT ![r] = [jobs[r] EXCEPT !.state = "queued", !.owner = None,
                                         !.leased = FALSE, !.due = FALSE]]
      BY <2>5, <1>0 DEF DeferRun, JobRow
    <3> QED BY <3>1, <1>0, JobTypes
  <2>6. CASE BackoffElapses(r)
    <3>1. jobs' = [jobs EXCEPT ![r] = [jobs[r] EXCEPT !.due = TRUE]]
      BY <2>6 DEF BackoffElapses
    <3> QED BY <3>1, <1>0, JobTypes
  <2>7. CASE LeaseEnds(r)
    <3>1. jobs' = [jobs EXCEPT ![r] = [jobs[r] EXCEPT !.leased = FALSE]]
      BY <2>7 DEF LeaseEnds
    <3> QED BY <3>1, <1>0, JobTypes
  <2> QED BY <2>1, <2>2, <2>3, <2>4, <2>5, <2>6, <2>7, Zenon DEF JobStep
<1> QED BY <1>1, <1>2

\* The transactions of ReviewStore; those that advance a run to a state of S.
StoreActionTo(S) ==
    \/ UNCHANGED storeVars
    \/ \E q \in Requests, head \in Nat : Enqueue(q, head) \/ Coalesce(q, head)
    \/ \E r \in RunIds : RequestRunRetry(r) \/ RequestRunCancellation(r)
    \/ \E r \in RunIds : ClaimReviewIntervention(r) \/ ResolveReviewIntervention(r)
    \/ \E r \in RunIds, next \in S : AdvanceLegacyRun(r, next)
    \/ \E r \in RunIds : JobStep(r)
StoreAction == StoreActionTo(RunStates)

LEMMA StoreActionType ==
    ASSUME StoreType, StoreAction
    PROVE  StoreType'
<1>1. CASE UNCHANGED storeVars
  BY <1>1 DEF StoreType, storeVars
<1>2. ASSUME NEW q \in Requests, NEW head \in Nat, Enqueue(q, head) \/ Coalesce(q, head)
      PROVE  StoreType'
  BY <1>2, EnqueueType, CoalesceType
<1>3. ASSUME NEW r \in RunIds, RequestRunRetry(r) \/ RequestRunCancellation(r)
      PROVE  StoreType'
  BY <1>3, RetryType, CancellationType
<1>4. ASSUME NEW r \in RunIds, ClaimReviewIntervention(r) \/ ResolveReviewIntervention(r)
      PROVE  StoreType'
  BY <1>4 DEF StoreType, ClaimReviewIntervention, ResolveReviewIntervention
<1>5. ASSUME NEW r \in RunIds, NEW next \in RunStates, AdvanceLegacyRun(r, next)
      PROVE  StoreType'
  BY <1>1, <1>5, AdvanceCases, TransitionType
<1>6. ASSUME NEW r \in RunIds, JobStep(r)
      PROVE  StoreType'
  BY <1>6, JobStepType
<1> QED BY <1>1, <1>2, <1>3, <1>4, <1>5, <1>6, Zenon DEF StoreAction, StoreActionTo

\* Every step of the system is one transaction, or leaves the store alone; only
\* EnterPublishing moves a run to publishing.
Elsewhere == RunStates \ {"publishing"}
QuietOrEnter == StoreActionTo(Elsewhere) \/ \E w \in Workers : EnterPublishing(w)

LEMMA StepTransactions ==
    ASSUME WorkerType, [Next]_vars
    PROVE  QuietOrEnter
<1> USE DEF StoreActionTo, QuietOrEnter
<1>0. CASE UNCHANGED vars
  BY <1>0, Zenon DEF vars, storeVars
<1>1. ASSUME NEW q \in Requests, Push(q)
      PROVE  QuietOrEnter
  BY <1>1, Zenon DEF Push
<1>2. ASSUME NEW q \in Requests, NEW head \in 1..MaxHead, Webhook(q, head)
      PROVE  QuietOrEnter
  <2>1. head \in Nat
    BY RunnerAssumption
  <2> QED BY <1>2, <2>1, Zenon DEF Webhook
<1>3. ASSUME NEW r \in RunIds, StoreStep(r) \/ LeaseLapses(r) \/ LeaseOverruns(r)
      PROVE  QuietOrEnter
  <2>1. "admitted" \in Elsewhere
    BY DEF Elsewhere, RunStates, ActiveStates
  <2> QED BY <1>3, <2>1, Zenon
          DEF StoreStep, Acknowledge, LeaseLapses, LeaseOverruns, JobStep
<1>4. ASSUME NEW w \in Workers, NEW r \in RunIds,
             RunOnce(w, r) \/ RunForRun(w, r) \/ RunForRunDefers(w, r)
      PROVE  QuietOrEnter
  BY <1>4, RunnerAssumption, Zenon
     DEF RunOnce, RunForRun, RunForRunDefers, Claim, ClaimForRun, JobStep
<1>5. ASSUME NEW w \in Workers, RunClaimed(w)
      PROVE  QuietOrEnter
  <2>1. worker[w].run \in RunIds
    BY <1>5 DEF WorkerType, RunClaimed, Admit, VerifyCurrentReview, Prepare, Analyze, Review,
                SaveFindings, Normalize, EnterPublishing, VerifyBeforePublication, Publish,
                Complete, Succeed, Supersede, StopTerminalRun, RecordFailure, FailRun
  <2>2. {"admitted", "preparing", "analyzing", "normalizing", "completed",
         "superseded", "failed"} \subseteq Elsewhere
    BY DEF Elsewhere, RunStates, ActiveStates, TerminalStates
  <2>3. CASE \/ Admit(w) \/ Prepare(w) \/ Analyze(w) \/ Review(w) \/ Normalize(w)
             \/ Complete(w) \/ Supersede(w) \/ FailRun(w)
    <3>1. \E next \in Elsewhere : AdvanceLegacyRun(worker[w].run, next)
      BY <2>2, <2>3 DEF Admit, Prepare, Analyze, Review, Normalize,
                              Complete, Supersede, FailRun, Run
    <3> QED BY <2>1, <3>1, Zenon
  <2>4. CASE \/ VerifyCurrentReview(w) \/ SaveFindings(w) \/ VerifyBeforePublication(w)
             \/ Publish(w)
    BY <2>4, Zenon DEF VerifyCurrentReview, SaveFindings, VerifyBeforePublication, Publish
  <2>5. CASE Succeed(w) \/ StopTerminalRun(w) \/ RecordFailure(w)
    <3>1. JobStep(worker[w].run)
      BY <2>5, RunnerAssumption DEF Succeed, StopTerminalRun, RecordFailure, JobStep, Run
    <3> QED BY <2>1, <3>1, Zenon
  <2> QED BY <1>5, <2>3, <2>4, <2>5 DEF RunClaimed
<1>6. ASSUME NEW w \in Workers, Watch(w)
      PROVE  QuietOrEnter
  <2>1. worker[w].run \in RunIds /\ "analyzing" \in Elsewhere
    BY <1>6 DEF Elsewhere, Watch, WorkerType, Processing, RunStates, ActiveStates
  <2> QED BY <1>6, <2>1, Zenon DEF Watch, Run
<1>7. ASSUME NEW w \in Workers, Renew(w)
      PROVE  QuietOrEnter
  <2>1. worker[w].run \in RunIds
    BY <1>7 DEF Renew, WorkerType
  <2> QED BY <1>7, <2>1, RunnerAssumption, Zenon DEF Renew, JobStep, Run
<1>8. ASSUME NEW w \in Workers,
             Interrupt(w) \/ RenewalFails(w) \/ ExecutionFails(w) \/ WorkerCrashes(w)
      PROVE  QuietOrEnter
  BY <1>8, Zenon DEF Interrupt, RenewalFails, ExecutionFails, WorkerCrashes
<1> QED BY <1>0, <1>1, <1>2, <1>3, <1>4, <1>5, <1>6, <1>7, <1>8, Zenon DEF Next

LEMMA StoreSteps ==
    ASSUME WorkerType, [Next]_vars
    PROVE  StoreAction
<1>1. CASE StoreActionTo(Elsewhere)
  BY <1>1, Zenon DEF StoreAction, StoreActionTo, Elsewhere
<1>2. ASSUME NEW w \in Workers, EnterPublishing(w)
      PROVE  StoreAction
  <2>1. worker[w].run \in RunIds /\ "publishing" \in RunStates
    BY <1>2 DEF EnterPublishing, WorkerType, RunStates, ActiveStates
  <2> QED BY <1>2, <2>1, Zenon DEF EnterPublishing, Run, StoreAction, StoreActionTo
<1> QED BY <1>1, <1>2, StepTransactions DEF QuietOrEnter

-----------------------------------------------------------------------------
(* What a step does to a thread.                                           *)

\* A thread that is not idle has a run.
BusyHasRun(k) == k.pc # "idle" => k.run \in RunIds

\* The thread w becomes k, the others stay as they are.
Becomes(w, k) == worker' = [worker EXCEPT ![w] = k]

LEMMA BecomesFields ==
    ASSUME WorkerType, NEW w \in Workers, NEW k \in WorkerStates, Becomes(w, k), BusyHasRun(k)
    PROVE  /\ WorkerType'
           /\ worker'[w] = k
           /\ \A v \in Workers \ {w} : worker'[v] = worker[v]
BY DEF WorkerType, Becomes, BusyHasRun

\* The thread k at another place, and with another flag or other findings.
At(k, pc) == [k EXCEPT !.pc = pc]
AtResuming(k, pc, b) == [k EXCEPT !.pc = pc, !.resuming = b]
AtFatal(k, pc, b) == [k EXCEPT !.pc = pc, !.fatal = b]
AtHeld(k, pc, h) == [k EXCEPT !.pc = pc, !.held = h]

LEMMA ThreadFields ==
    ASSUME NEW k \in WorkerStates, NEW pc \in Pcs
    PROVE  /\ LET j == At(k, pc) IN
              /\ j \in WorkerStates /\ j.pc = pc /\ j.run = k.run /\ j.attempt = k.attempt
              /\ j.resuming = k.resuming /\ j.fatal = k.fatal /\ j.held = k.held
           /\ \A b \in BOOLEAN : LET j == AtResuming(k, pc, b) IN
              /\ j \in WorkerStates /\ j.pc = pc /\ j.run = k.run /\ j.attempt = k.attempt
              /\ j.resuming = b /\ j.fatal = k.fatal /\ j.held = k.held
           /\ \A b \in BOOLEAN : LET j == AtFatal(k, pc, b) IN
              /\ j \in WorkerStates /\ j.pc = pc /\ j.run = k.run /\ j.attempt = k.attempt
              /\ j.resuming = k.resuming /\ j.fatal = b /\ j.held = k.held
           /\ \A h \in Nat : LET j == AtHeld(k, pc, h) IN
              /\ j \in WorkerStates /\ j.pc = pc /\ j.run = k.run /\ j.attempt = k.attempt
              /\ j.resuming = k.resuming /\ j.fatal = k.fatal /\ j.held = h
BY Zenon DEF WorkerStates, At, AtResuming, AtFatal, AtHeld

LEMMA GotoBecomes ==
    ASSUME WorkerType, NEW w \in Workers, NEW pc \in Pcs
    PROVE  /\ Goto(w, pc) <=> Becomes(w, At(worker[w], pc))
           /\ \A b : (worker' = [worker EXCEPT ![w].pc = pc, ![w].resuming = b])
                     <=> Becomes(w, AtResuming(worker[w], pc, b))
           /\ \A b : (worker' = [worker EXCEPT ![w].pc = pc, ![w].fatal = b])
                     <=> Becomes(w, AtFatal(worker[w], pc, b))
           /\ \A h : (worker' = [worker EXCEPT ![w].pc = pc, ![w].held = h])
                     <=> Becomes(w, AtHeld(worker[w], pc, h))
<1>1. [worker EXCEPT ![w].pc = pc] = [worker EXCEPT ![w] = [worker[w] EXCEPT !.pc = pc]]
  BY DEF WorkerType
<1>2. \A b : [worker EXCEPT ![w].pc = pc, ![w].resuming = b]
             = [worker EXCEPT ![w] = [worker[w] EXCEPT !.pc = pc, !.resuming = b]]
  BY DEF WorkerType
<1>3. \A b : [worker EXCEPT ![w].pc = pc, ![w].fatal = b]
             = [worker EXCEPT ![w] = [worker[w] EXCEPT !.pc = pc, !.fatal = b]]
  BY DEF WorkerType
<1>4. \A h : [worker EXCEPT ![w].pc = pc, ![w].held = h]
             = [worker EXCEPT ![w] = [worker[w] EXCEPT !.pc = pc, !.held = h]]
  BY DEF WorkerType
<1> QED BY <1>1, <1>2, <1>3, <1>4, Zenon
        DEF Goto, Becomes, At, AtResuming, AtFatal, AtHeld

LEMMA LeaveFields ==
    ASSUME WorkerType, NEW w \in Workers
    PROVE  /\ Idle \in WorkerStates /\ BusyHasRun(Idle)
           /\ Leave(w) <=> Becomes(w, Idle)
<1>1. "idle" \in Pcs
  BY DEF Pcs
<1> QED BY <1>1 DEF Idle, WorkerStates, BusyHasRun, Leave, Becomes

\* The thread that has just claimed r.
Claimant(r) == [Idle EXCEPT !.pc = "claimed", !.run = r, !.attempt = jobs[r].attempts + 1]

LEMMA ClaimantFields ==
    ASSUME StoreType, NEW r \in RunIds
    PROVE  /\ Claimant(r) \in WorkerStates /\ BusyHasRun(Claimant(r))
           /\ Claimant(r).pc = "claimed" /\ Claimant(r).run = r
           /\ Claimant(r).attempt = jobs[r].attempts + 1 /\ ~Claimant(r).resuming
           /\ jobs[r].attempts + 1 \in Nat \ {0}
           /\ \A w : Claimed(w, r) <=> Becomes(w, Claimant(r))
<1>1. jobs[r].attempts + 1 \in Nat \ {0}
  BY DEF StoreType, JobRow
<1>2. /\ Claimant(r).pc = "claimed" /\ Claimant(r).run = r
      /\ Claimant(r).attempt = jobs[r].attempts + 1 /\ ~Claimant(r).resuming
  BY DEF Claimant, Idle
<1>3. Claimant(r) \in WorkerStates
  <2>1. Idle \in WorkerStates
    BY DEF Idle, WorkerStates, Pcs
  <2>2. "claimed" \in Pcs
    BY DEF Pcs
  <2>3. r \in RunIds \cup {0}
    OBVIOUS
  <2> QED BY <1>1, <2>1, <2>2, <2>3, Zenon DEF WorkerStates, Claimant
<1> QED BY <1>1, <1>2, <1>3, Zenon DEF BusyHasRun, Claimed, Becomes, Claimant

\* What the thread w may become: idle, or itself at another place.
Onward(w, k) ==
    \/ k = Idle
    \/ /\ worker[w].pc # "idle" /\ k \in WorkerStates
       /\ k.run = worker[w].run /\ k.attempt = worker[w].attempt

LEMMA OnwardType ==
    ASSUME WorkerType, NEW w \in Workers, NEW k, Onward(w, k), Becomes(w, k)
    PROVE  /\ WorkerType' /\ worker'[w] = k
           /\ \A v \in Workers \ {w} : worker'[v] = worker[v]
<1>1. k \in WorkerStates /\ BusyHasRun(k)
  BY LeaveFields DEF Onward, BusyHasRun, WorkerType
<1> QED BY <1>1, BecomesFields

LEMMA GotoOnward ==
    ASSUME WorkerType, NEW w \in Workers, worker[w].pc # "idle", NEW pc \in Pcs
    PROVE  /\ Onward(w, At(worker[w], pc))
           /\ \A b \in BOOLEAN : /\ Onward(w, AtResuming(worker[w], pc, b))
                                 /\ Onward(w, AtFatal(worker[w], pc, b))
           /\ \A h \in Nat : Onward(w, AtHeld(worker[w], pc, h))
<1>1. worker[w] \in WorkerStates
  BY DEF WorkerType
<1> QED BY <1>1, ThreadFields DEF Onward

\* The states from which a run is no longer worked out: its findings are stored.
Late == TerminalStates \cup {"publishing"}

\* What the proof about publications needs to know of a step of w to k ...
Publication(w, k) ==
    LET j == worker[w]  s == runs'[j.run].state IN
    /\ k.pc = "verify" /\ k.resuming => s = "publishing"
    /\ k.pc = "normalize" => /\ j.pc = "save" /\ k.held = j.attempt
                             /\ findings' = [findings EXCEPT ![j.run] = j.attempt]
    /\ k.pc = "enter" => j.pc = "normalize" /\ k.held = j.held
    /\ k.pc = "publish" => \/ j.pc = "enter" /\ k.held = j.held /\ s = "publishing"
                           \/ j.pc = "verify" /\ j.resuming /\ k.held = findings[j.run]
    /\ k.pc = "write" => j.pc = "publish" /\ k.held = j.held

\* ... and the proof about stranded runs: the thread gives its run up, or ends
\* its job, only when the run has ended.
Occupation(w, k) ==
    LET j == worker[w]  s == runs'[j.run].state IN
    /\ k.pc \in {"idle", "stop", "succeed"} \/ j.pc = "failrun" => s \notin ActiveStates
    /\ k.pc # "failrun"

LEMMA AdvancedState ==
    ASSUME StoreType, NEW r \in RunIds, NEW next \in RunStates, AdvanceLegacyRun(r, next)
    PROVE  /\ runs'[r].state = Advanced(r, next)
           /\ \A t \in RunIds \ {r} : runs'[t] = runs[t]
           /\ UNCHANGED <<jobs, current, deliveries>>
<1>1. CASE NoTransition(runs[r].state, next) /\ UNCHANGED storeVars
  <2>1. runs' = runs /\ UNCHANGED <<jobs, current, deliveries>>
    BY <1>1 DEF storeVars
  <2>2. Advanced(r, next) = runs[r].state
    BY <1>1, Zenon DEF Advanced
  <2> QED BY <2>1, <2>2
<1>2. CASE Transition(r, next)
  <2>1. runs' = Moved(r, next) /\ UNCHANGED <<jobs, current, deliveries>>
    BY <1>2, Zenon DEF Transition
  <2>2. Advanced(r, next) = next
    BY <1>2, Zenon DEF Advanced, Transition
  <2> QED BY <2>1, <2>2, MovedFields DEF StoreType
<1> QED BY <1>1, <1>2, AdvanceCases

ThreadStep(w, k) ==
    worker[w].pc # "idle" /\ Becomes(w, k) /\ Onward(w, k) /\ Publication(w, k)

\* A thread that goes to a place the proof about publications ignores.
LEMMA PlainStep ==
    ASSUME WorkerType, NEW w \in Workers, worker[w].pc # "idle", NEW k, Becomes(w, k),
           Onward(w, k),
           k.pc \in Pcs \ {"verify", "normalize", "enter", "publish", "write"}
    PROVE  ThreadStep(w, k)
BY DEF ThreadStep, Publication

LEMMA GotoFields ==
    ASSUME WorkerType, NEW w \in Workers, worker[w].pc # "idle", NEW pc \in Pcs, Goto(w, pc)
    PROVE  LET k == At(worker[w], pc) IN
           /\ Becomes(w, k) /\ Onward(w, k) /\ k.pc = pc
           /\ k.resuming = worker[w].resuming /\ k.held = worker[w].held
<1>1. worker[w] \in WorkerStates
  BY DEF WorkerType
<1>2. Becomes(w, At(worker[w], pc))
  BY GotoBecomes, Zenon
<1> QED BY <1>1, <1>2, GotoOnward, ThreadFields

LEMMA LeaveStep ==
    ASSUME WorkerType, NEW w \in Workers, worker[w].pc # "idle", Leave(w)
    PROVE  ThreadStep(w, Idle)
<1>1. Becomes(w, Idle) /\ Onward(w, Idle) /\ Idle.pc = "idle" /\ "idle" \in Pcs
  BY LeaveFields DEF Onward, Idle, Pcs
<1> QED BY <1>1, PlainStep

LEMMA HaltStep ==
    ASSUME WorkerType, NEW w \in Workers, worker[w].pc # "idle", NEW s, Halt(w, s)
    PROVE  \E k : ThreadStep(w, k) /\ k.pc \in {"idle", "stop"}
<1>1. CASE Leave(w)
  BY <1>1, LeaveStep DEF Idle
<1>2. CASE Goto(w, "stop")
  <2>1. "stop" \in Pcs
    BY DEF Pcs
  <2> QED BY <1>2, <2>1, GotoFields, PlainStep
<1> QED BY <1>1, <1>2 DEF Halt

\* The five calls of AdvanceLegacyRun that are followed by stopTerminalRun.
LEMMA AdvanceSteps ==
    ASSUME StoreType, WorkerType, NEW w \in Workers,
           Prepare(w) \/ Analyze(w) \/ Review(w) \/ Normalize(w) \/ EnterPublishing(w)
    PROVE  \E k : ThreadStep(w, k) /\ Occupation(w, k)
<1> DEFINE r == worker[w].run
<1>0. /\ worker[w].pc \in {"prepare", "checkout", "review", "normalize", "enter"}
      /\ r \in RunIds
  BY DEF Prepare, Analyze, Review, Normalize, EnterPublishing, WorkerType
<1>1. {"preparing", "analyzing", "normalizing", "publishing"} \subseteq RunStates
  BY DEF RunStates, ActiveStates
<1>2. {"checkout", "review", "save", "normalize", "enter", "publish", "stop"} \subseteq Pcs
  BY DEF Pcs, Processing
<1>3. \A s : Terminal(s) => s \notin ActiveStates
  BY DEF Terminal, TerminalStates, ActiveStates
<1>4. ASSUME NEW next \in RunStates, AdvanceLegacyRun(r, next), NEW pc \in Pcs,
             IF Terminal(Advanced(r, next)) /\ Advanced(r, next) # "completed"
             THEN Goto(w, "stop") ELSE Goto(w, pc),
             pc \in {"checkout", "review"}
      PROVE  \E k : ThreadStep(w, k) /\ Occupation(w, k)
  <2>1. runs'[r].state = Advanced(r, next)
    BY <1>0, <1>4, AdvancedState
  <2>2. CASE Terminal(Advanced(r, next)) /\ Advanced(r, next) # "completed"
    BY <1>0, <1>2, <1>3, <1>4, <2>1, <2>2, GotoFields, PlainStep DEF Occupation
  <2>3. CASE ~(Terminal(Advanced(r, next)) /\ Advanced(r, next) # "completed")
    BY <1>0, <1>2, <1>3, <1>4, <2>1, <2>3, GotoFields, PlainStep DEF Occupation
  <2> QED BY <2>2, <2>3
<1>5. CASE Prepare(w)
  BY <1>1, <1>2, <1>4, <1>5, Zenon DEF Prepare, Run
<1>6. CASE Analyze(w)
  BY <1>1, <1>2, <1>4, <1>6, Zenon DEF Analyze, Run
<1>7. ASSUME NEW next \in RunStates, AdvanceLegacyRun(r, next), NEW pc \in Pcs,
             IF Terminal(Advanced(r, next)) THEN Halt(w, Advanced(r, next)) ELSE Goto(w, pc),
             \/ pc = "save"
             \/ pc = "enter" /\ worker[w].pc = "normalize"
             \/ pc = "publish" /\ worker[w].pc = "enter" /\ next = "publishing"
      PROVE  \E k : ThreadStep(w, k) /\ Occupation(w, k)
  <2>1. runs'[r].state = Advanced(r, next)
    BY <1>0, <1>7, AdvancedState
  <2>2. CASE Terminal(Advanced(r, next))
    <3>1. PICK k : ThreadStep(w, k) /\ k.pc \in {"idle", "stop"}
      BY <1>0, <1>7, <2>2, HaltStep
    <3> QED BY <1>3, <2>1, <2>2, <3>1 DEF Occupation
  <2>3. CASE ~Terminal(Advanced(r, next))
    <3> DEFINE k == At(worker[w], pc)
    <3>1. /\ Becomes(w, k) /\ Onward(w, k) /\ k.pc = pc /\ k.held = worker[w].held
      BY <1>0, <1>7, <2>3, GotoFields
    <3> HIDE DEF k
    <3>2. Occupation(w, k)
      BY <1>0, <1>7, <3>1 DEF Occupation
    <3>3. ThreadStep(w, k)
      <4>1. CASE pc = "save" \/ pc = "enter"
        BY <1>0, <1>7, <3>1, <4>1 DEF ThreadStep, Publication
      <4>2. CASE pc = "publish"
        <5>1. Advanced(r, "publishing") = "publishing"
          BY <1>7, <2>3, <4>2 DEF Advanced, NoTransition, Rank
        <5> QED BY <1>0, <1>7, <2>1, <3>1, <4>2, <5>1 DEF ThreadStep, Publication
      <4> QED BY <1>7, <4>1, <4>2
    <3> QED BY <3>2, <3>3
  <2> QED BY <2>2, <2>3
<1>8. CASE Review(w)
  BY <1>1, <1>2, <1>7, <1>8, Zenon DEF Review, Run
<1>9. CASE Normalize(w)
  BY <1>1, <1>2, <1>7, <1>9, Zenon DEF Normalize, Run
<1>10. CASE EnterPublishing(w)
  BY <1>1, <1>2, <1>7, <1>10, Zenon DEF EnterPublishing, Run
<1> QED BY <1>5, <1>6, <1>8, <1>9, <1>10

LEMMA AdmitStep ==
    ASSUME StoreType, WorkerType, NEW w \in Workers, Admit(w)
    PROVE  \E k : ThreadStep(w, k) /\ Occupation(w, k)
<1> DEFINE r == worker[w].run
           s == Advanced(r, "admitted")
<1>1. worker[w].pc = "claimed" /\ r \in RunIds /\ worker[w] \in WorkerStates
  BY DEF Admit, WorkerType
<1>2. "admitted" \in RunStates /\ "stop" \in Pcs /\ "verify" \in Pcs
  BY DEF RunStates, ActiveStates, Pcs
<1>3. runs'[r].state = s
  BY <1>1, <1>2, AdvancedState DEF Admit, Run
<1>4. CASE Terminal(s) /\ s # "completed"
  <2>1. Goto(w, "stop")
    BY <1>4, Zenon DEF Admit, Run
  <2>2. s \notin ActiveStates
    BY <1>4 DEF Terminal, TerminalStates, ActiveStates
  <2> QED BY <1>1, <1>2, <1>3, <2>1, <2>2, GotoFields, PlainStep DEF Occupation
<1>5. CASE ~(Terminal(s) /\ s # "completed")
  <2>1. PICK b \in BOOLEAN : b = (s = "publishing")
    BY Zenon
  <2> DEFINE k == AtResuming(worker[w], "verify", b)
  <2>2. worker' = [worker EXCEPT ![w].pc = "verify", ![w].resuming = b]
    BY <1>5, <2>1, Zenon DEF Admit, Run
  <2>3. Becomes(w, k)
    BY <1>2, <2>2, GotoBecomes, Zenon
  <2>4. k.pc = "verify" /\ k.resuming = b /\ Onward(w, k)
    <3>1. k.resuming = b
      BY <1>1, Zenon DEF WorkerStates, AtResuming
    <3>2. k.pc = "verify"
      BY <1>1, Zenon DEF WorkerStates, AtResuming
    <3>3. Onward(w, k)
      BY <1>1, <1>2, GotoOnward
    <3> QED BY <3>1, <3>2, <3>3, Zenon
  <2>5. k.resuming => s = "publishing"
    BY <2>1, <2>4, Zenon
  <2> HIDE DEF k
  <2> QED BY <1>1, <1>3, <2>3, <2>4, <2>5 DEF ThreadStep, Publication, Occupation
<1> QED BY <1>4, <1>5

LEMMA VerifyStep ==
    ASSUME StoreType, WorkerType, findings \in [RunIds -> Nat],
           NEW w \in Workers, VerifyCurrentReview(w)
    PROVE  \E k : ThreadStep(w, k) /\ Occupation(w, k)
<1> DEFINE r == worker[w].run
           pc == IF ~HeadIsCurrent(Run(w)) THEN "supersede"
                 ELSE IF worker[w].resuming THEN "publish" ELSE "prepare"
           h == IF worker[w].resuming THEN findings[Run(w)] ELSE 0
           k == AtHeld(worker[w], pc, h)
<1>1. worker[w].pc = "verify" /\ r \in RunIds /\ worker[w] \in WorkerStates
  BY DEF VerifyCurrentReview, WorkerType
<1>2. /\ pc \in Pcs /\ h \in Nat
      /\ pc \in {"supersede", "publish", "prepare"}
      /\ pc = "publish" => worker[w].resuming /\ h = findings[r]
  BY <1>1 DEF Pcs, Processing, Run
<1>3. worker' = [worker EXCEPT ![w].pc = pc, ![w].held = h]
  BY Zenon DEF VerifyCurrentReview
<1> HIDE DEF pc, h
<1>4. Becomes(w, k)
  BY <1>2, <1>3, GotoBecomes, Zenon
<1>5. k.pc = pc /\ k.held = h /\ Onward(w, k)
  BY <1>1, <1>2, ThreadFields, GotoOnward
<1> HIDE DEF k
<1> QED BY <1>1, <1>2, <1>4, <1>5 DEF ThreadStep, Publication, Occupation

LEMMA SaveStep ==
    ASSUME StoreType, WorkerType, NEW w \in Workers, SaveFindings(w)
    PROVE  \E k : ThreadStep(w, k) /\ Occupation(w, k)
<1> DEFINE k == AtHeld(worker[w], "normalize", worker[w].attempt)
<1>1. worker[w].pc = "save" /\ worker[w] \in WorkerStates /\ "normalize" \in Pcs
  BY DEF SaveFindings, WorkerType, Pcs, Processing
<1>2. worker[w].attempt \in Nat
  BY <1>1 DEF WorkerStates
<1>3. /\ findings' = [findings EXCEPT ![worker[w].run] = worker[w].attempt]
      /\ worker' = [worker EXCEPT ![w].pc = "normalize", ![w].held = worker[w].attempt]
  BY Zenon DEF SaveFindings, Run
<1>4. Becomes(w, k)
  BY <1>1, <1>3, GotoBecomes, Zenon
<1>5. k.pc = "normalize" /\ k.held = worker[w].attempt /\ Onward(w, k)
  BY <1>1, <1>2, ThreadFields, GotoOnward
<1>6. findings' = [findings EXCEPT ![worker[w].run] = worker[w].attempt]
  BY <1>3
<1> HIDE DEF k
<1> QED BY <1>1, <1>4, <1>5, <1>6 DEF ThreadStep, Publication, Occupation

LEMMA PublishSteps ==
    ASSUME StoreType, WorkerType, NEW w \in Workers,
           VerifyBeforePublication(w) \/ Publish(w)
    PROVE  \E k : ThreadStep(w, k) /\ Occupation(w, k)
<1>1. {"write", "supersede", "complete"} \subseteq Pcs
  BY DEF Pcs, Processing
<1>2. CASE VerifyBeforePublication(w)
  <2>1. PICK pc \in {"write", "supersede"} : Goto(w, pc)
    BY <1>2 DEF VerifyBeforePublication
  <2>2. worker[w].pc = "publish"
    BY <1>2 DEF VerifyBeforePublication
  <2> DEFINE k == At(worker[w], pc)
  <2>3. Becomes(w, k) /\ Onward(w, k) /\ k.pc = pc /\ k.held = worker[w].held
    BY <1>1, <2>1, <2>2, GotoFields
  <2> HIDE DEF k
  <2> QED BY <2>1, <2>2, <2>3 DEF ThreadStep, Publication, Occupation
<1>3. CASE Publish(w)
  <2>1. worker[w].pc = "write" /\ Goto(w, "complete")
    BY <1>3 DEF Publish
  <2> QED BY <1>1, <2>1, GotoFields, PlainStep DEF Occupation
<1> QED BY <1>2, <1>3

LEMMA EndSteps ==
    ASSUME StoreType, WorkerType, NEW w \in Workers, Complete(w) \/ Supersede(w) \/ FailRun(w)
    PROVE  \E k : ThreadStep(w, k) /\ Occupation(w, k)
<1> DEFINE r == worker[w].run
<1>1. worker[w].pc \in {"complete", "supersede", "failrun"} /\ r \in RunIds
  BY DEF Complete, Supersede, FailRun, WorkerType
<1>2. {"completed", "superseded", "failed"} \subseteq RunStates /\ {"stop", "succeed"} \subseteq Pcs
  BY DEF RunStates, TerminalStates, Pcs
<1>3. ASSUME NEW next \in {"completed", "superseded", "failed"}, AdvanceLegacyRun(r, next)
      PROVE  runs'[r].state \notin ActiveStates
  <2>1. runs'[r].state = Advanced(r, next)
    BY <1>1, <1>2, <1>3, AdvancedState
  <2> QED BY <2>1, <1>3 DEF Advanced, NoTransition, Terminal, TerminalStates, ActiveStates
<1>4. CASE Complete(w)
  <2>1. PICK pc \in {"stop", "succeed"} : Goto(w, pc)
    BY <1>4 DEF Complete
  <2>2. worker[w].pc = "complete" /\ AdvanceLegacyRun(r, "completed")
    BY <1>4 DEF Complete, Run
  <2> QED BY <1>1, <1>2, <1>3, <2>1, <2>2, GotoFields, PlainStep DEF Occupation
<1>5. CASE Supersede(w)
  <2>1. \E s : Halt(w, s)
    BY <1>5 DEF Supersede
  <2>2. AdvanceLegacyRun(r, "superseded")
    BY <1>5 DEF Supersede, Run
  <2>3. PICK k : ThreadStep(w, k) /\ k.pc \in {"idle", "stop"}
    BY <1>1, <2>1, HaltStep
  <2> QED BY <1>1, <1>3, <2>2, <2>3 DEF Occupation
<1>6. CASE FailRun(w)
  <2>1. Leave(w) /\ AdvanceLegacyRun(r, "failed")
    BY <1>6 DEF FailRun, Run
  <2> QED BY <1>1, <1>3, <2>1, LeaveStep DEF Occupation, Idle
<1> QED BY <1>4, <1>5, <1>6

LEMMA InterruptStep ==
    ASSUME StoreType, WorkerType, NEW w \in Workers, Interrupt(w)
    PROVE  \E k : ThreadStep(w, k) /\ Occupation(w, k)
<1> DEFINE r == worker[w].run
<1>1. worker[w].pc \notin {"idle", "failrun"} /\ {"fail", "stop"} \subseteq Pcs
  BY DEF Interrupt, Processing, Pcs
<1>2. runs'[r].state \notin ActiveStates
  <2>1. runs' = runs /\ runs[r].state \in TerminalStates
    BY DEF Interrupt, storeVars, Terminal, Run
  <2> QED BY <2>1 DEF TerminalStates, ActiveStates
<1>3. (\E pc \in {"fail", "stop"} : Goto(w, pc)) \/ \E s : Halt(w, s)
  BY DEF Interrupt
<1>4. ASSUME NEW pc \in {"fail", "stop"}, Goto(w, pc)
      PROVE  \E k : ThreadStep(w, k) /\ Occupation(w, k)
  BY <1>1, <1>2, <1>4, GotoFields, PlainStep DEF Occupation
<1>5. ASSUME NEW s, Halt(w, s)
      PROVE  \E k : ThreadStep(w, k) /\ Occupation(w, k)
  <2>1. PICK k : ThreadStep(w, k) /\ k.pc \in {"idle", "stop"}
    BY <1>1, <1>5, HaltStep
  <2> QED BY <1>2, <2>1 DEF Occupation
<1> QED BY <1>3, <1>4, <1>5

LEMMA FailureStep ==
    ASSUME StoreType, WorkerType, NEW w \in Workers, ExecutionFails(w)
    PROVE  \E k : ThreadStep(w, k) /\ Occupation(w, k)
<1> DEFINE r == worker[w].run
<1>1. worker[w].pc \notin {"idle", "failrun"} /\ "fail" \in Pcs /\ worker[w] \in WorkerStates
  BY DEF ExecutionFails, Processing, Pcs, WorkerType
<1>2. \/ /\ runs' = runs /\ Terminal(runs[r].state) /\ Halt(w, runs[r].state)
      \/ \E fatal \in BOOLEAN : worker' = [worker EXCEPT ![w].pc = "fail", ![w].fatal = fatal]
  <2>1. \A S : S = (IF worker[w].pc \in {"verify", "review", "publish", "write"}
                    THEN BOOLEAN ELSE {FALSE}) => S \subseteq BOOLEAN
    OBVIOUS
  <2> QED BY <2>1, Zenon DEF ExecutionFails, Run, storeVars
<1>3. CASE runs' = runs /\ Terminal(runs[r].state) /\ Halt(w, runs[r].state)
  <2>1. PICK k : ThreadStep(w, k) /\ k.pc \in {"idle", "stop"}
    BY <1>1, <1>3, HaltStep
  <2>2. runs'[r].state \notin ActiveStates
    BY <1>3 DEF Terminal, TerminalStates, ActiveStates
  <2> QED BY <2>1, <2>2 DEF Occupation
<1>4. ASSUME NEW fatal \in BOOLEAN, worker' = [worker EXCEPT ![w].pc = "fail", ![w].fatal = fatal]
      PROVE  \E k : ThreadStep(w, k) /\ Occupation(w, k)
  <2> DEFINE k == AtFatal(worker[w], "fail", fatal)
  <2>1. Becomes(w, k)
    BY <1>1, <1>4, GotoBecomes, Zenon
  <2>2. Onward(w, k)
    BY <1>1, GotoOnward
  <2>3. k.pc = "fail"
    BY <1>1, Zenon DEF WorkerStates, AtFatal
  <2> HIDE DEF k
  <2> QED BY <1>1, <2>1, <2>2, <2>3, PlainStep DEF Occupation
<1> QED BY <1>2, <1>3, <1>4

LEMMA RenewalFailsStep ==
    ASSUME StoreType, WorkerType, NEW w \in Workers, RenewalFails(w)
    PROVE  \E k : ThreadStep(w, k) /\ k.pc \in {"idle", "fail"}
<1>1. worker[w].pc \notin {"idle", "failrun"} /\ "fail" \in Pcs
  BY DEF RenewalFails, Processing, Pcs
<1>2. CASE Leave(w)
  BY <1>1, <1>2, LeaveStep DEF Idle
<1>3. CASE Goto(w, "fail")
  BY <1>1, <1>3, GotoFields, PlainStep
<1> QED BY <1>2, <1>3 DEF RenewalFails

LEMMA RecordStep ==
    ASSUME StoreType, WorkerType, NEW w \in Workers, RecordFailure(w)
    PROVE  \/ Leave(w) /\ ThreadStep(w, Idle)
           \/ Goto(w, "failrun") /\ \E k : ThreadStep(w, k) /\ k.pc = "failrun"
<1>1. worker[w].pc = "fail" /\ "failrun" \in Pcs
  BY DEF RecordFailure, Pcs
<1>2. CASE Leave(w)
  BY <1>1, <1>2, LeaveStep
<1>3. CASE Goto(w, "failrun")
  BY <1>1, <1>3, GotoFields, PlainStep
<1> QED BY <1>2, <1>3 DEF RecordFailure

\* Every step of a thread that has claimed a run.
ThreadAction(w) ==
    RunClaimed(w) \/ Interrupt(w) \/ RenewalFails(w) \/ ExecutionFails(w) \/ WorkerCrashes(w)

\* The steps that leave the job of the run alone and the run claimed, or end it.
Busy(w) ==
    \/ Admit(w) \/ VerifyCurrentReview(w) \/ Prepare(w) \/ Analyze(w) \/ Review(w)
    \/ SaveFindings(w) \/ Normalize(w) \/ EnterPublishing(w) \/ VerifyBeforePublication(w)
    \/ Publish(w) \/ Complete(w) \/ Supersede(w) \/ FailRun(w) \/ Interrupt(w)
    \/ ExecutionFails(w)

LEMMA BusySteps ==
    ASSUME StoreType, WorkerType, findings \in [RunIds -> Nat], NEW w \in Workers, Busy(w)
    PROVE  \E k : ThreadStep(w, k) /\ Occupation(w, k)
BY AdmitStep, VerifyStep, AdvanceSteps, SaveStep, PublishSteps, EndSteps, InterruptStep,
   FailureStep DEF Busy

LEMMA ThreadActions ==
    ASSUME NEW w, ThreadAction(w)
    PROVE  \/ Busy(w) \/ Succeed(w) \/ StopTerminalRun(w) \/ RecordFailure(w)
           \/ RenewalFails(w) \/ WorkerCrashes(w)
BY Zenon DEF ThreadAction, Busy, RunClaimed

LEMMA ThreadSteps ==
    ASSUME StoreType, WorkerType, findings \in [RunIds -> Nat], NEW w \in Workers,
           ThreadAction(w)
    PROVE  \E k : ThreadStep(w, k)
<1>1. CASE Succeed(w) \/ StopTerminalRun(w) \/ WorkerCrashes(w)
  BY <1>1, LeaveStep DEF Succeed, StopTerminalRun, WorkerCrashes
<1> QED BY <1>1, ThreadActions, BusySteps, RenewalFailsStep, RecordStep

\* The steps that no thread notices.
Unnoticed ==
    \/ \E q \in Requests : Push(q) \/ \E head \in 1..MaxHead : Webhook(q, head)
    \/ \E r \in RunIds : StoreStep(r) \/ LeaseLapses(r) \/ LeaseOverruns(r)
    \/ \E w \in Workers, r \in RunIds : RunForRunDefers(w, r)
    \/ \E w \in Workers : Watch(w) \/ Renew(w)
    \/ UNCHANGED vars

ClaimStep(w, r) == RunOnce(w, r) \/ RunForRun(w, r)

LEMMA StepCases ==
    ASSUME [Next]_vars
    PROVE  \/ Unnoticed
           \/ \E w \in Workers, r \in RunIds : ClaimStep(w, r)
           \/ \E w \in Workers : ThreadAction(w)
BY Zenon DEF Next, Unnoticed, ClaimStep, ThreadAction

LEMMA UnnoticedFields ==
    ASSUME Unnoticed
    PROVE  UNCHANGED <<worker, findings, published>>
BY Zenon DEF Unnoticed, Push, Webhook, StoreStep, LeaseLapses, LeaseOverruns, RunForRunDefers,
             Watch, Renew, envVars, vars

LEMMA ClaimStepFields ==
    ASSUME StoreType, WorkerType, NEW w \in Workers, NEW r \in RunIds, ClaimStep(w, r)
    PROVE  /\ worker[w].pc = "idle" /\ Becomes(w, Claimant(r)) /\ WorkerType'
           /\ worker'[w] = Claimant(r)
           /\ \A v \in Workers \ {w} : worker'[v] = worker[v]
           /\ Claimable(r) /\ Lease(r, RunnerID[w])
           /\ UNCHANGED <<runs, findings, published, failures, crashes>>
<1>1. /\ worker[w].pc = "idle" /\ Claimed(w, r) /\ Claimable(r) /\ Lease(r, RunnerID[w])
      /\ UNCHANGED <<runs, findings, published, failures, crashes>>
  BY Zenon DEF ClaimStep, RunOnce, RunForRun, Claim, ClaimForRun, Lease, envVars
<1>2. Becomes(w, Claimant(r)) /\ Claimant(r) \in WorkerStates /\ BusyHasRun(Claimant(r))
  BY <1>1, ClaimantFields
<1> QED BY <1>1, <1>2, BecomesFields

LEMMA WorkerTypeStep ==
    ASSUME StoreType, WorkerType, findings \in [RunIds -> Nat], [Next]_vars
    PROVE  WorkerType'
<1>1. CASE Unnoticed
  BY <1>1, UnnoticedFields DEF WorkerType
<1>2. ASSUME NEW w \in Workers, NEW r \in RunIds, ClaimStep(w, r)
      PROVE  WorkerType'
  BY <1>2, ClaimStepFields
<1>3. ASSUME NEW w \in Workers, ThreadAction(w)
      PROVE  WorkerType'
  BY <1>3, ThreadSteps, OnwardType DEF ThreadStep
<1> QED BY <1>1, <1>2, <1>3, StepCases

\* What a thread does to the stored and the published findings.
LEMMA ThreadEffects ==
    ASSUME NEW w \in Workers, ThreadAction(w)
    PROVE  /\ worker[w].pc # "idle"
           /\ findings' # findings =>
                 /\ findings' = [findings EXCEPT ![worker[w].run] = worker[w].attempt]
           /\ published' # published => /\ worker[w].pc = "write" /\ Lands(w)
<1>1. worker[w].pc # "idle"
  BY DEF ThreadAction, RunClaimed, Admit, VerifyCurrentReview, Prepare, Analyze, Review,
         SaveFindings, Normalize, EnterPublishing, VerifyBeforePublication, Publish, Complete,
         Succeed, Supersede, StopTerminalRun, RecordFailure, FailRun, Interrupt, RenewalFails,
         ExecutionFails, WorkerCrashes, Processing
<1>2. \/ findings' = findings
      \/ findings' = [findings EXCEPT ![worker[w].run] = worker[w].attempt]
  BY Zenon DEF ThreadAction, RunClaimed, Admit, VerifyCurrentReview, Prepare, Analyze, Review,
         SaveFindings, Normalize, EnterPublishing, VerifyBeforePublication, Publish, Complete,
         Succeed, Supersede, StopTerminalRun, RecordFailure, FailRun, Interrupt, RenewalFails,
         ExecutionFails, WorkerCrashes, envVars, Run
<1>3. published' = published \/ (worker[w].pc = "write" /\ Lands(w))
  BY Zenon DEF ThreadAction, RunClaimed, Admit, VerifyCurrentReview, Prepare, Analyze, Review,
         SaveFindings, Normalize, EnterPublishing, VerifyBeforePublication, Publish, Complete,
         Succeed, Supersede, StopTerminalRun, RecordFailure, FailRun, Interrupt, RenewalFails,
         ExecutionFails, WorkerCrashes, envVars
<1> QED BY <1>1, <1>2, <1>3, Zenon

LEMMA EnvironmentSteps ==
    ASSUME [Next]_vars
    PROVE  /\ providerHead' = providerHead \/ \E q \in Requests : Push(q)
           /\ failures' = failures \/ Fails
           /\ crashes' = crashes \/ Crashes
<1> USE DEF Next, Webhook, StoreStep, LeaseLapses, LeaseOverruns, RunOnce, RunForRun,
            RunForRunDefers, RunClaimed, Admit, VerifyCurrentReview, Prepare, Analyze, Review,
            SaveFindings, Normalize, EnterPublishing, VerifyBeforePublication, Publish, Complete,
            Succeed, Supersede, StopTerminalRun, RecordFailure, FailRun, Watch, Interrupt, Renew,
            RenewalFails, ExecutionFails, WorkerCrashes, envVars, vars
<1>1. providerHead' = providerHead \/ \E q \in Requests : Push(q)
  BY ZenonT(60)
<1>2. failures' = failures \/ Fails
  BY ZenonT(60) DEF Push
<1>3. crashes' = crashes \/ Crashes
  BY ZenonT(60) DEF Push
<1> QED BY <1>1, <1>2, <1>3

LEMMA TypeStep == TypeOK /\ [Next]_vars => TypeOK'
<1> SUFFICES ASSUME TypeOK, [Next]_vars
             PROVE  TypeOK'
  OBVIOUS
<1>1. StoreType /\ WorkerType
  BY SameType DEF TypeOK, WorkerType
<1>2. StoreTypeOK'
  <2>1. StoreType'
    BY <1>1, StoreSteps, StoreActionType
  <2>2. (StoreTypeOK <=> StoreType)'
    BY SameType, PTL
  <2> QED BY <2>1, <2>2
<1>3. WorkerType'
  BY <1>1, WorkerTypeStep DEF TypeOK
<1>4. providerHead' \in [Requests -> Nat]
  BY EnvironmentSteps DEF TypeOK, Push
<1>5. failures' \in 0..MaxFailures /\ crashes' \in 0..MaxCrashes
  BY EnvironmentSteps, RunnerAssumption DEF TypeOK, Fails, Crashes
<1>6. findings' \in [RunIds -> Nat] /\ published' \in [RunIds -> Nat]
  <2>1. CASE Unnoticed
    BY <2>1, UnnoticedFields DEF TypeOK
  <2>2. ASSUME NEW w \in Workers, NEW r \in RunIds, ClaimStep(w, r)
        PROVE  UNCHANGED <<findings, published>>
    BY <1>1, <2>2, ClaimStepFields
  <2>3. ASSUME NEW w \in Workers, ThreadAction(w)
        PROVE  findings' \in [RunIds -> Nat] /\ published' \in [RunIds -> Nat]
    <3>1. worker[w].attempt \in Nat /\ worker[w].held \in Nat
      BY DEF TypeOK, WorkerStates
    <3> QED BY <2>3, <3>1, ThreadEffects DEF TypeOK, Lands
  <2> QED BY <2>1, <2>2, <2>3, StepCases DEF TypeOK
<1> QED BY <1>2, <1>3, <1>4, <1>5, <1>6 DEF TypeOK, WorkerType

\* Whatever the threads, users and providers do, every row of the store and
\* every thread of a runner (Processor.runClaimed) keeps its type, and a thread
\* that works has a run.
THEOREM TypeCorrect == SafeSpec => []TypeOK
BY InitType, TypeStep, PTL DEF SafeSpec

-----------------------------------------------------------------------------
(* What a transaction does to runs, usage, evidence and notices.           *)

\* A run belongs to a review.
Requested == \A r \in RunIds : runs[r].state # "absent" => runs[r].req \in Requests

\* The run n of the review q appears, admitted or rejected, and replaces the
\* active ones: Enqueue, and RequestRunRetry where there are none.
Birth(n, q) ==
    /\ runs[n].state = "absent" /\ runs'[n].req = q
    /\ \/ /\ ~QuotaExceeded
          /\ runs'[n].state = "acknowledged" /\ runs'[n].revision = 1
          /\ usage'[n] = "reserved" /\ stages'[n] = Pending
       \/ /\ runs'[n].state = "failed" /\ runs'[n].revision = 2
          /\ usage'[n] = "none" /\ stages'[n] = [i \in Stages |-> "skipped"]
    /\ \A r \in RunIds \ {n} : stages'[r] = stages[r]
    /\ \A r \in ActiveRuns(q) \ {n} :
          /\ runs'[r].state = "superseded" /\ runs'[r].revision = runs[r].revision + 1
          /\ runs'[r].req = q /\ usage'[r] = Finalized(usage[r], FALSE)
    /\ \A r \in RunIds \ (ActiveRuns(q) \cup {n}) : runs'[r] = runs[r] /\ usage'[r] = usage[r]
    /\ outbox' = outbox \cup {<<n, 1, "acknowledged">>}
                        \cup (IF runs'[n].state = "failed" THEN {<<n, 2, "failed">>} ELSE {})
                        \cup {<<r, runs[r].revision + 1, "superseded">> : r \in ActiveRuns(q)}
    /\ current' = [current EXCEPT ![q] = n]

LEMMA NewRowsBirth ==
    ASSUME NEW n, NEW q, NEW head, NEW trigger
    PROVE  LET new == NewRows(n, q, head, trigger) IN
           /\ new.run.req = q
           /\ \/ /\ ~QuotaExceeded
                 /\ new.run.state = "acknowledged" /\ new.run.revision = 1
                 /\ new.usage = "reserved" /\ new.stages = Pending
              \/ /\ new.run.state = "failed" /\ new.run.revision = 2
                 /\ new.usage = "none" /\ new.stages = [i \in Stages |-> "skipped"]
           /\ new.rows = {<<n, 1, "acknowledged">>}
                 \cup (IF new.run.state = "failed" THEN {<<n, 2, "failed">>} ELSE {})
<1> DEFINE new == NewRows(n, q, head, trigger)
<1>1. /\ FirstRun(q, head, trigger, "acknowledged", 1).req = q
      /\ FirstRun(q, head, trigger, "acknowledged", 1).state = "acknowledged"
      /\ FirstRun(q, head, trigger, "acknowledged", 1).revision = 1
      /\ FirstRun(q, head, trigger, "failed", 2).req = q
      /\ FirstRun(q, head, trigger, "failed", 2).state = "failed"
      /\ FirstRun(q, head, trigger, "failed", 2).revision = 2
  BY DEF FirstRun
<1>2. {<<n, 1, "acknowledged">>, <<n, 2, "failed">>}
         = {<<n, 1, "acknowledged">>} \cup {<<n, 2, "failed">>}
  OBVIOUS
<1> HIDE DEF new
<1>3. CASE ~QuotaExceeded /\ new.run = FirstRun(q, head, trigger, "acknowledged", 1)
           /\ new.usage = "reserved" /\ new.stages = Pending
           /\ new.rows = {<<n, 1, "acknowledged">>}
  BY <1>1, <1>3 DEF new
<1>4. CASE new.run = FirstRun(q, head, trigger, "failed", 2)
           /\ new.usage = "none" /\ new.stages = [i \in Stages |-> "skipped"]
           /\ new.rows = {<<n, 1, "acknowledged">>, <<n, 2, "failed">>}
  BY <1>1, <1>2, <1>4, Zenon DEF new
<1>5. \/ /\ ~QuotaExceeded /\ new.run = FirstRun(q, head, trigger, "acknowledged", 1)
         /\ new.usage = "reserved" /\ new.stages = Pending
         /\ new.rows = {<<n, 1, "acknowledged">>}
      \/ /\ new.run = FirstRun(q, head, trigger, "failed", 2)
         /\ new.usage = "none" /\ new.stages = [i \in Stages |-> "skipped"]
         /\ new.rows = {<<n, 1, "acknowledged">>, <<n, 2, "failed">>}
  BY NewRowsFields DEF new
<1> QED BY <1>3, <1>4, <1>5, Zenon

LEMMA EnqueueBirth ==
    ASSUME StoreType, NEW q \in Requests, NEW head \in Nat, Enqueue(q, head)
    PROVE  \E n \in RunIds : Birth(n, q)
<1>1. PICK n \in RunIds :
         LET new == NewRows(n, q, head, "pull_request") IN
         /\ NextRun(n)
         /\ runs' = [r \in RunIds |-> IF r = n THEN new.run
                                      ELSE IF r \in ActiveRuns(q) THEN SupersedeRun(runs[r])
                                      ELSE runs[r]]
         /\ usage' = [r \in RunIds |-> IF r = n THEN new.usage
                                       ELSE IF r \in ActiveRuns(q) THEN Finalized(usage[r], FALSE)
                                       ELSE usage[r]]
         /\ stages' = [stages EXCEPT ![n] = new.stages]
         /\ outbox' = outbox \cup new.rows \cup
               {<<r, runs[r].revision + 1, "superseded">> : r \in ActiveRuns(q)}
         /\ current' = [current EXCEPT ![q] = n]
  BY Zenon DEF Enqueue
<1> DEFINE new == NewRows(n, q, head, "pull_request")
<1>2. /\ new.run.req = q
      /\ \/ /\ ~QuotaExceeded
            /\ new.run.state = "acknowledged" /\ new.run.revision = 1
            /\ new.usage = "reserved" /\ new.stages = Pending
         \/ /\ new.run.state = "failed" /\ new.run.revision = 2
            /\ new.usage = "none" /\ new.stages = [i \in Stages |-> "skipped"]
      /\ new.rows = {<<n, 1, "acknowledged">>}
            \cup (IF new.run.state = "failed" THEN {<<n, 2, "failed">>} ELSE {})
  BY NewRowsBirth
<1>3. /\ runs' = [r \in RunIds |-> IF r = n THEN new.run
                                   ELSE IF r \in ActiveRuns(q) THEN SupersedeRun(runs[r])
                                   ELSE runs[r]]
      /\ usage' = [r \in RunIds |-> IF r = n THEN new.usage
                                    ELSE IF r \in ActiveRuns(q) THEN Finalized(usage[r], FALSE)
                                    ELSE usage[r]]
      /\ stages' = [stages EXCEPT ![n] = new.stages]
      /\ outbox' = outbox \cup new.rows \cup
            {<<r, runs[r].revision + 1, "superseded">> : r \in ActiveRuns(q)}
  BY <1>1
<1> HIDE DEF new
<1>4. runs[n].state = "absent" /\ current' = [current EXCEPT ![q] = n]
  BY <1>1 DEF NextRun
<1>5. runs'[n] = new.run /\ usage'[n] = new.usage
  BY <1>3
<1>6. stages'[n] = new.stages /\ \A r \in RunIds \ {n} : stages'[r] = stages[r]
  BY <1>3 DEF StoreType
<1>7. ASSUME NEW r \in ActiveRuns(q) \ {n}
      PROVE  /\ runs'[r].state = "superseded" /\ runs'[r].revision = runs[r].revision + 1
             /\ runs'[r].req = q /\ usage'[r] = Finalized(usage[r], FALSE)
  <2>1. r \in RunIds /\ runs[r] \in RunRow /\ runs[r].req = q
    BY DEF StoreType, ActiveRuns
  <2>2. runs'[r] = SupersedeRun(runs[r]) /\ usage'[r] = Finalized(usage[r], FALSE)
    BY <1>3, <2>1
  <2> QED BY <2>1, <2>2, SupersededType
<1>8. \A r \in RunIds \ (ActiveRuns(q) \cup {n}) : runs'[r] = runs[r] /\ usage'[r] = usage[r]
  BY <1>3
<1>9. outbox' = outbox \cup {<<n, 1, "acknowledged">>}
                   \cup (IF runs'[n].state = "failed" THEN {<<n, 2, "failed">>} ELSE {})
                   \cup {<<r, runs[r].revision + 1, "superseded">> : r \in ActiveRuns(q)}
  <2> DEFINE old == {<<r, runs[r].revision + 1, "superseded">> : r \in ActiveRuns(q)}
             fail == IF runs'[n].state = "failed" THEN {<<n, 2, "failed">>} ELSE {}
  <2>1. outbox' = outbox \cup new.rows \cup old /\ new.rows = {<<n, 1, "acknowledged">>} \cup fail
    BY <1>2, <1>3, <1>5, Zenon
  <2> HIDE DEF old, fail
  <2>2. outbox' = outbox \cup {<<n, 1, "acknowledged">>} \cup fail \cup old
    BY <2>1
  <2> QED BY <2>2 DEF old, fail
<1>10. /\ runs'[n].req = q
       /\ \/ /\ ~QuotaExceeded
             /\ runs'[n].state = "acknowledged" /\ runs'[n].revision = 1
             /\ usage'[n] = "reserved" /\ stages'[n] = Pending
          \/ /\ runs'[n].state = "failed" /\ runs'[n].revision = 2
             /\ usage'[n] = "none" /\ stages'[n] = [i \in Stages |-> "skipped"]
  BY <1>2, <1>5, <1>6, Zenon
<1>11. Birth(n, q)
  BY <1>4, <1>6, <1>7, <1>8, <1>9, <1>10, Zenon DEF Birth
<1> QED BY <1>11

LEMMA RetryBirth ==
    ASSUME StoreType, Requested, NEW r \in RunIds, RequestRunRetry(r)
    PROVE  \E n \in RunIds, q \in Requests : Birth(n, q)
<1> DEFINE q == runs[r].req
<1>0. q \in Requests /\ ActiveRuns(q) = {}
  BY DEF RequestRunRetry, Requested
<1>1. PICK n \in RunIds :
         LET new == NewRows(n, q, runs[r].head, "retry") IN
         /\ NextRun(n)
         /\ runs' = [runs EXCEPT ![n] = new.run]
         /\ usage' = [usage EXCEPT ![n] = new.usage]
         /\ stages' = [stages EXCEPT ![n] = new.stages]
         /\ outbox' = outbox \cup new.rows
         /\ current' = [current EXCEPT ![q] = n]
  BY Zenon DEF RequestRunRetry
<1> DEFINE new == NewRows(n, q, runs[r].head, "retry")
<1>2. /\ new.run.req = q
      /\ \/ /\ ~QuotaExceeded
            /\ new.run.state = "acknowledged" /\ new.run.revision = 1
            /\ new.usage = "reserved" /\ new.stages = Pending
         \/ /\ new.run.state = "failed" /\ new.run.revision = 2
            /\ new.usage = "none" /\ new.stages = [i \in Stages |-> "skipped"]
      /\ new.rows = {<<n, 1, "acknowledged">>}
            \cup (IF new.run.state = "failed" THEN {<<n, 2, "failed">>} ELSE {})
  BY NewRowsBirth
<1>3. /\ runs' = [runs EXCEPT ![n] = new.run]
      /\ usage' = [usage EXCEPT ![n] = new.usage]
      /\ stages' = [stages EXCEPT ![n] = new.stages]
      /\ outbox' = outbox \cup new.rows
      /\ current' = [current EXCEPT ![q] = n]
      /\ runs[n].state = "absent"
  BY <1>1 DEF NextRun
<1> HIDE DEF new, q
<1>4. /\ runs'[n] = new.run /\ usage'[n] = new.usage /\ stages'[n] = new.stages
      /\ \A t \in RunIds \ {n} : runs'[t] = runs[t] /\ usage'[t] = usage[t] /\ stages'[t] = stages[t]
  BY <1>3 DEF StoreType
<1>5. outbox' = outbox \cup {<<n, 1, "acknowledged">>}
                   \cup (IF runs'[n].state = "failed" THEN {<<n, 2, "failed">>} ELSE {})
                   \cup {<<t, runs[t].revision + 1, "superseded">> : t \in ActiveRuns(q)}
  <2> DEFINE old == {<<t, runs[t].revision + 1, "superseded">> : t \in ActiveRuns(q)}
             fail == IF runs'[n].state = "failed" THEN {<<n, 2, "failed">>} ELSE {}
  <2>1. old = {}
    BY <1>0
  <2>2. outbox' = outbox \cup new.rows /\ new.rows = {<<n, 1, "acknowledged">>} \cup fail
    BY <1>2, <1>3, <1>4, Zenon
  <2> HIDE DEF old, fail
  <2>3. outbox' = outbox \cup {<<n, 1, "acknowledged">>} \cup fail \cup old
    BY <2>1, <2>2
  <2> QED BY <2>3 DEF old, fail
<1>6. /\ runs'[n].req = q
      /\ \/ /\ ~QuotaExceeded
            /\ runs'[n].state = "acknowledged" /\ runs'[n].revision = 1
            /\ usage'[n] = "reserved" /\ stages'[n] = Pending
         \/ /\ runs'[n].state = "failed" /\ runs'[n].revision = 2
            /\ usage'[n] = "none" /\ stages'[n] = [i \in Stages |-> "skipped"]
  BY <1>2, <1>4, Zenon
<1>7. \A t \in ActiveRuns(q) \ {n} :
         /\ runs'[t].state = "superseded" /\ runs'[t].revision = runs[t].revision + 1
         /\ runs'[t].req = q /\ usage'[t] = Finalized(usage[t], FALSE)
  BY <1>0
<1>8. Birth(n, q)
  BY <1>3, <1>4, <1>5, <1>6, <1>7, Zenon DEF Birth
<1> QED BY <1>0, <1>8

\* A coalesced webhook supersedes nothing: the review has one active run, and
\* that is the one at the same head.
LEMMA CoalesceNothing ==
    ASSUME StoreType, OneActiveRun, NEW q \in Requests, NEW head, Coalesce(q, head)
    PROVE  UNCHANGED <<runs, jobs, usage, stages, intervention, outbox, current>>
<1>1. PICK r \in ActiveRuns(q) : runs[r].head = head
  BY DEF Coalesce
<1>2. \A t \in RunIds : ~(t \in ActiveRuns(q) /\ runs[t].head # head)
  BY <1>1 DEF OneActiveRun
<1>3. runs' = [t \in RunIds |-> runs[t]]
  BY <1>2 DEF Coalesce
<1> QED BY <1>3 DEF StoreType, Coalesce

LEMMA RunSteps ==
    ASSUME StoreType, Requested, OneActiveRun, NEW S \in SUBSET RunStates,
           StoreActionTo(S)
    PROVE  \/ UNCHANGED <<runs, usage, stages, outbox, current>>
           \/ \E n \in RunIds, q \in Requests : Birth(n, q)
           \/ \E r \in RunIds, next \in S : Transition(r, next)
           \/ \E r \in RunIds : RequestRunCancellation(r)
<1> DEFINE Goal == \/ UNCHANGED <<runs, usage, stages, outbox, current>>
                   \/ \E n \in RunIds, q \in Requests : Birth(n, q)
                   \/ \E r \in RunIds, next \in S : Transition(r, next)
                   \/ \E r \in RunIds : RequestRunCancellation(r)
<1>1. CASE UNCHANGED storeVars
  BY <1>1 DEF storeVars
<1>2. ASSUME NEW q \in Requests, NEW head \in Nat, Enqueue(q, head) \/ Coalesce(q, head)
      PROVE  Goal
  BY <1>2, EnqueueBirth, CoalesceNothing, Zenon
<1>3. ASSUME NEW r \in RunIds, RequestRunRetry(r) \/ RequestRunCancellation(r)
      PROVE  Goal
  BY <1>3, RetryBirth, Zenon
<1>4. ASSUME NEW r \in RunIds, ClaimReviewIntervention(r) \/ ResolveReviewIntervention(r)
      PROVE  Goal
  BY <1>4, Zenon DEF ClaimReviewIntervention, ResolveReviewIntervention
<1>5. ASSUME NEW r \in RunIds, NEW next \in S, AdvanceLegacyRun(r, next)
      PROVE  Goal
  BY <1>5, AdvanceCases, Zenon DEF storeVars
<1>6. ASSUME NEW r \in RunIds, JobStep(r)
      PROVE  Goal
  BY <1>6, JobStepType
<1> QED BY <1>1, <1>2, <1>3, <1>4, <1>5, <1>6, Zenon DEF StoreActionTo

\* A run that ends or moves on: AdvanceLegacyRun and RequestRunCancellation.
Moves(r, next) ==
    /\ runs[r].state \in ActiveStates /\ next \in RunStates /\ next # runs[r].state
    /\ runs'[r].state = next /\ runs'[r].revision = runs[r].revision + 1
    /\ runs'[r].req = runs[r].req
    /\ \A t \in RunIds \ {r} : runs'[t] = runs[t]
    /\ usage' = [usage EXCEPT ![r] = IF Terminal(next)
                                     THEN Finalized(@, next = "completed") ELSE @]
    /\ outbox' = outbox \/ outbox' = outbox \cup {<<r, runs[r].revision + 1, next>>}
    /\ Terminal(next) => outbox' = outbox \cup {<<r, runs[r].revision + 1, next>>}
    /\ UNCHANGED current

LEMMA TransitionMoves ==
    ASSUME StoreType, NEW r \in RunIds, NEW next \in RunStates, Transition(r, next)
    PROVE  Moves(r, next)
<1>1. /\ ~NoTransition(runs[r].state, next) /\ CanTransitionTo(runs[r].state, next)
      /\ runs' = Moved(r, next)
      /\ usage' = [usage EXCEPT ![r] = IF Terminal(next)
                                       THEN Finalized(@, next = "completed") ELSE @]
      /\ outbox' = (IF HasBrokerConsumer(next)
                    THEN outbox \cup {<<r, runs[r].revision + 1, next>>} ELSE outbox)
      /\ UNCHANGED current
  BY Zenon DEF Transition
<1>2. runs[r].state \in ActiveStates /\ next # runs[r].state
  BY <1>1 DEF CanTransitionTo, NoTransition, ActiveStates
<1>3. Terminal(next) => HasBrokerConsumer(next)
  BY DEF Terminal, HasBrokerConsumer
<1>4. /\ runs'[r].state = next /\ runs'[r].revision = runs[r].revision + 1
      /\ runs'[r].req = runs[r].req
      /\ \A t \in RunIds \ {r} : runs'[t] = runs[t]
  BY <1>1, MovedFields DEF StoreType
<1> QED BY <1>1, <1>2, <1>3, <1>4, Zenon DEF Moves

LEMMA CancellationMoves ==
    ASSUME StoreType, NEW r \in RunIds, RequestRunCancellation(r)
    PROVE  Moves(r, "cancelled") /\ UNCHANGED stages
<1>1. "cancelled" \in RunStates /\ Terminal("cancelled") /\ "cancelled" # "completed"
      /\ "cancelled" \notin ActiveStates
  BY DEF RunStates, TerminalStates, Terminal, ActiveStates
<1>2. runs' = Moved(r, "cancelled")
  BY CancellationType
<1>3. /\ runs'[r].state = "cancelled" /\ runs'[r].revision = runs[r].revision + 1
      /\ runs'[r].req = runs[r].req
      /\ \A t \in RunIds \ {r} : runs'[t] = runs[t]
  BY <1>1, <1>2, MovedFields DEF StoreType
<1>4. /\ runs[r].state \in ActiveStates
      /\ usage' = [usage EXCEPT ![r] = Finalized(@, FALSE)]
      /\ outbox' = outbox \cup {<<r, runs[r].revision + 1, "cancelled">>}
      /\ UNCHANGED <<current, stages>>
  BY Zenon DEF RequestRunCancellation, Active
<1>5. usage' = [usage EXCEPT ![r] = IF Terminal("cancelled")
                                    THEN Finalized(@, "cancelled" = "completed") ELSE @]
  <2>1. Finalized(usage[r], FALSE) = Finalized(usage[r], "cancelled" = "completed")
    BY DEF Finalized
  <2> QED BY <1>1, <1>4, <2>1
<1> QED BY <1>1, <1>3, <1>4, <1>5, Zenon DEF Moves

LEMMA RunMoves ==
    ASSUME StoreType, Requested, OneActiveRun, StoreAction
    PROVE  \/ UNCHANGED <<runs, usage, stages, outbox, current>>
           \/ \E n \in RunIds, q \in Requests : Birth(n, q)
           \/ \E r \in RunIds, next \in RunStates : Moves(r, next)
<1>1. "cancelled" \in RunStates
  BY DEF RunStates, TerminalStates
<1> QED BY <1>1, RunSteps, TransitionMoves, CancellationMoves, Zenon DEF StoreAction

LEMMA DisjointStates ==
    /\ ActiveStates \cap TerminalStates = {}
    /\ "absent" \notin RunStates
    /\ "acknowledged" \in ActiveStates /\ {"failed", "superseded"} \subseteq TerminalStates
    /\ RunStates = ActiveStates \cup TerminalStates
    /\ \A s \in ActiveStates : s # "completed"
BY DEF ActiveStates, TerminalStates, RunStates

LEMMA OneActiveStep ==
    ASSUME StoreType, Requested, OneActiveRun, StoreAction
    PROVE  Requested' /\ OneActiveRun'
<1>1. CASE UNCHANGED <<runs, usage, stages, outbox, current>>
  BY <1>1 DEF Requested, OneActiveRun, ActiveRuns, Active
<1>2. ASSUME NEW n \in RunIds, NEW q \in Requests, Birth(n, q)
      PROVE  Requested' /\ OneActiveRun'
  <2>1. /\ runs'[n].req = q /\ current'[q] = n
        /\ \A p \in Requests \ {q} : current'[p] = current[p]
        /\ \A r \in ActiveRuns(q) \ {n} : runs'[r].state = "superseded" /\ runs'[r].req = q
        /\ \A r \in RunIds \ (ActiveRuns(q) \cup {n}) : runs'[r] = runs[r]
    BY <1>2 DEF Birth, StoreType
  <2>2. ASSUME NEW r \in RunIds, runs'[r].state # "absent"
        PROVE  runs'[r].req \in Requests
    BY <2>1, <2>2 DEF Requested
  <2>3. ASSUME NEW p \in Requests, NEW r \in RunIds, runs'[r].state \in ActiveStates,
               runs'[r].req = p
        PROVE  r = current'[p]
    <3>1. CASE r = n
      BY <2>1, <2>3, <3>1
    <3>2. CASE r # n
      <4>1. runs'[r] = runs[r] /\ r \notin ActiveRuns(q)
        BY <2>1, <2>3, <3>2, DisjointStates
      <4>2. runs[r].req = p /\ runs[r].state \in ActiveStates
        BY <4>1, <2>3
      <4>3. r \in ActiveRuns(p) /\ p # q
        BY <4>1, <4>2 DEF ActiveRuns, Active
      <4> QED BY <2>1, <4>3 DEF OneActiveRun
    <3> QED BY <3>1, <3>2
  <2> QED BY <2>2, <2>3 DEF Requested, OneActiveRun, ActiveRuns, Active
<1>3. ASSUME NEW r \in RunIds, NEW next \in RunStates, Moves(r, next)
      PROVE  Requested' /\ OneActiveRun'
  <2>1. /\ runs[r].state \in ActiveStates /\ runs'[r].req = runs[r].req /\ current' = current
        /\ \A t \in RunIds \ {r} : runs'[t] = runs[t]
    BY <1>3 DEF Moves
  <2>2. ASSUME NEW t \in RunIds, runs'[t].state # "absent"
        PROVE  runs'[t].req \in Requests
    BY <2>1, <2>2, DisjointStates DEF Requested
  <2>3. ASSUME NEW p \in Requests, NEW t \in RunIds, runs'[t].state \in ActiveStates,
               runs'[t].req = p
        PROVE  t = current'[p]
    BY <2>1, <2>3 DEF OneActiveRun, ActiveRuns, Active
  <2> QED BY <2>2, <2>3 DEF Requested, OneActiveRun, ActiveRuns, Active
<1> QED BY <1>1, <1>2, <1>3, RunMoves

LEMMA UsageStep ==
    ASSUME StoreType, Requested, OneActiveRun, UsageMatchesRun, StoreAction
    PROVE  UsageMatchesRun'
<1>1. CASE UNCHANGED <<runs, usage, stages, outbox, current>>
  BY <1>1 DEF UsageMatchesRun, Active
<1>2. ASSUME NEW n \in RunIds, NEW q \in Requests, Birth(n, q), NEW r \in RunIds
      PROVE  /\ usage'[r] = "reserved" <=> runs'[r].state \in ActiveStates
             /\ usage'[r] = "settled" <=> runs'[r].state = "completed"
  <2>1. CASE r = n
    BY <1>2, <2>1, DisjointStates DEF Birth
  <2>2. CASE r \in ActiveRuns(q) \ {n}
    <3>1. usage[r] = "reserved"
      BY <1>2, <2>2 DEF ActiveRuns, UsageMatchesRun
    <3>2. runs'[r].state = "superseded" /\ usage'[r] = Finalized(usage[r], FALSE)
      BY <1>2, <2>2 DEF Birth
    <3> QED BY <3>1, <3>2, DisjointStates DEF Finalized
  <2>3. CASE r \notin ActiveRuns(q) \cup {n}
    BY <1>2, <2>3 DEF Birth, UsageMatchesRun, Active
  <2> QED BY <2>1, <2>2, <2>3
<1>3. ASSUME NEW t \in RunIds, NEW next \in RunStates, Moves(t, next), NEW r \in RunIds
      PROVE  /\ usage'[r] = "reserved" <=> runs'[r].state \in ActiveStates
             /\ usage'[r] = "settled" <=> runs'[r].state = "completed"
  <2>1. /\ usage[t] = "reserved" /\ runs'[t].state = next
        /\ usage'[t] = (IF Terminal(next) THEN Finalized(usage[t], next = "completed")
                        ELSE usage[t])
    BY <1>3 DEF Moves, UsageMatchesRun, Active, StoreType
  <2>2. CASE r = t
    BY <2>1, <2>2, DisjointStates DEF Finalized, Terminal
  <2>3. CASE r # t
    BY <1>3, <2>3 DEF Moves, UsageMatchesRun, Active, StoreType
  <2> QED BY <2>2, <2>3
<1> QED BY <1>1, <1>2, <1>3, RunMoves DEF UsageMatchesRun, Active

\* TerminalNoticeOnce, notice by notice.
NoticePoints ==
    \A r \in RunIds, v \in Nat, s \in TerminalStates :
        <<r, v, s>> \in outbox <=> s = runs[r].state /\ v = runs[r].revision

LEMMA SameNotices ==
    ASSUME StoreType
    PROVE  TerminalNoticeOnce <=> NoticePoints
<1>1. \A r \in RunIds : runs[r].revision \in Nat
  BY DEF StoreType, RunRow
<1>2. \A row \in outbox : /\ row = <<row[1], row[2], row[3]>> /\ row[2] \in Nat
                          /\ row[1] \in RunIds /\ row[3] \in RunStates
  BY DEF StoreType
<1>3. ASSUME TerminalNoticeOnce, NEW r \in RunIds, NEW v \in Nat, NEW s \in TerminalStates
      PROVE  <<r, v, s>> \in outbox <=> s = runs[r].state /\ v = runs[r].revision
  <2>1. <<r, v, s>> \in outbox <=>
           <<r, v, s>> \in {row \in outbox : row[1] = r /\ Terminal(row[3])}
    BY DEF Terminal
  <2>2. <<r, v, s>> \in outbox <=>
           <<r, v, s>> \in (IF Terminal(runs[r].state)
                            THEN {<<r, runs[r].revision, runs[r].state>>} ELSE {})
    BY <1>3, <2>1, Zenon DEF TerminalNoticeOnce
  <2> QED BY <2>2 DEF Terminal
<1>4. ASSUME NoticePoints, NEW r \in RunIds
      PROVE  {row \in outbox : row[1] = r /\ Terminal(row[3])} =
                (IF Terminal(runs[r].state)
                 THEN {<<r, runs[r].revision, runs[r].state>>} ELSE {})
  <2>1. ASSUME NEW row \in outbox, row[1] = r, Terminal(row[3])
        PROVE  Terminal(runs[r].state) /\ row = <<r, runs[r].revision, runs[r].state>>
    <3>1. <<r, row[2], row[3]>> \in outbox /\ row[2] \in Nat /\ row[3] \in TerminalStates
      BY <1>2, <2>1 DEF Terminal
    <3>2. row[3] = runs[r].state /\ row[2] = runs[r].revision
      BY <1>4, <3>1 DEF NoticePoints
    <3> QED BY <1>2, <2>1, <3>2
  <2>2. Terminal(runs[r].state) => <<r, runs[r].revision, runs[r].state>> \in outbox
    BY <1>1, <1>4 DEF NoticePoints, Terminal
  <2> QED BY <2>1, <2>2
<1> QED BY <1>3, <1>4 DEF TerminalNoticeOnce, NoticePoints

LEMMA NoticeStep ==
    ASSUME StoreType, StoreType', Requested, OneActiveRun, NoticePoints, StoreAction
    PROVE  NoticePoints'
<1>0. \A r \in RunIds : runs[r].revision \in Nat
  BY DEF StoreType, RunRow
<1>1. CASE UNCHANGED <<runs, usage, stages, outbox, current>>
  BY <1>1 DEF NoticePoints
<1>2. ASSUME NEW n \in RunIds, NEW q \in Requests, Birth(n, q),
             NEW r \in RunIds, NEW v \in Nat, NEW s \in TerminalStates
      PROVE  <<r, v, s>> \in outbox' <=> s = runs'[r].state /\ v = runs'[r].revision
  <2>1. <<r, v, s>> \in outbox' <=>
           \/ <<r, v, s>> \in outbox
           \/ r = n /\ v = 2 /\ s = "failed" /\ runs'[n].state = "failed"
           \/ r \in ActiveRuns(q) /\ v = runs[r].revision + 1 /\ s = "superseded"
    <3>1. <<r, v, s>> # <<n, 1, "acknowledged">>
      BY DEF TerminalStates
    <3>2. <<r, v, s>> \in {<<t, runs[t].revision + 1, "superseded">> : t \in ActiveRuns(q)}
             <=> r \in ActiveRuns(q) /\ v = runs[r].revision + 1 /\ s = "superseded"
      OBVIOUS
    <3>3. <<r, v, s>> \in (IF runs'[n].state = "failed" THEN {<<n, 2, "failed">>} ELSE {})
             <=> r = n /\ v = 2 /\ s = "failed" /\ runs'[n].state = "failed"
      OBVIOUS
    <3>4. outbox' = outbox \cup {<<n, 1, "acknowledged">>}
                        \cup (IF runs'[n].state = "failed" THEN {<<n, 2, "failed">>} ELSE {})
                        \cup {<<t, runs[t].revision + 1, "superseded">> : t \in ActiveRuns(q)}
      BY <1>2 DEF Birth
    <3> DEFINE old == {<<t, runs[t].revision + 1, "superseded">> : t \in ActiveRuns(q)}
               fail == IF runs'[n].state = "failed" THEN {<<n, 2, "failed">>} ELSE {}
    <3>5. outbox' = outbox \cup {<<n, 1, "acknowledged">>} \cup fail \cup old
      BY <3>4
    <3>6. <<r, v, s>> \in outbox' <=> \/ <<r, v, s>> \in outbox \/ <<r, v, s>> \in fail
                                      \/ <<r, v, s>> \in old
      <4> HIDE DEF old, fail
      <4> QED BY <3>1, <3>5
    <3> QED BY <3>2, <3>3, <3>6, Zenon
  <2>2. <<r, v, s>> \in outbox <=> s = runs[r].state /\ v = runs[r].revision
    BY <1>2 DEF NoticePoints
  <2>3. CASE r = n
    <3>1. runs[n].state = "absent" /\ r \notin ActiveRuns(q) /\ s # "absent"
      BY <1>2, <2>3 DEF Birth, ActiveRuns, Active, ActiveStates, TerminalStates
    <3>2. \/ runs'[n].state = "acknowledged"
          \/ runs'[n].state = "failed" /\ runs'[n].revision = 2
      BY <1>2 DEF Birth
    <3>3. s # "acknowledged"
      BY DEF TerminalStates
    <3> QED BY <2>1, <2>2, <2>3, <3>1, <3>2, <3>3
  <2>4. CASE r \in ActiveRuns(q) \ {n}
    <3>1. runs[r].state \in ActiveStates
      BY <2>4 DEF ActiveRuns, Active
    <3>2. runs'[r].state = "superseded" /\ runs'[r].revision = runs[r].revision + 1
      BY <1>2, <2>4 DEF Birth
    <3> QED BY <2>1, <2>2, <2>4, <3>1, <3>2, DisjointStates
  <2>5. CASE r \notin ActiveRuns(q) \cup {n}
    <3>1. runs'[r] = runs[r]
      BY <1>2, <2>5 DEF Birth
    <3> QED BY <2>1, <2>2, <2>5, <3>1
  <2> QED BY <2>3, <2>4, <2>5
<1>3. ASSUME NEW t \in RunIds, NEW next \in RunStates, Moves(t, next),
             NEW r \in RunIds, NEW v \in Nat, NEW s \in TerminalStates
      PROVE  <<r, v, s>> \in outbox' <=> s = runs'[r].state /\ v = runs'[r].revision
  <2>1. <<r, v, s>> \in outbox <=> s = runs[r].state /\ v = runs[r].revision
    BY <1>3 DEF NoticePoints
  <2>2. /\ runs[t].state \in ActiveStates
        /\ runs'[t].state = next /\ runs'[t].revision = runs[t].revision + 1
        /\ \A u \in RunIds \ {t} : runs'[u] = runs[u]
        /\ outbox' = outbox \/ outbox' = outbox \cup {<<t, runs[t].revision + 1, next>>}
        /\ next \in TerminalStates => outbox' = outbox \cup {<<t, runs[t].revision + 1, next>>}
    BY <1>3 DEF Moves, Terminal
  <2>3. CASE r = t
    <3>1. ~(<<r, v, s>> \in outbox)
      BY <2>1, <2>2, <2>3, DisjointStates
    <3>2. CASE next \in TerminalStates
      BY <2>2, <2>3, <3>1, <3>2
    <3>3. CASE next \notin TerminalStates
      <4>1. <<r, v, s>> # <<t, runs[t].revision + 1, next>>
        BY <3>3
      <4> QED BY <2>2, <2>3, <3>1, <3>3, <4>1
    <3> QED BY <3>2, <3>3
  <2>4. CASE r # t
    <3>1. runs'[r] = runs[r] /\ <<r, v, s>> # <<t, runs[t].revision + 1, next>>
      BY <2>2, <2>4
    <3> QED BY <2>1, <2>2, <3>1
  <2> QED BY <2>3, <2>4
<1> QED BY <1>1, <1>2, <1>3, RunMoves DEF NoticePoints

\* EvidenceMatchesRun for one run: its stages e, its state s, its usage u.
Evidence(e, s, u) ==
    /\ s = "acknowledged" => \A i \in Stages : e[i] = "pending"
    /\ s = "admitted" =>
          \A i \in Stages : e[i] = IF i =< 2 THEN "succeeded" ELSE "pending"
    /\ Rank(s) > 2 =>
          \A i \in Stages : e[i] = IF i < Rank(s) THEN "succeeded"
                                   ELSE IF i = Rank(s) THEN "running" ELSE "pending"
    /\ s = "completed" => \A i \in Stages : e[i] = "succeeded"
    /\ s = "failed" =>
          IF u = "none" THEN \A i \in Stages : e[i] = "skipped"
          ELSE \E k \in Stages : \A i \in Stages : e[i] = IF i < k THEN "succeeded"
                                                          ELSE IF i = k THEN "failed"
                                                          ELSE "skipped"

LEMMA RankValues ==
    /\ \A s \in TerminalStates \cup {"absent"} : Rank(s) = 0
    /\ \A s \in ActiveStates : Rank(s) \in Stages
    /\ Rank("acknowledged") = 1 /\ Rank("admitted") = 2 /\ Rank("preparing") = 3
    /\ Rank("analyzing") = 4 /\ Rank("normalizing") = 5 /\ Rank("publishing") = 6
BY DEF Rank, TerminalStates, ActiveStates, Stages

LEMMA SameEvidence ==
    ASSUME StoreType
    PROVE  EvidenceMatchesRun <=>
              \A r \in RunIds : Evidence(stages[r], runs[r].state, usage[r])
<1>1. ASSUME NEW r \in RunIds
      PROVE  (stages[r] = Pending) <=> \A i \in Stages : stages[r][i] = "pending"
  BY DEF StoreType, Pending
<1>2. \A i \in Stages : (i =< 2) <=> (i < 2 \/ i = 2)
  BY DEF Stages
<1>3. Rank("admitted") = 2
  BY RankValues
<1> QED BY <1>1, <1>2, <1>3 DEF EvidenceMatchesRun, Evidence

\* The evidence a transition leaves, from the evidence it found.
LEMMA EvidenceMoves ==
    ASSUME NEW e \in [Stages -> StageStates], NEW s \in ActiveStates, NEW next \in RunStates,
           NEW u, NEW v, v # "none" \/ next # "failed",
           Evidence(e, s, u), CanTransitionTo(s, next)
    PROVE  Evidence(StageEvidence(e, s, next), next, v)
<1> DEFINE f == StageEvidence(e, s, next)
<1>1. CASE next = "completed"
  <2>1. \A i \in Stages : f[i] = "succeeded"
    BY <1>1 DEF StageEvidence
  <2> HIDE DEF f
  <2>2. Evidence(f, next, v)
    BY <1>1, <2>1, RankValues DEF Evidence, TerminalStates
  <2> QED BY <2>2 DEF f
<1>2. CASE next = "failed"
  <2>1. \A i \in Stages : f[i] = IF i < Rank(s) THEN "succeeded"
                                 ELSE IF i = Rank(s) THEN "failed" ELSE "skipped"
    BY <1>2 DEF StageEvidence, Terminal, TerminalStates
  <2>2. Rank(s) \in Stages /\ Rank(next) = 0
    BY <1>2, RankValues DEF TerminalStates
  <2> HIDE DEF f
  <2>3. Evidence(f, next, v)
    BY <1>2, <2>1, <2>2 DEF Evidence
  <2> QED BY <2>3 DEF f
<1>3. CASE next \in {"cancelled", "superseded", "needs_attention"}
  <2>1. Rank(next) = 0
    BY <1>3, RankValues DEF TerminalStates
  <2> QED BY <1>3, <2>1 DEF Evidence
<1>4. CASE next \in ActiveStates
  <2>1. /\ <<s, next>> \in {<<"acknowledged", "admitted">>, <<"admitted", "preparing">>,
                            <<"preparing", "analyzing">>, <<"analyzing", "normalizing">>,
                            <<"normalizing", "publishing">>}
    BY <1>4 DEF CanTransitionTo, ActiveStates
  <2>2. Rank(next) = Rank(s) + 1 /\ Rank(s) \in Stages /\ Rank(next) \in Stages
    BY <2>1, RankValues DEF Stages
  <2>3. \A i \in Stages : i > Rank(s) => e[i] = "pending"
    BY <2>1, RankValues DEF Evidence, Stages
  <2>4. \A i \in Stages : f[i] = IF i < Rank(next) \/ (next = "admitted" /\ i = Rank(next))
                                 THEN "succeeded"
                                 ELSE IF i = Rank(next) THEN "running" ELSE e[i]
    BY <1>4 DEF StageEvidence, Terminal, TerminalStates, ActiveStates
  <2>5. next \notin {"acknowledged", "completed", "failed"}
    BY <2>1
  <2> HIDE DEF f
  <2>6. CASE next = "admitted"
    <3>1. \A i \in Stages : f[i] = IF i =< 2 THEN "succeeded" ELSE "pending"
      BY <2>2, <2>3, <2>4, <2>6, RankValues DEF Stages
    <3>2. Evidence(f, next, v)
      BY <2>6, <3>1, RankValues DEF Evidence
    <3> QED BY <3>2 DEF f
  <2>7. CASE next # "admitted"
    <3>1. \A i \in Stages : f[i] = IF i < Rank(next) THEN "succeeded"
                                   ELSE IF i = Rank(next) THEN "running" ELSE "pending"
      BY <2>2, <2>3, <2>4, <2>7 DEF Stages
    <3>2. Evidence(f, next, v)
      BY <2>5, <2>7, <3>1 DEF Evidence
    <3> QED BY <3>2 DEF f
  <2> QED BY <2>6, <2>7
<1> QED BY <1>1, <1>2, <1>3, <1>4 DEF RunStates, TerminalStates

LEMMA EvidenceStep ==
    ASSUME StoreType, Requested, OneActiveRun, UsageMatchesRun, StoreAction,
           \A r \in RunIds : Evidence(stages[r], runs[r].state, usage[r])
    PROVE  \A r \in RunIds : Evidence(stages'[r], runs'[r].state, usage'[r])
<1> SUFFICES ASSUME NEW r \in RunIds
             PROVE  Evidence(stages'[r], runs'[r].state, usage'[r])
  OBVIOUS
<1>0. Evidence(stages[r], runs[r].state, usage[r])
  OBVIOUS
<1>1. CASE UNCHANGED <<runs, usage, stages, outbox, current>>
  BY <1>0, <1>1
<1>2. ASSUME NEW n \in RunIds, NEW q \in Requests, Birth(n, q)
      PROVE  Evidence(stages'[r], runs'[r].state, usage'[r])
  <2>1. CASE r = n
    <3>1. \/ runs'[r].state = "acknowledged" /\ stages'[r] = Pending
          \/ /\ runs'[r].state = "failed" /\ usage'[r] = "none"
             /\ stages'[r] = [i \in Stages |-> "skipped"]
      BY <1>2, <2>1 DEF Birth
    <3>2. Rank("acknowledged") = 1 /\ Rank("failed") = 0
      BY RankValues DEF TerminalStates
    <3> QED BY <3>1, <3>2 DEF Evidence, Pending
  <2>2. CASE r \in ActiveRuns(q) \ {n}
    <3>1. runs'[r].state = "superseded" /\ Rank("superseded") = 0
      BY <1>2, <2>2, RankValues DEF Birth, TerminalStates
    <3> QED BY <3>1 DEF Evidence
  <2>3. CASE r \notin ActiveRuns(q) \cup {n}
    BY <1>0, <1>2, <2>3 DEF Birth
  <2> QED BY <2>1, <2>2, <2>3
<1>3. ASSUME NEW t \in RunIds, NEW next \in RunStates, Transition(t, next)
      PROVE  Evidence(stages'[r], runs'[r].state, usage'[r])
  <2>1. /\ Moves(t, next)
        /\ stages' = [stages EXCEPT ![t] = StageEvidence(@, runs[t].state, next)]
        /\ CanTransitionTo(runs[t].state, next)
    BY <1>3, TransitionMoves DEF Transition
  <2>2. CASE r = t
    <3>1. runs[t].state \in ActiveStates /\ runs'[t].state = next
      BY <2>1 DEF Moves
    <3>2. usage[t] = "reserved"
      BY <3>1 DEF UsageMatchesRun, Active
    <3>3. usage'[t] # "none" \/ next # "failed"
      BY <2>1, <3>2 DEF Moves, Finalized, Terminal, StoreType
    <3>4. stages[t] \in [Stages -> StageStates]
      BY DEF StoreType
    <3>5. Evidence(StageEvidence(stages[t], runs[t].state, next), next, usage'[t])
      BY <1>0, <2>1, <2>2, <3>1, <3>3, <3>4, EvidenceMoves
    <3>6. stages'[t] = StageEvidence(stages[t], runs[t].state, next)
      BY <2>1 DEF StoreType
    <3> QED BY <2>2, <3>1, <3>5, <3>6
  <2>3. CASE r # t
    <3>1. stages'[r] = stages[r] /\ runs'[r] = runs[r] /\ usage'[r] = usage[r]
      BY <2>1, <2>3 DEF Moves, StoreType
    <3> QED BY <1>0, <3>1
  <2> QED BY <2>2, <2>3
<1>4. ASSUME NEW t \in RunIds, RequestRunCancellation(t)
      PROVE  Evidence(stages'[r], runs'[r].state, usage'[r])
  <2>1. Moves(t, "cancelled") /\ stages' = stages /\ Rank("cancelled") = 0
    BY <1>4, CancellationMoves, RankValues DEF TerminalStates
  <2>2. CASE r = t
    <3>1. runs'[r].state = "cancelled"
      BY <2>1, <2>2 DEF Moves
    <3> QED BY <2>1, <3>1 DEF Evidence
  <2>3. CASE r # t
    <3>1. runs'[r] = runs[r] /\ usage'[r] = usage[r]
      BY <2>1, <2>3 DEF Moves, StoreType
    <3> QED BY <1>0, <2>1, <3>1
  <2> QED BY <2>2, <2>3
<1> QED BY <1>1, <1>2, <1>3, <1>4, RunSteps DEF StoreAction

CommittedRuns == {r \in RunIds : usage[r] \in {"reserved", "settled"}}

LEMMA CommittedIsFinite ==
    /\ IsFiniteSet(CommittedRuns)
    /\ Committed = Cardinality(CommittedRuns) /\ Committed \in Nat
<1>1. IsFiniteSet(RunIds)
  BY FS_Interval, StoreAssumption DEF RunIds
<1>2. IsFiniteSet(CommittedRuns)
  BY <1>1, FS_Subset DEF CommittedRuns
<1> QED BY <1>2, FS_CardinalityType DEF Committed, CommittedRuns

LEMMA CommittedBelow ==
    ASSUME NEW S \in SUBSET RunIds, \A r \in RunIds \ S : usage'[r] \notin {"reserved", "settled"}
    PROVE  Committed' =< Cardinality(S) /\ Cardinality(S) \in Nat /\ Committed' \in Nat
<1>1. IsFiniteSet(RunIds)
  BY FS_Interval, StoreAssumption DEF RunIds
<1>2. IsFiniteSet(S) /\ Cardinality(S) \in Nat
  BY <1>1, FS_Subset, FS_CardinalityType
<1>3. {r \in RunIds : usage'[r] \in {"reserved", "settled"}} \subseteq S
  OBVIOUS
<1> QED BY <1>2, <1>3, FS_Subset, FS_CardinalityType DEF Committed

LEMMA QuotaStep ==
    ASSUME StoreType, Requested, OneActiveRun, QuotaNeverExceeded, StoreAction
    PROVE  QuotaNeverExceeded'
<1> SUFFICES ASSUME HardLimit > 0
             PROVE  Committed' =< HardLimit
  BY DEF QuotaNeverExceeded
<1>0. Committed =< HardLimit /\ HardLimit \in Nat
  BY StoreAssumption DEF QuotaNeverExceeded
<1>1. CASE UNCHANGED <<runs, usage, stages, outbox, current>>
  BY <1>0, <1>1 DEF Committed
<1>2. ASSUME NEW n \in RunIds, NEW q \in Requests, Birth(n, q)
      PROVE  Committed' =< HardLimit
  <2>1. ASSUME NEW r \in RunIds \ {n}, usage'[r] \in {"reserved", "settled"}
        PROVE  usage[r] \in {"reserved", "settled"}
    BY <1>2, <2>1 DEF Birth, Finalized
  <2>2. CASE usage'[n] = "none"
    <3>1. \A r \in RunIds \ CommittedRuns : usage'[r] \notin {"reserved", "settled"}
      BY <2>1, <2>2 DEF CommittedRuns
    <3>2. CommittedRuns \in SUBSET RunIds
      BY DEF CommittedRuns
    <3> QED BY <1>0, <3>1, <3>2, CommittedBelow, CommittedIsFinite
  <2>3. CASE ~QuotaExceeded
    <3> DEFINE S == CommittedRuns \cup {n}
    <3>1. S \in SUBSET RunIds /\ \A r \in RunIds \ S : usage'[r] \notin {"reserved", "settled"}
      BY <2>1 DEF CommittedRuns
    <3>2. Cardinality(S) =< Cardinality(CommittedRuns) + 1
      <4>1. /\ IsFiniteSet(CommittedRuns) /\ Cardinality(CommittedRuns) \in Nat
            /\ Cardinality(S) = IF n \in CommittedRuns THEN Cardinality(CommittedRuns)
                                ELSE Cardinality(CommittedRuns) + 1
        BY CommittedIsFinite, FS_AddElement, FS_CardinalityType
      <4> QED BY <4>1
    <3>3. Committed' =< Cardinality(S) /\ Cardinality(S) \in Nat /\ Committed' \in Nat
      BY <3>1, CommittedBelow
    <3>4. Committed < HardLimit
      BY <1>0, <2>3, CommittedIsFinite DEF QuotaExceeded
    <3> QED BY <1>0, <3>2, <3>3, <3>4, CommittedIsFinite
  <2> QED BY <1>2, <2>2, <2>3 DEF Birth
<1>3. ASSUME NEW t \in RunIds, NEW next \in RunStates, Moves(t, next)
      PROVE  Committed' =< HardLimit
  <2>1. \A r \in RunIds \ CommittedRuns : usage'[r] \notin {"reserved", "settled"}
    BY <1>3 DEF Moves, CommittedRuns, Finalized, StoreType
  <2>2. CommittedRuns \in SUBSET RunIds
    BY DEF CommittedRuns
  <2> QED BY <1>0, <2>1, <2>2, CommittedBelow, CommittedIsFinite
<1> QED BY <1>1, <1>2, <1>3, RunMoves

-----------------------------------------------------------------------------
(* The invariants of the rows.                                             *)

\* The inductive invariant: what the rows of one run say agrees with its state.
RowInv ==
    /\ TypeOK
    /\ Requested
    /\ OneActiveRun
    /\ UsageMatchesRun
    /\ TerminalNoticeOnce
    /\ EvidenceMatchesRun
    /\ QuotaNeverExceeded

LEMMA InitRows == Init => RowInv
<1> SUFFICES ASSUME Init
             PROVE  RowInv
  OBVIOUS
<1>1. TypeOK /\ StoreType
  BY InitType, SameType DEF TypeOK
<1>2. \A r \in RunIds : /\ runs[r].state = "absent" /\ usage[r] = "none"
                        /\ stages[r] = Pending
  BY DEF Init, StoreInit, NoRun
<1>3. Requested /\ OneActiveRun /\ UsageMatchesRun
  BY <1>2 DEF Requested, OneActiveRun, ActiveRuns, Active, UsageMatchesRun, ActiveStates
<1>4. outbox = {} /\ "absent" \notin TerminalStates
  BY DEF Init, StoreInit, TerminalStates
<1>5. NoticePoints
  BY <1>2, <1>4 DEF NoticePoints
<1>6. \A r \in RunIds : Evidence(stages[r], runs[r].state, usage[r])
  <2>1. Rank("absent") = 0
    BY RankValues
  <2> QED BY <1>2, <2>1 DEF Evidence
<1>7. QuotaNeverExceeded
  <2>1. CommittedRuns = {}
    BY <1>2 DEF CommittedRuns
  <2>2. Committed = 0
    BY <2>1, CommittedIsFinite, FS_EmptySet
  <2> QED BY <2>2, StoreAssumption DEF QuotaNeverExceeded
<1> QED BY <1>1, <1>3, <1>5, <1>6, <1>7, SameNotices, SameEvidence DEF RowInv

LEMMA RowStep == RowInv /\ [Next]_vars => RowInv'
<1> SUFFICES ASSUME RowInv, [Next]_vars
             PROVE  RowInv'
  OBVIOUS
<1>1. /\ StoreType /\ WorkerType /\ Requested /\ OneActiveRun /\ UsageMatchesRun
      /\ NoticePoints /\ QuotaNeverExceeded
      /\ \A r \in RunIds : Evidence(stages[r], runs[r].state, usage[r])
  BY SameType, SameNotices, SameEvidence DEF RowInv, TypeOK, WorkerType
<1>2. StoreAction
  BY <1>1, StoreSteps
<1>3. TypeOK'
  BY TypeStep DEF RowInv
<1>4. StoreType'
  BY <1>1, <1>2, StoreActionType
<1>5. Requested' /\ OneActiveRun' /\ UsageMatchesRun' /\ NoticePoints' /\ QuotaNeverExceeded'
  BY <1>1, <1>2, <1>4, OneActiveStep, UsageStep, NoticeStep, QuotaStep
<1>6. TerminalNoticeOnce'
  <2>1. (StoreType => (TerminalNoticeOnce <=> NoticePoints))'
    BY SameNotices, PTL
  <2> QED BY <1>4, <1>5, <2>1
<1>7. EvidenceMatchesRun'
  <2>1. (StoreType => (EvidenceMatchesRun <=>
             \A r \in RunIds : Evidence(stages[r], runs[r].state, usage[r])))'
    BY SameEvidence, PTL
  <2>2. \A r \in RunIds : Evidence(stages'[r], runs'[r].state, usage'[r])
    BY <1>1, <1>2, EvidenceStep
  <2> QED BY <1>4, <2>1, <2>2
<1> QED BY <1>3, <1>5, <1>6, <1>7 DEF RowInv

LEMMA RowsHold == SafeSpec => []RowInv
BY InitRows, RowStep, PTL DEF SafeSpec

\* The partial unique index and the locks of Enqueue and RequestRunRetry: a
\* review never has two active runs, and it points to the one it has.
THEOREM OneActiveRunHolds == SafeSpec => []OneActiveRun
<1>1. RowInv => OneActiveRun
  BY DEF RowInv
<1> QED BY <1>1, RowsHold, PTL

\* reserveReviewUsage and finalizeReviewUsage follow the run on every path
\* that starts or ends one: a reservation for each active run, a charge for
\* each completed one.
THEOREM UsageHolds == SafeSpec => []UsageMatchesRun
<1>1. RowInv => UsageMatchesRun
  BY DEF RowInv
<1> QED BY <1>1, RowsHold, PTL

\* admitRunUsage: reservations and charges never pass the hard limit, also when
\* a new head is admitted before the run it replaces has released its own.
THEOREM QuotaHolds == SafeSpec => []QuotaNeverExceeded
<1>1. RowInv => QuotaNeverExceeded
  BY DEF RowInv
<1> QED BY <1>1, RowsHold, PTL

\* Each run that has ended was announced once, with its last revision: what
\* AdvanceLegacyRun, Enqueue and cancelRun write to the outbox.
THEOREM TerminalNoticeHolds == SafeSpec => []TerminalNoticeOnce
<1>1. RowInv => TerminalNoticeOnce
  BY DEF RowInv
<1> QED BY <1>1, RowsHold, PTL

\* advanceRunStageEvidence keeps the stage rows in step with the run.
THEOREM EvidenceHolds == SafeSpec => []EvidenceMatchesRun
<1>1. RowInv => EvidenceMatchesRun
  BY DEF RowInv
<1> QED BY <1>1, RowsHold, PTL

-----------------------------------------------------------------------------
(* Publications.                                                           *)

\* What a thread knows about the findings of its run.
Knows(k) ==
    /\ k.pc # "idle" => k.attempt # 0
    /\ k.pc \in {"normalize", "enter"} => k.held # 0 /\ findings[k.run] # 0
    /\ k.pc \in {"publish", "write"} => /\ k.held # 0 /\ findings[k.run] # 0
                                        /\ runs[k.run].state \in Late
    /\ k.pc = "verify" /\ k.resuming => /\ findings[k.run] # 0
                                        /\ runs[k.run].state \in Late

\* The inductive invariant: a run in publishing has findings in the store, and
\* a thread that is about to publish holds findings that are.
PublicationInv ==
    /\ \A w \in Workers : Knows(worker[w])
    /\ \A r \in RunIds : runs[r].state = "publishing" => findings[r] # 0
    /\ PublishedWasStored

\* A run that is published or has ended stays so.
LEMMA LateStays ==
    ASSUME RowInv, [Next]_vars, NEW r \in RunIds, runs[r].state \in Late
    PROVE  runs'[r].state \in Late
<1>1. StoreType /\ StoreAction /\ Requested /\ OneActiveRun
  BY StoreSteps, SameType DEF RowInv, TypeOK, WorkerType
<1>2. CASE UNCHANGED <<runs, usage, stages, outbox, current>>
  BY <1>2
<1>3. ASSUME NEW n \in RunIds, NEW q \in Requests, Birth(n, q)
      PROVE  runs'[r].state \in Late
  <2>1. r # n
    BY <1>3, DisjointStates DEF Birth, Late, TerminalStates
  <2> QED BY <1>3, <2>1 DEF Birth, Late, TerminalStates
<1>4. ASSUME NEW t \in RunIds, NEW next \in RunStates, Transition(t, next)
      PROVE  runs'[r].state \in Late
  <2>1. Moves(t, next) /\ CanTransitionTo(runs[t].state, next)
    BY <1>1, <1>4, TransitionMoves DEF Transition
  <2> QED BY <2>1 DEF Moves, CanTransitionTo, Late, ActiveStates, TerminalStates
<1>5. ASSUME NEW t \in RunIds, RequestRunCancellation(t)
      PROVE  runs'[r].state \in Late
  BY <1>1, <1>5, CancellationMoves DEF Moves, Late, TerminalStates
<1> QED BY <1>1, <1>2, <1>3, <1>4, <1>5, RunSteps DEF StoreAction

\* A run enters publishing only when a thread that has saved its findings calls
\* EnterPublishing.
LEMMA EntersPublishing ==
    ASSUME RowInv, [Next]_vars, NEW r \in RunIds,
           runs'[r].state = "publishing", runs[r].state # "publishing"
    PROVE  \E w \in Workers : worker[w].pc = "enter" /\ worker[w].run = r
<1>1. StoreType /\ WorkerType /\ Requested /\ OneActiveRun
  BY SameType DEF RowInv, TypeOK, WorkerType
<1>2. ~StoreActionTo(Elsewhere)
  <2> SUFFICES ASSUME StoreActionTo(Elsewhere)
               PROVE  FALSE
    OBVIOUS
  <2>1. Elsewhere \in SUBSET RunStates
    BY DEF Elsewhere
  <2>2. CASE UNCHANGED <<runs, usage, stages, outbox, current>>
    BY <2>2
  <2>3. ASSUME NEW n \in RunIds, NEW q \in Requests, Birth(n, q)
        PROVE  FALSE
    BY <2>3 DEF Birth
  <2>4. ASSUME NEW t \in RunIds, NEW next \in Elsewhere, Transition(t, next)
        PROVE  FALSE
    <3>1. Moves(t, next)
      BY <1>1, <2>1, <2>4, TransitionMoves
    <3> QED BY <3>1 DEF Moves, Elsewhere
  <2>5. ASSUME NEW t \in RunIds, RequestRunCancellation(t)
        PROVE  FALSE
    BY <1>1, <2>5, CancellationMoves DEF Moves
  <2> QED BY <1>1, <2>1, <2>2, <2>3, <2>4, <2>5, RunSteps
<1>3. PICK w \in Workers : EnterPublishing(w)
  BY <1>1, <1>2, StepTransactions DEF QuietOrEnter
<1>4. /\ worker[w].pc = "enter" /\ worker[w].run \in RunIds
      /\ AdvanceLegacyRun(worker[w].run, "publishing")
  BY <1>1, <1>3 DEF EnterPublishing, Run, WorkerType
<1>5. "publishing" \in RunStates
  BY DEF RunStates, ActiveStates
<1>6. worker[w].run = r
  <2>1. \A t \in RunIds \ {worker[w].run} : runs'[t] = runs[t]
    BY <1>1, <1>4, <1>5, AdvancedState
  <2> QED BY <2>1
<1> QED BY <1>4, <1>6

LEMMA PublicationStep == RowInv /\ PublicationInv /\ [Next]_vars => PublicationInv'
<1> SUFFICES ASSUME RowInv, PublicationInv, [Next]_vars
             PROVE  PublicationInv'
  OBVIOUS
<1>1. /\ StoreType /\ WorkerType
      /\ findings \in [RunIds -> Nat] /\ published \in [RunIds -> Nat]
      /\ \A w \in Workers : worker[w] \in WorkerStates
  BY SameType DEF RowInv, TypeOK, WorkerType
<1>2. \A r \in RunIds : runs[r].state \in Late => runs'[r].state \in Late
  BY LateStays
<1>3. ASSUME NEW r \in RunIds, findings[r] # 0
      PROVE  findings'[r] # 0
  <2>1. CASE Unnoticed
    BY <1>3, <2>1, UnnoticedFields
  <2>2. ASSUME NEW w \in Workers, NEW t \in RunIds, ClaimStep(w, t)
        PROVE  findings'[r] # 0
    BY <1>1, <1>3, <2>2, ClaimStepFields
  <2>3. ASSUME NEW w \in Workers, ThreadAction(w)
        PROVE  findings'[r] # 0
    <3>1. worker[w].pc # "idle" /\ worker[w].attempt # 0
      BY <2>3, ThreadEffects DEF PublicationInv, Knows
    <3> QED BY <1>1, <1>3, <2>3, <3>1, ThreadEffects
  <2> QED BY <2>1, <2>2, <2>3, StepCases
<1>4. ASSUME NEW r \in RunIds, runs'[r].state = "publishing"
      PROVE  findings'[r] # 0
  <2>1. CASE runs[r].state = "publishing"
    BY <1>3, <2>1 DEF PublicationInv
  <2>2. CASE runs[r].state # "publishing"
    <3>1. PICK w \in Workers : worker[w].pc = "enter" /\ worker[w].run = r
      BY <1>4, <2>2, EntersPublishing
    <3> QED BY <1>3, <3>1 DEF PublicationInv, Knows
  <2> QED BY <2>1, <2>2
<1>5. \A w \in Workers : worker[w].pc # "idle" => worker[w].run \in RunIds
  BY <1>1 DEF WorkerType
<1>6. ASSUME NEW v \in Workers, worker'[v] = worker[v]
      PROVE  Knows(worker[v])'
  <2> DEFINE k == worker[v]
  <2>1. /\ k.pc # "idle" => k.attempt # 0
        /\ k.pc \in {"normalize", "enter"} => k.held # 0 /\ findings'[k.run] # 0
        /\ k.pc \in {"publish", "write"} => /\ k.held # 0 /\ findings'[k.run] # 0
                                            /\ runs'[k.run].state \in Late
        /\ k.pc = "verify" /\ k.resuming => /\ findings'[k.run] # 0
                                            /\ runs'[k.run].state \in Late
    BY <1>2, <1>3, <1>5 DEF PublicationInv, Knows
  <2> QED BY <1>6, <2>1 DEF Knows
<1>7. \A v \in Workers : Knows(worker[v])'
  <2>1. CASE Unnoticed
    BY <1>6, <2>1, UnnoticedFields
  <2>2. ASSUME NEW w \in Workers, NEW r \in RunIds, ClaimStep(w, r)
        PROVE  \A v \in Workers : Knows(worker[v])'
    <3>1. Knows(worker[w])'
      <4>1. worker'[w] = Claimant(r) /\ Claimant(r).pc = "claimed" /\ Claimant(r).attempt # 0
        BY <1>1, <2>2, ClaimStepFields, ClaimantFields
      <4> QED BY <4>1 DEF Knows
    <3> QED BY <1>1, <1>6, <2>2, <3>1, ClaimStepFields
  <2>3. ASSUME NEW w \in Workers, ThreadAction(w)
        PROVE  \A v \in Workers : Knows(worker[v])'
    <3>1. PICK k : ThreadStep(w, k)
      BY <1>1, <2>3, ThreadSteps
    <3>2. worker'[w] = k /\ \A v \in Workers \ {w} : worker'[v] = worker[v]
      BY <1>1, <3>1, OnwardType DEF ThreadStep
    <3>3. Knows(worker[w])'
      <4>1. CASE k = Idle
        BY <3>2, <4>1 DEF Knows, Idle
      <4>2. CASE k # Idle
        <5> DEFINE j == worker[w]
        <5>1. k.run = j.run /\ k.attempt = j.attempt /\ j.run \in RunIds /\ j.pc # "idle"
          BY <1>5, <3>1, <4>2 DEF ThreadStep, Onward
        <5>2. j.attempt # 0 /\ Knows(j)
          BY <5>1 DEF PublicationInv, Knows
        <5>3. k.pc = "normalize" => k.held # 0 /\ findings'[k.run] # 0
          <6>1. k.pc = "normalize" =>
                   k.held = j.attempt /\ findings' = [findings EXCEPT ![j.run] = j.attempt]
            BY <3>1 DEF ThreadStep, Publication
          <6> QED BY <1>1, <5>1, <5>2, <6>1
        <5>4. k.pc = "enter" => k.held # 0 /\ findings'[k.run] # 0
          BY <1>3, <3>1, <5>1, <5>2 DEF ThreadStep, Publication, Knows
        <5>5. k.pc = "publish" => /\ k.held # 0 /\ findings'[k.run] # 0
                                  /\ runs'[k.run].state \in Late
          <6>1. CASE k.pc = "publish" /\ j.pc = "enter" /\ k.held = j.held
                     /\ runs'[j.run].state = "publishing"
            BY <1>3, <5>1, <5>2, <6>1 DEF Knows, Late
          <6>2. CASE k.pc = "publish" /\ j.pc = "verify" /\ j.resuming /\ k.held = findings[j.run]
            BY <1>2, <1>3, <5>1, <5>2, <6>2 DEF Knows
          <6> QED BY <3>1, <6>1, <6>2 DEF ThreadStep, Publication
        <5>6. k.pc = "write" => /\ k.held # 0 /\ findings'[k.run] # 0
                                /\ runs'[k.run].state \in Late
          BY <1>2, <1>3, <3>1, <5>1, <5>2 DEF ThreadStep, Publication, Knows
        <5>7. k.pc = "verify" /\ k.resuming => /\ findings'[k.run] # 0
                                               /\ runs'[k.run].state \in Late
          <6>1. k.pc = "verify" /\ k.resuming => runs'[k.run].state = "publishing"
            BY <3>1, <5>1 DEF ThreadStep, Publication
          <6> QED BY <1>4, <5>1, <6>1 DEF Late
        <5> QED BY <3>2, <5>1, <5>2, <5>3, <5>4, <5>5, <5>6, <5>7 DEF Knows
      <4> QED BY <4>1, <4>2
    <3> QED BY <1>6, <3>2, <3>3
  <2> QED BY <2>1, <2>2, <2>3, StepCases
<1>9. ASSUME NEW r \in RunIds, published'[r] # 0
      PROVE  findings'[r] # 0 /\ runs'[r].state \in Late
  <2>1. CASE published[r] # 0
    BY <1>2, <1>3, <2>1 DEF PublicationInv, PublishedWasStored, Late
  <2>2. CASE published'[r] # published[r]
    <3>1. PICK w \in Workers : worker[w].pc = "write" /\ Lands(w)
      <4>1. ~Unnoticed
        BY <2>2, UnnoticedFields
      <4>2. ASSUME NEW w \in Workers, NEW t \in RunIds, ClaimStep(w, t)
            PROVE  FALSE
        BY <1>1, <2>2, <4>2, ClaimStepFields
      <4>3. PICK w \in Workers : ThreadAction(w)
        BY <4>1, <4>2, StepCases
      <4> QED BY <2>2, <4>3, ThreadEffects
    <3>2. r = worker[w].run
      BY <1>1, <2>2, <3>1 DEF Lands, Run
    <3> QED BY <1>2, <1>3, <3>1, <3>2 DEF PublicationInv, Knows
  <2> QED BY <1>9, <2>1, <2>2
<1> QED BY <1>4, <1>7, <1>9 DEF PublicationInv, PublishedWasStored, Late

LEMMA InitPublication == Init => PublicationInv
BY DEF Init, StoreInit, NoRun, PublicationInv, Knows, Idle, PublishedWasStored

\* PublishWithReceipts: what the provider shows for a run was stored first
\* (SaveFindings), and the run had entered publishing, so a later attempt
\* resumes from the store.
THEOREM PublishedWasStoredHolds == SafeSpec => []PublishedWasStored
<1>1. PublicationInv => PublishedWasStored
  BY DEF PublicationInv
<1> QED BY <1>1, RowsHold, InitPublication, PublicationStep, PTL DEF SafeSpec

-----------------------------------------------------------------------------
(* Stranded runs.                                                          *)

\* A thread that works for an active run works under the latest claim, which is
\* live, and is the only one to do so; one that is about to fail the run has
\* already failed its job.  No thread ends its job before its run has ended.
Holds(w) ==
    LET k == worker[w] IN
    k.pc # "idle" =>
        /\ runs[k.run].state # "absent"
        /\ k.pc \in {"stop", "succeed"} => ~Active(k.run)
        /\ Active(k.run) =>
              /\ k.attempt = jobs[k.run].attempts
              /\ IF k.pc = "failrun" THEN jobs[k.run].state = "failed"
                 ELSE Owns(k.run, RunnerID[w]) /\ jobs[k.run].leased
              /\ \A v \in Workers \ {w} : worker[v].pc # "idle" => worker[v].run # k.run

\* The inductive invariant.
OccupationInv ==
    crashes = 0 => /\ \A w \in Workers : Holds(w)
                   /\ \A r \in RunIds : ~Stranded(r)

\* The job of a run that stays active is left alone, and a new run has a job.
Quiet ==
    \A r \in RunIds :
        /\ runs[r].state # "absent" => runs'[r].state # "absent"
        /\ runs'[r].state \in ActiveStates =>
              \/ Active(r) /\ jobs'[r] = jobs[r]
              \/ runs[r].state = "absent" /\ jobs'[r].state = "queued"

\* The transactions that are not about jobs.
RowAction ==
    \/ UNCHANGED storeVars
    \/ \E q \in Requests, head \in Nat : Enqueue(q, head) \/ Coalesce(q, head)
    \/ \E r \in RunIds : RequestRunRetry(r) \/ RequestRunCancellation(r)
    \/ \E r \in RunIds : ClaimReviewIntervention(r) \/ ResolveReviewIntervention(r)
    \/ \E r \in RunIds, next \in RunStates : AdvanceLegacyRun(r, next)

LEMMA NewRowsJob ==
    ASSUME NEW n, NEW q, NEW head, NEW trigger
    PROVE  LET new == NewRows(n, q, head, trigger) IN
           \/ new.run.state = "acknowledged" /\ new.job.state = "queued"
           \/ new.run.state = "failed" /\ new.job.state = "failed"
<1> DEFINE new == NewRows(n, q, head, trigger)
<1>1. /\ FirstRun(q, head, trigger, "acknowledged", 1).state = "acknowledged"
      /\ FirstRun(q, head, trigger, "failed", 2).state = "failed"
      /\ FirstJob("queued").state = "queued" /\ FirstJob("failed").state = "failed"
  BY DEF FirstRun, FirstJob
<1>2. \/ /\ new.run = FirstRun(q, head, trigger, "acknowledged", 1)
         /\ new.job = FirstJob("queued")
      \/ /\ new.run = FirstRun(q, head, trigger, "failed", 2)
         /\ new.job = FirstJob("failed")
  BY NewRowsFields DEF new
<1> HIDE DEF new
<1>3. \/ new.run.state = "acknowledged" /\ new.job.state = "queued"
      \/ new.run.state = "failed" /\ new.job.state = "failed"
  BY <1>1, <1>2, Zenon
<1> QED BY <1>3 DEF new

LEMMA BirthIsQuiet ==
    ASSUME StoreType,
           (\E q \in Requests, head \in Nat : Enqueue(q, head))
              \/ \E r \in RunIds : RequestRunRetry(r)
    PROVE  Quiet
<1>1. ASSUME NEW q \in Requests, NEW head \in Nat, Enqueue(q, head)
      PROVE  Quiet
  <2>1. PICK n \in RunIds :
           LET new == NewRows(n, q, head, "pull_request") IN
           /\ NextRun(n)
           /\ runs' = [r \in RunIds |-> IF r = n THEN new.run
                                        ELSE IF r \in ActiveRuns(q) THEN SupersedeRun(runs[r])
                                        ELSE runs[r]]
           /\ jobs' = [jobs EXCEPT ![n] = new.job]
    BY <1>1, Zenon DEF Enqueue
  <2> DEFINE new == NewRows(n, q, head, "pull_request")
  <2>2. \/ new.run.state = "acknowledged" /\ new.job.state = "queued"
        \/ new.run.state = "failed" /\ new.job.state = "failed"
    BY NewRowsJob
  <2>3. /\ runs' = [r \in RunIds |-> IF r = n THEN new.run
                                     ELSE IF r \in ActiveRuns(q) THEN SupersedeRun(runs[r])
                                     ELSE runs[r]]
        /\ jobs' = [jobs EXCEPT ![n] = new.job]
        /\ runs[n].state = "absent"
    BY <2>1 DEF NextRun
  <2> HIDE DEF new
  <2>4. ASSUME NEW r \in RunIds
        PROVE  /\ runs[r].state # "absent" => runs'[r].state # "absent"
               /\ runs'[r].state \in ActiveStates =>
                     \/ Active(r) /\ jobs'[r] = jobs[r]
                     \/ runs[r].state = "absent" /\ jobs'[r].state = "queued"
    <3>1. CASE r = n
      <4>1. runs'[r] = new.run /\ jobs'[r] = new.job
        BY <2>3, <3>1 DEF StoreType
      <4> QED BY <2>2, <2>3, <3>1, <4>1, DisjointStates
    <3>2. CASE r # n /\ r \in ActiveRuns(q)
      <4>1. runs'[r] = SupersedeRun(runs[r]) /\ runs[r] \in RunRow
        BY <2>3, <3>2 DEF StoreType
      <4>2. runs'[r].state = "superseded"
        BY <4>1, SupersededType
      <4> QED BY <4>2, DisjointStates
    <3>3. CASE r # n /\ r \notin ActiveRuns(q)
      <4>1. runs'[r] = runs[r] /\ jobs'[r] = jobs[r]
        BY <2>3, <3>3 DEF StoreType
      <4> QED BY <4>1 DEF Active
    <3> QED BY <3>1, <3>2, <3>3
  <2> QED BY <2>4 DEF Quiet
<1>2. ASSUME NEW s \in RunIds, RequestRunRetry(s)
      PROVE  Quiet
  <2>1. PICK n \in RunIds :
           LET new == NewRows(n, runs[s].req, runs[s].head, "retry") IN
           /\ NextRun(n)
           /\ runs' = [runs EXCEPT ![n] = new.run]
           /\ jobs' = [jobs EXCEPT ![n] = new.job]
    BY <1>2, Zenon DEF RequestRunRetry
  <2> DEFINE new == NewRows(n, runs[s].req, runs[s].head, "retry")
  <2>2. \/ new.run.state = "acknowledged" /\ new.job.state = "queued"
        \/ new.run.state = "failed" /\ new.job.state = "failed"
    BY NewRowsJob
  <2>3. /\ runs' = [runs EXCEPT ![n] = new.run]
        /\ jobs' = [jobs EXCEPT ![n] = new.job]
        /\ runs[n].state = "absent"
    BY <2>1 DEF NextRun
  <2> HIDE DEF new
  <2>4. ASSUME NEW r \in RunIds
        PROVE  /\ runs[r].state # "absent" => runs'[r].state # "absent"
               /\ runs'[r].state \in ActiveStates =>
                     \/ Active(r) /\ jobs'[r] = jobs[r]
                     \/ runs[r].state = "absent" /\ jobs'[r].state = "queued"
    <3>1. CASE r = n
      <4>1. runs'[r] = new.run /\ jobs'[r] = new.job
        BY <2>3, <3>1 DEF StoreType
      <4> QED BY <2>2, <2>3, <3>1, <4>1, DisjointStates
    <3>2. CASE r # n
      <4>1. runs'[r] = runs[r] /\ jobs'[r] = jobs[r]
        BY <2>3, <3>2 DEF StoreType
      <4> QED BY <4>1 DEF Active
    <3> QED BY <3>1, <3>2
  <2> QED BY <2>4 DEF Quiet
<1> QED BY <1>1, <1>2

LEMMA RowActionIsQuiet ==
    ASSUME StoreType, OneActiveRun, RowAction
    PROVE  Quiet
<1>1. CASE UNCHANGED <<runs, jobs>>
  BY <1>1 DEF Quiet, Active
<1>2. ASSUME NEW t \in RunIds, NEW next \in RunStates, Moves(t, next),
             \A r \in RunIds \ {t} : jobs'[r] = jobs[r],
             next \in ActiveStates => jobs' = jobs
      PROVE  Quiet
  BY <1>2, DisjointStates DEF Quiet, Moves, Active
<1>3. CASE UNCHANGED storeVars
  BY <1>1, <1>3 DEF storeVars
<1>4. ASSUME NEW r \in RunIds, ClaimReviewIntervention(r) \/ ResolveReviewIntervention(r)
      PROVE  Quiet
  BY <1>1, <1>4 DEF ClaimReviewIntervention, ResolveReviewIntervention
<1>5. ASSUME NEW q \in Requests, NEW head \in Nat, Coalesce(q, head)
      PROVE  Quiet
  BY <1>1, <1>5, CoalesceNothing
<1>6. ASSUME NEW r \in RunIds, RequestRunCancellation(r)
      PROVE  Quiet
  <2>1. Moves(r, "cancelled") /\ "cancelled" \in RunStates /\ "cancelled" \notin ActiveStates
    BY <1>6, CancellationMoves DEF RunStates, TerminalStates, ActiveStates
  <2>2. \A t \in RunIds \ {r} : jobs'[t] = jobs[t]
    BY <1>6 DEF RequestRunCancellation, StoreType
  <2> QED BY <1>2, <2>1, <2>2
<1>7. ASSUME NEW r \in RunIds, NEW next \in RunStates, AdvanceLegacyRun(r, next)
      PROVE  Quiet
  <2>1. CASE Transition(r, next)
    <3>1. Moves(r, next) /\ jobs' = jobs
      BY <2>1, TransitionMoves DEF Transition
    <3> QED BY <1>2, <3>1
  <2> QED BY <1>3, <1>7, <2>1, AdvanceCases
<1> QED BY <1>3, <1>4, <1>5, <1>6, <1>7, BirthIsQuiet DEF RowAction

\* What the steps of the jobs do, field by field.
SameClaim(r) ==
    /\ jobs'[r].state = jobs[r].state /\ jobs'[r].owner = jobs[r].owner
    /\ jobs'[r].attempts = jobs[r].attempts

LEMMA JobFields ==
    ASSUME StoreType, NEW r \in RunIds
    PROVE  /\ JobStep(r) => runs' = runs /\ \A t \in RunIds \ {r} : jobs'[t] = jobs[t]
           /\ \A o : Lease(r, o) => /\ jobs'[r].state = "running" /\ jobs'[r].owner = o
                                    /\ jobs'[r].leased /\ jobs'[r].attempts = jobs[r].attempts + 1
           /\ BackoffElapses(r) => SameClaim(r) /\ jobs'[r].leased = jobs[r].leased
           /\ \A o : RenewClaim(r, o) => SameClaim(r) /\ jobs'[r].leased
           /\ LeaseEnds(r) => SameClaim(r)
           /\ DeferRun(r) => jobs'[r].state = "queued"
<1>0. jobs \in [RunIds -> JobRow]
  BY DEF StoreType
<1>1. JobStep(r) => runs' = runs /\ \A t \in RunIds \ {r} : jobs'[t] = jobs[t]
  BY <1>0, JobStepType
<1>2. ASSUME NEW o, Lease(r, o)
      PROVE  /\ jobs'[r].state = "running" /\ jobs'[r].owner = o
             /\ jobs'[r].leased /\ jobs'[r].attempts = jobs[r].attempts + 1
  BY <1>0, <1>2 DEF Lease, JobRow
<1>3. ASSUME BackoffElapses(r)
      PROVE  SameClaim(r) /\ jobs'[r].leased = jobs[r].leased
  BY <1>0, <1>3 DEF BackoffElapses, JobRow, SameClaim
<1>4. ASSUME NEW o, RenewClaim(r, o)
      PROVE  SameClaim(r) /\ jobs'[r].leased
  BY <1>0, <1>4 DEF RenewClaim, JobRow, SameClaim
<1>5. ASSUME LeaseEnds(r)
      PROVE  SameClaim(r)
  BY <1>0, <1>5 DEF LeaseEnds, JobRow, SameClaim
<1>6. ASSUME DeferRun(r)
      PROVE  jobs'[r].state = "queued"
  BY <1>0, <1>6 DEF DeferRun, JobRow
<1> QED BY <1>1, <1>2, <1>3, <1>4, <1>5, <1>6

LEMMA JobEnds ==
    ASSUME StoreType, NEW r \in RunIds, NEW o, Owns(r, o)
    PROVE  /\ \A s : FinishJob(r, o, s) => /\ jobs'[r].state = s
                                          /\ jobs'[r].attempts = jobs[r].attempts
           /\ Fail(r, o) => /\ jobs'[r].state = IF jobs[r].attempts >= MaxAttempts
                                                THEN "failed" ELSE "queued"
                            /\ jobs'[r].attempts = jobs[r].attempts
<1>0. jobs \in [RunIds -> JobRow]
  BY DEF StoreType
<1>1. ASSUME NEW s, FinishJob(r, o, s)
      PROVE  jobs'[r].state = s /\ jobs'[r].attempts = jobs[r].attempts
  BY <1>0, <1>1 DEF FinishJob, JobRow
<1>2. ASSUME Fail(r, o)
      PROVE  /\ jobs'[r].state = IF jobs[r].attempts >= MaxAttempts THEN "failed" ELSE "queued"
             /\ jobs'[r].attempts = jobs[r].attempts
  BY <1>0, <1>2 DEF Fail, JobRow
<1> QED BY <1>1, <1>2

\* Nobody works for an active run whose job can be claimed.
LEMMA ClaimableIsFree ==
    ASSUME \A w \in Workers : Holds(w), NEW r \in RunIds, Active(r),
           Claimable(r) \/ (jobs[r].state = "running" /\ ~jobs[r].leased)
    PROVE  \A w \in Workers : worker[w].pc = "idle" \/ worker[w].run # r
BY DEF Holds, Claimable, Owns

LEMMA UnnoticedCases ==
    ASSUME StoreType, WorkerType, OneActiveRun, Unnoticed, crashes' = 0, crashes = 0
    PROVE  \/ Quiet
           \/ \E r \in RunIds : \/ BackoffElapses(r)
                                \/ DeferRun(r) /\ Active(r)
                                \/ \E o : RenewClaim(r, o)
                                \/ LeaseEnds(r) /\ ~LiveHolder(r)
<1> DEFINE Goal == \/ Quiet
                   \/ \E r \in RunIds : \/ BackoffElapses(r)
                                        \/ DeferRun(r) /\ Active(r)
                                        \/ \E o : RenewClaim(r, o)
                                        \/ LeaseEnds(r) /\ ~LiveHolder(r)
<1>1. ASSUME NEW q \in Requests, Push(q)
      PROVE  RowAction
  BY <1>1, Zenon DEF Push, RowAction
<1>2. ASSUME NEW q \in Requests, NEW head \in 1..MaxHead, Webhook(q, head)
      PROVE  RowAction
  <2>1. head \in Nat
    BY RunnerAssumption
  <2> QED BY <1>2, <2>1, Zenon DEF Webhook, RowAction
<1>3. ASSUME NEW r \in RunIds, StoreStep(r)
      PROVE  RowAction \/ BackoffElapses(r)
  <2>1. "admitted" \in RunStates
    BY DEF RunStates, ActiveStates
  <2> QED BY <1>3, <2>1, Zenon DEF StoreStep, Acknowledge, RowAction
<1>4. ASSUME NEW r \in RunIds, LeaseLapses(r)
      PROVE  LeaseEnds(r) /\ ~LiveHolder(r)
  BY <1>4, Zenon DEF LeaseLapses
<1>5. ASSUME NEW r \in RunIds, LeaseOverruns(r)
      PROVE  FALSE
  BY <1>5 DEF LeaseOverruns, Crashes
<1>6. ASSUME NEW w \in Workers, NEW r \in RunIds, RunForRunDefers(w, r)
      PROVE  DeferRun(r) /\ Active(r)
  <2>1. DeferRun(r)
    BY <1>6, Zenon DEF RunForRunDefers
  <2> QED BY <2>1 DEF DeferRun, Active, ExecutingStates
<1>7. ASSUME NEW w \in Workers, Watch(w)
      PROVE  RowAction
  <2>1. worker[w].run \in RunIds /\ "analyzing" \in RunStates
    BY <1>7 DEF Watch, WorkerType, Processing, RunStates, ActiveStates
  <2> QED BY <1>7, <2>1, Zenon DEF Watch, RowAction, Run
<1>8. ASSUME NEW w \in Workers, Renew(w)
      PROVE  \E r \in RunIds : \E o : RenewClaim(r, o)
  <2>1. worker[w].run \in RunIds
    BY <1>8 DEF Renew, WorkerType
  <2> QED BY <1>8, <2>1, Zenon DEF Renew, Run
<1>9. CASE UNCHANGED vars
  <2>1. RowAction
    BY <1>9, Zenon DEF vars, storeVars, RowAction
  <2> QED BY <2>1, RowActionIsQuiet
<1>10. CASE RowAction
  BY <1>10, RowActionIsQuiet
<1> QED BY <1>1, <1>2, <1>3, <1>4, <1>5, <1>6, <1>7, <1>8, <1>9, <1>10, Zenon DEF Unnoticed

LEMMA BusyIsQuiet ==
    ASSUME StoreType, WorkerType, OneActiveRun, NEW w \in Workers, Busy(w)
    PROVE  Quiet
<1>1. worker[w].run \in RunIds
  BY DEF WorkerType, Busy, Admit, VerifyCurrentReview, Prepare, Analyze, Review,
         SaveFindings, Normalize, EnterPublishing, VerifyBeforePublication, Publish,
         Complete, Supersede, FailRun, Interrupt, ExecutionFails, Processing
<1>2. {"admitted", "preparing", "analyzing", "normalizing", "publishing", "completed",
       "superseded", "failed"} \subseteq RunStates
  BY DEF RunStates, ActiveStates, TerminalStates
<1>3. UNCHANGED storeVars \/ \E next \in RunStates : AdvanceLegacyRun(worker[w].run, next)
  BY <1>2 DEF Busy, Admit, VerifyCurrentReview, Prepare, Analyze, Review,
              SaveFindings, Normalize, EnterPublishing, VerifyBeforePublication, Publish,
              Complete, Supersede, FailRun, Interrupt, ExecutionFails, Run
<1>4. RowAction
  BY <1>1, <1>3, Zenon DEF RowAction
<1> QED BY <1>4, RowActionIsQuiet

LEMMA StrandedStays ==
    ASSUME NEW t, ~Stranded(t), worker' = worker,
           \/ runs'[t].state \notin ActiveStates
           \/ Active(t) /\ jobs'[t].state = jobs[t].state
           \/ jobs'[t].state = "queued"
    PROVE  ~Stranded(t)'
<1>1. CASE runs'[t].state \notin ActiveStates \/ jobs'[t].state = "queued"
  BY <1>1 DEF Stranded, Active
<1>2. CASE Active(t) /\ jobs'[t].state = jobs[t].state
  <2>1. CASE jobs[t].state \in {"queued", "running"}
    BY <1>2, <2>1 DEF Stranded
  <2>2. CASE \E w \in Workers : worker[w].pc = "failrun" /\ worker[w].run = t
    BY <2>2 DEF Stranded, Run
  <2> QED BY <1>2, <2>1, <2>2 DEF Stranded, Run
<1> QED BY <1>1, <1>2

LEMMA OccupationUnnoticed ==
    ASSUME RowInv, OccupationInv, crashes = 0, crashes' = 0, Unnoticed
    PROVE  OccupationInv'
<1>0. /\ StoreType /\ WorkerType /\ OneActiveRun
      /\ \A w \in Workers : Holds(w)
      /\ \A r \in RunIds : ~Stranded(r)
      /\ worker' = worker
  BY SameType, UnnoticedFields DEF RowInv, TypeOK, WorkerType, OccupationInv
<1>1. CASE Quiet
  <2>1. ASSUME NEW w \in Workers
        PROVE  Holds(w)'
    <3>1. CASE worker[w].pc = "idle"
      BY <1>0, <3>1 DEF Holds
    <3>2. CASE worker[w].pc # "idle"
      <4>1. worker[w].run \in RunIds /\ runs[worker[w].run].state # "absent"
        BY <1>0, <3>2 DEF Holds, WorkerType
      <4>2. /\ runs'[worker[w].run].state # "absent"
            /\ runs'[worker[w].run].state \in ActiveStates =>
                  Active(worker[w].run) /\ jobs'[worker[w].run] = jobs[worker[w].run]
        BY <1>1, <4>1 DEF Quiet
      <4>3. Holds(w)
        BY <1>0
      <4> QED BY <1>0, <3>2, <4>2, <4>3 DEF Holds, Active, Owns
    <3> QED BY <3>1, <3>2
  <2>2. \A r \in RunIds : ~Stranded(r)'
    BY <1>0, <1>1, StrandedStays DEF Quiet
  <2> QED BY <2>1, <2>2 DEF OccupationInv
<1>2. ASSUME NEW r \in RunIds, runs' = runs, \A t \in RunIds \ {r} : jobs'[t] = jobs[t],
             SameClaim(r), jobs[r].leased => jobs'[r].leased
      PROVE  OccupationInv'
  <2>1. ASSUME NEW w \in Workers
        PROVE  Holds(w)'
    <3>1. Holds(w) /\ (worker[w].pc # "idle" => worker[w].run \in RunIds)
      BY <1>0 DEF WorkerType
    <3>2. CASE worker[w].run = r
      BY <1>0, <1>2, <3>1, <3>2 DEF Holds, SameClaim, Active, Owns
    <3>3. CASE worker[w].run # r
      BY <1>0, <1>2, <3>1, <3>3 DEF Holds, Active, Owns
    <3> QED BY <3>2, <3>3
  <2>2. \A t \in RunIds : ~Stranded(t)'
    <3>1. ASSUME NEW t \in RunIds
          PROVE  \/ runs'[t].state \notin ActiveStates
                 \/ Active(t) /\ jobs'[t].state = jobs[t].state
                 \/ jobs'[t].state = "queued"
      BY <1>2 DEF SameClaim, Active
    <3> QED BY <1>0, <3>1, StrandedStays
  <2> QED BY <2>1, <2>2 DEF OccupationInv
<1>3. ASSUME NEW r \in RunIds, runs' = runs, \A t \in RunIds \ {r} : jobs'[t] = jobs[t],
             jobs'[r].state = "queued" \/ SameClaim(r),
             Active(r) => \A w \in Workers : worker[w].pc = "idle" \/ worker[w].run # r
      PROVE  OccupationInv'
  <2>1. ASSUME NEW w \in Workers
        PROVE  Holds(w)'
    <3>1. Holds(w) /\ (worker[w].pc # "idle" => worker[w].run \in RunIds)
      BY <1>0 DEF WorkerType
    <3>2. CASE worker[w].run = r
      BY <1>0, <1>3, <3>1, <3>2 DEF Holds, Active
    <3>3. CASE worker[w].run # r
      BY <1>0, <1>3, <3>1, <3>3 DEF Holds, Active, Owns
    <3> QED BY <3>2, <3>3
  <2>2. \A t \in RunIds : ~Stranded(t)'
    <3>1. ASSUME NEW t \in RunIds
          PROVE  \/ runs'[t].state \notin ActiveStates
                 \/ Active(t) /\ jobs'[t].state = jobs[t].state
                 \/ jobs'[t].state = "queued"
      BY <1>3 DEF SameClaim, Active
    <3> QED BY <1>0, <3>1, StrandedStays
  <2> QED BY <2>1, <2>2 DEF OccupationInv
<1>4. ASSUME NEW r \in RunIds, BackoffElapses(r)
      PROVE  OccupationInv'
  BY <1>0, <1>2, <1>4, JobFields DEF JobStep
<1>5. ASSUME NEW r \in RunIds, NEW o, RenewClaim(r, o)
      PROVE  OccupationInv'
  <2>1. runs' = runs /\ \A t \in RunIds \ {r} : jobs'[t] = jobs[t]
    BY <1>0, <1>5 DEF RenewClaim, StoreType
  <2> QED BY <1>0, <1>2, <1>5, <2>1, JobFields
<1>6. ASSUME NEW r \in RunIds, DeferRun(r), Active(r)
      PROVE  OccupationInv'
  <2>1. Claimable(r)
    BY <1>6 DEF DeferRun
  <2> QED BY <1>0, <1>3, <1>6, <2>1, JobFields, ClaimableIsFree DEF JobStep
<1>7. ASSUME NEW r \in RunIds, LeaseEnds(r), ~LiveHolder(r)
      PROVE  OccupationInv'
  <2>1. Active(r) => \A w \in Workers : worker[w].pc = "idle" \/ worker[w].run # r
    BY <1>0, <1>7 DEF Holds, LiveHolder, Run
  <2> QED BY <1>0, <1>3, <1>7, <2>1, JobFields DEF JobStep
<1> QED BY <1>0, <1>1, <1>4, <1>5, <1>6, <1>7, UnnoticedCases

LEMMA OccupationClaim ==
    ASSUME RowInv, OccupationInv, crashes = 0, NEW w \in Workers, NEW r \in RunIds,
           ClaimStep(w, r)
    PROVE  OccupationInv'
<1>0. /\ StoreType /\ WorkerType
      /\ \A v \in Workers : Holds(v)
      /\ \A t \in RunIds : ~Stranded(t)
  BY SameType DEF RowInv, TypeOK, WorkerType, OccupationInv
<1>1. /\ worker[w].pc = "idle" /\ worker'[w] = Claimant(r)
      /\ \A v \in Workers \ {w} : worker'[v] = worker[v]
      /\ Claimable(r) /\ Lease(r, RunnerID[w]) /\ runs' = runs
  BY <1>0, ClaimStepFields
<1>2. Active(r)
  BY DEF ClaimStep, RunOnce, RunForRun, Claim, ClaimForRun, Active, ExecutingStates, ActiveStates
<1>3. \A v \in Workers : worker[v].pc = "idle" \/ worker[v].run # r
  BY <1>0, <1>1, <1>2, ClaimableIsFree
<1>4. /\ jobs'[r].state = "running" /\ jobs'[r].owner = RunnerID[w]
      /\ jobs'[r].leased /\ jobs'[r].attempts = jobs[r].attempts + 1
  BY <1>0, <1>1, JobFields
<1>5. \A t \in RunIds \ {r} : jobs'[t] = jobs[t]
  BY <1>0, <1>1 DEF Lease, StoreType
<1>6. /\ Claimant(r).pc = "claimed" /\ Claimant(r).run = r
      /\ Claimant(r).attempt = jobs[r].attempts + 1
  BY <1>0, ClaimantFields
<1>7. Holds(w)'
  <2>1. runs'[r].state # "absent"
    BY <1>1, <1>2 DEF Active, ActiveStates
  <2> QED BY <1>1, <1>3, <1>4, <1>6, <2>1 DEF Holds, Owns
<1>8. ASSUME NEW v \in Workers \ {w}
      PROVE  Holds(v)'
  <2>1. worker[v].pc # "idle" => worker[v].run # r /\ worker[v].run \in RunIds
    BY <1>0, <1>3 DEF WorkerType
  <2>2. Holds(v) /\ worker'[v] = worker[v]
    BY <1>0, <1>1
  <2> QED BY <1>1, <1>5, <1>6, <2>1, <2>2 DEF Holds, Active, Owns
<1>9. ASSUME NEW t \in RunIds
      PROVE  ~Stranded(t)'
  <2>1. CASE t = r
    BY <1>4, <2>1 DEF Stranded
  <2>2. CASE t # r
    BY <1>0, <1>1, <1>5, <2>2 DEF Stranded, Active, Run
  <2> QED BY <2>1, <2>2
<1> QED BY <1>7, <1>8, <1>9 DEF OccupationInv

\* A thread that works on, or whose run has ended.
LEMMA OccupationOnward ==
    ASSUME StoreType, WorkerType, \A v \in Workers : Holds(v), \A t \in RunIds : ~Stranded(t),
           NEW w \in Workers, NEW k, ThreadStep(w, k),
           \/ Quiet /\ Occupation(w, k)
           \/ /\ runs' = runs /\ ~Active(worker[w].run)
              /\ \A t \in RunIds \ {worker[w].run} : jobs'[t] = jobs[t]
    PROVE  OccupationInv'
<1> DEFINE j == worker[w]
<1>0. /\ j.pc # "idle" /\ j.run \in RunIds
      /\ k = Idle \/ (k.run = j.run /\ k.attempt = j.attempt)
      /\ worker'[w] = k /\ \A v \in Workers \ {w} : worker'[v] = worker[v]
      /\ Idle.pc = "idle"
  BY OnwardType DEF ThreadStep, Onward, WorkerType, Idle
<1>1. CASE Quiet /\ Occupation(w, k)
  <2>1. Holds(w)'
    <3>1. CASE k.pc = "idle"
      BY <1>0, <3>1 DEF Holds
    <3>2. CASE k.pc # "idle"
      <4>1. Holds(w) /\ runs[j.run].state # "absent"
        BY <1>0 DEF Holds
      <4>2. runs'[j.run].state # "absent"
        BY <1>0, <1>1, <4>1 DEF Quiet
      <4>3. k.pc \in {"stop", "succeed"} => runs'[j.run].state \notin ActiveStates
        BY <1>1 DEF Occupation
      <4>4. runs'[j.run].state \in ActiveStates =>
               Active(j.run) /\ jobs'[j.run] = jobs[j.run] /\ j.pc # "failrun" /\ k.pc # "failrun"
        BY <1>0, <1>1, <4>1 DEF Quiet, Occupation
      <4>5. k.run = j.run /\ k.attempt = j.attempt
        BY <1>0, <3>2
      <4> HIDE DEF j
      <4> QED BY <1>0, <4>1, <4>2, <4>3, <4>4, <4>5 DEF Holds, Active, Owns, j
    <3> QED BY <3>1, <3>2
  <2>2. ASSUME NEW v \in Workers \ {w}
        PROVE  Holds(v)'
    <3>1. Holds(v) /\ worker'[v] = worker[v]
      BY <1>0
    <3>2. CASE worker[v].pc = "idle"
      BY <3>1, <3>2 DEF Holds
    <3>3. CASE worker[v].pc # "idle"
      <4> DEFINE i == worker[v]
      <4>1. i.run \in RunIds /\ runs[i.run].state # "absent"
        BY <3>1, <3>3 DEF Holds, WorkerType
      <4>2. /\ runs'[i.run].state # "absent"
            /\ runs'[i.run].state \in ActiveStates =>
                  Active(i.run) /\ jobs'[i.run] = jobs[i.run]
        BY <1>1, <4>1 DEF Quiet
      <4>3. k.pc # "idle" => k.run = j.run
        BY <1>0
      <4> QED BY <1>0, <3>1, <3>3, <4>1, <4>2, <4>3 DEF Holds, Active, Owns
    <3> QED BY <3>2, <3>3
  <2>3. ASSUME NEW t \in RunIds
        PROVE  ~Stranded(t)'
    <3>1. CASE Active(t) /\ jobs'[t] = jobs[t] /\ runs'[t].state \in ActiveStates
      <4>1. CASE jobs[t].state \in {"queued", "running"}
        BY <3>1, <4>1 DEF Stranded
      <4>2. CASE \E u \in Workers : worker[u].pc = "failrun" /\ worker[u].run = t
        <5>1. PICK u \in Workers : worker[u].pc = "failrun" /\ worker[u].run = t
          BY <4>2
        <5>2. u # w
          BY <1>1, <3>1, <5>1 DEF Occupation
        <5> QED BY <1>0, <5>1, <5>2 DEF Stranded, Run
      <4> QED BY <3>1, <4>1, <4>2 DEF Stranded, Run
    <3>2. CASE jobs'[t].state = "queued"
      BY <3>2 DEF Stranded
    <3>3. CASE runs'[t].state \notin ActiveStates
      BY <3>3 DEF Stranded, Active
    <3> QED BY <1>1, <3>1, <3>2, <3>3 DEF Quiet
  <2> QED BY <2>1, <2>2, <2>3 DEF OccupationInv
<1>2. CASE /\ runs' = runs /\ ~Active(j.run)
           /\ \A t \in RunIds \ {j.run} : jobs'[t] = jobs[t]
  <2>1. Holds(w)'
    BY <1>0, <1>2 DEF Holds, Active
  <2>2. ASSUME NEW v \in Workers \ {w}
        PROVE  Holds(v)'
    <3>1. Holds(v) /\ worker'[v] = worker[v]
      BY <1>0
    <3>2. worker[v].pc # "idle" => worker[v].run \in RunIds
      BY DEF WorkerType
    <3>3. k.pc # "idle" => k.run = j.run
      BY <1>0
    <3> QED BY <1>0, <1>2, <3>1, <3>2, <3>3 DEF Holds, Active, Owns
  <2>3. \A t \in RunIds : ~Stranded(t)'
    BY <1>0, <1>2 DEF Stranded, Active, Run
  <2> QED BY <2>1, <2>2, <2>3 DEF OccupationInv
<1> QED BY <1>1, <1>2

LEMMA OccupationRecord ==
    ASSUME StoreType, WorkerType, \A v \in Workers : Holds(v), \A t \in RunIds : ~Stranded(t),
           NEW w \in Workers, RecordFailure(w)
    PROVE  OccupationInv'
<1> DEFINE r == worker[w].run
<1>1. worker[w].pc = "fail" /\ r \in RunIds /\ RunnerID[w] \in Owners
  BY RunnerAssumption DEF RecordFailure, WorkerType
<1>2. JobStep(r)
  BY <1>1 DEF RecordFailure, JobStep, Run
<1>3. runs' = runs /\ \A t \in RunIds \ {r} : jobs'[t] = jobs[t]
  BY <1>1, <1>2, JobFields
<1>4. CASE ~Active(r)
  BY <1>3, <1>4, RecordStep, OccupationOnward
<1>5. CASE Active(r)
  <2>1. /\ Owns(r, RunnerID[w]) /\ worker[w].attempt = jobs[r].attempts
        /\ \A v \in Workers \ {w} : worker[v].pc # "idle" => worker[v].run # r
        /\ runs[r].state # "absent"
    BY <1>1, <1>5 DEF Holds
  <2>2. \/ jobs'[r].state = "failed" /\ Goto(w, "failrun")
        \/ jobs'[r].state = "queued" /\ Leave(w)
    <3>1. CASE worker[w].fatal
      BY <1>1, <2>1, <3>1, JobEnds DEF RecordFailure, Run
    <3>2. CASE ~worker[w].fatal
      BY <1>1, <2>1, <3>2, JobEnds DEF RecordFailure, Run
    <3> QED BY <3>1, <3>2
  <2>3. PICK k : /\ ThreadStep(w, k)
                 /\ \/ jobs'[r].state = "failed" /\ k.pc = "failrun"
                    \/ jobs'[r].state = "queued" /\ k = Idle
    <3>1. "failrun" \in Pcs
      BY DEF Pcs
    <3>2. ASSUME Goto(w, "failrun")
          PROVE  \E k : ThreadStep(w, k) /\ k.pc = "failrun"
      BY <1>1, <3>1, <3>2, GotoFields, PlainStep
    <3>3. ASSUME Leave(w)
          PROVE  ThreadStep(w, Idle)
      BY <1>1, <3>3, LeaveStep
    <3> QED BY <2>2, <3>2, <3>3
  <2>4. /\ worker'[w] = k /\ \A v \in Workers \ {w} : worker'[v] = worker[v]
        /\ k = Idle \/ (k.run = r /\ k.attempt = worker[w].attempt)
        /\ Idle.pc = "idle"
    BY <2>3, OnwardType DEF ThreadStep, Onward, Idle
  <2>5. jobs'[r].attempts = jobs[r].attempts
    BY <1>1, <2>1, JobEnds DEF RecordFailure, Run
  <2>6. Holds(w)'
    BY <1>3, <2>1, <2>3, <2>4, <2>5 DEF Holds
  <2>7. ASSUME NEW v \in Workers \ {w}
        PROVE  Holds(v)'
    <3>1. Holds(v) /\ worker'[v] = worker[v]
      BY <2>4
    <3>2. worker[v].pc # "idle" => worker[v].run \in RunIds \ {r}
      BY <2>1 DEF WorkerType
    <3>3. k.pc # "idle" => k.run = r
      BY <2>4
    <3> QED BY <1>3, <2>4, <3>1, <3>2, <3>3 DEF Holds, Active, Owns
  <2>8. ASSUME NEW t \in RunIds
        PROVE  ~Stranded(t)'
    <3>1. CASE t = r
      <4>1. k.pc = "failrun" => k.run = r
        BY <2>4
      <4> QED BY <2>3, <2>4, <3>1, <4>1 DEF Stranded, Run
    <3>2. CASE t # r
      BY <1>1, <1>3, <2>4, <3>2 DEF Stranded, Active, Run
    <3> QED BY <3>1, <3>2
  <2> QED BY <2>6, <2>7, <2>8 DEF OccupationInv
<1> QED BY <1>4, <1>5

LEMMA OccupationThread ==
    ASSUME RowInv, OccupationInv, crashes = 0, crashes' = 0, NEW w \in Workers, ThreadAction(w)
    PROVE  OccupationInv'
<1>0. /\ StoreType /\ WorkerType /\ OneActiveRun /\ findings \in [RunIds -> Nat]
      /\ \A v \in Workers : Holds(v)
      /\ \A r \in RunIds : ~Stranded(r)
      /\ worker[w].pc # "idle" /\ worker[w].run \in RunIds
  BY SameType, ThreadEffects DEF RowInv, TypeOK, WorkerType, OccupationInv
<1>1. CASE Busy(w)
  BY <1>0, <1>1, BusyIsQuiet, BusySteps, OccupationOnward
<1>2. CASE Succeed(w) \/ StopTerminalRun(w)
  <2>1. Leave(w) /\ worker[w].pc \in {"stop", "succeed"} /\ JobStep(worker[w].run)
    BY <1>2, RunnerAssumption DEF Succeed, StopTerminalRun, JobStep, Run
  <2>2. runs' = runs /\ \A t \in RunIds \ {worker[w].run} : jobs'[t] = jobs[t]
    BY <1>0, <2>1, JobFields
  <2>3. ~Active(worker[w].run)
    BY <1>0, <2>1 DEF Holds
  <2> QED BY <1>0, <2>1, <2>2, <2>3, LeaveStep, OccupationOnward
<1>3. CASE RecordFailure(w)
  BY <1>0, <1>3, OccupationRecord
<1>4. CASE RenewalFails(w)
  <2>1. /\ worker[w].pc # "failrun" /\ ~Owns(worker[w].run, RunnerID[w])
        /\ runs' = runs /\ jobs' = jobs
    BY <1>4 DEF RenewalFails, Processing, Run, storeVars
  <2>2. ~Active(worker[w].run)
    BY <1>0, <2>1 DEF Holds
  <2> QED BY <1>0, <1>4, <2>1, <2>2, RenewalFailsStep, OccupationOnward
<1>5. CASE WorkerCrashes(w)
  BY <1>5 DEF WorkerCrashes, Crashes
<1> QED BY <1>1, <1>2, <1>3, <1>4, <1>5, ThreadActions

LEMMA OccupationStep == RowInv /\ OccupationInv /\ [Next]_vars => OccupationInv'
<1> SUFFICES ASSUME RowInv, OccupationInv, [Next]_vars, crashes' = 0
             PROVE  OccupationInv'
  BY DEF OccupationInv
<1>1. crashes = 0
  BY EnvironmentSteps DEF RowInv, TypeOK, Crashes
<1> QED BY <1>1, StepCases, OccupationUnnoticed, OccupationClaim, OccupationThread

LEMMA InitOccupation == Init => OccupationInv
BY DEF Init, StoreInit, NoRun, OccupationInv, Holds, Idle, Stranded, Active, ActiveStates

\* Unless a process dies or a lease overruns, claims, failures and ends of jobs
\* (Claim, Fail, finish) and the runs they belong to never get out of step: an
\* active run has a job that will be worked on.
THEOREM NothingStrands == SafeSpec => []NothingStrandsUnlessCrashed
<1>1. OccupationInv => NothingStrandsUnlessCrashed
  BY DEF OccupationInv, NothingStrandsUnlessCrashed
<1> QED BY <1>1, RowsHold, InitOccupation, OccupationStep, PTL DEF SafeSpec

-----------------------------------------------------------------------------
(* Refinement of RunLifecycle.                                             *)

RunState == [r \in RunIds |-> runs[r].state]
RunRevision == [r \in RunIds |-> runs[r].revision]

LEMMA SameTable ==
    /\ Lifecycle!ActiveStates = ActiveStates /\ Lifecycle!RunStates = RunStates
    /\ \A s, next : CanTransitionTo(s, next) => Lifecycle!CanTransitionTo(s, next)
<1>1. Lifecycle!ActiveStates = ActiveStates
  BY DEF Lifecycle!ActiveStates, ActiveStates
<1>2. Lifecycle!RunStates = RunStates
  BY <1>1 DEF Lifecycle!RunStates, RunStates, Lifecycle!TerminalStates, TerminalStates
<1>3. ASSUME NEW s, NEW next, CanTransitionTo(s, next)
      PROVE  Lifecycle!CanTransitionTo(s, next)
  BY <1>3 DEF CanTransitionTo, Lifecycle!CanTransitionTo
<1> QED BY <1>1, <1>2, <1>3

LEMMA LifecycleInit == Init => Lifecycle!Init
BY DEF Init, StoreInit, NoRun, Lifecycle!Init

\* A birth is an appearance or, when the review had an active run, a replacement.
LEMMA LifecycleBirth ==
    ASSUME StoreType, OneActiveRun, NEW n \in RunIds, NEW q \in Requests, Birth(n, q)
    PROVE  Lifecycle!Next
<1>1. /\ runs[n].state = "absent"
      /\ \/ runs'[n].state = "acknowledged" /\ runs'[n].revision = 1
         \/ runs'[n].state = "failed" /\ runs'[n].revision = 2
      /\ \A r \in ActiveRuns(q) : r # n => /\ runs'[r].state = "superseded"
                                           /\ runs'[r].revision = runs[r].revision + 1
      /\ \A r \in RunIds \ (ActiveRuns(q) \cup {n}) : runs'[r] = runs[r]
  BY DEF Birth
<1>2. PICK s \in {"acknowledged", "failed"}, v \in {1, 2} :
         /\ s = runs'[n].state /\ v = runs'[n].revision
         /\ <<s, v>> \in {<<"acknowledged", 1>>, <<"failed", 2>>}
  BY <1>1
<1>3. CASE ActiveRuns(q) = {}
  <2>1. RunState' = [RunState EXCEPT ![n] = s] /\ RunRevision' = [RunRevision EXCEPT ![n] = v]
    BY <1>1, <1>2, <1>3 DEF RunState, RunRevision
  <2>2. Lifecycle!Appear(n, s, v)
    BY <1>1, <1>2, <2>1, Zenon DEF Lifecycle!Appear, RunState, RunRevision
  <2> QED BY <2>2, Zenon DEF Lifecycle!Next
<1>4. CASE ActiveRuns(q) # {}
  <2>1. PICK o \in RunIds : o \in ActiveRuns(q)
    BY <1>4 DEF ActiveRuns
  <2>2. ActiveRuns(q) = {o}
    BY <2>1 DEF OneActiveRun, ActiveRuns
  <2>3. runs[o].state \in ActiveStates /\ o # n
    BY <1>1, <2>1 DEF ActiveRuns, Active, ActiveStates
  <2>4. /\ RunState' = [RunState EXCEPT ![n] = s, ![o] = "superseded"]
        /\ RunRevision' = [RunRevision EXCEPT ![n] = v, ![o] = @ + 1]
    <3>1. \A r \in RunIds : runs'[r].state = IF r = o THEN "superseded"
                                              ELSE IF r = n THEN s ELSE runs[r].state
      BY <1>1, <1>2, <2>2, <2>3
    <3>2. \A r \in RunIds : runs'[r].revision = IF r = o THEN runs[r].revision + 1
                                                 ELSE IF r = n THEN v ELSE runs[r].revision
      BY <1>1, <1>2, <2>2, <2>3
    <3>3. RunState' = [RunState EXCEPT ![n] = s, ![o] = "superseded"]
      BY <2>3, <3>1 DEF RunState
    <3>4. RunRevision' = [RunRevision EXCEPT ![n] = v, ![o] = @ + 1]
      BY <2>3, <3>2 DEF RunRevision
    <3> QED BY <3>3, <3>4
  <2>5. RunState[o] \in Lifecycle!ActiveStates /\ RunState[n] = "absent"
    BY <1>1, <2>3, SameTable DEF RunState
  <2>6. Lifecycle!Replace(o, n, s, v)
    BY <1>2, <2>4, <2>5, Zenon DEF Lifecycle!Replace, RunState, RunRevision
  <2> QED BY <2>6, Zenon DEF Lifecycle!Next
<1> QED BY <1>3, <1>4

LEMMA LifecycleMove ==
    ASSUME StoreType, NEW r \in RunIds, NEW next \in RunStates, Moves(r, next),
           CanTransitionTo(runs[r].state, next) \/ next = "cancelled"
    PROVE  Lifecycle!Next
<1>1. /\ RunState' = [RunState EXCEPT ![r] = next]
      /\ RunRevision' = [RunRevision EXCEPT ![r] = @ + 1]
      /\ RunState[r] = runs[r].state
  BY DEF Moves, RunState, RunRevision
<1>2. Lifecycle!Allowed(RunState[r], next)
  BY <1>1, SameTable DEF Lifecycle!Allowed, Moves
<1>3. Lifecycle!Transition(r, next)
  BY <1>1, <1>2, Zenon DEF Lifecycle!Transition, RunState, RunRevision
<1>4. next \in Lifecycle!RunStates
  BY SameTable
<1> QED BY <1>3, <1>4, Zenon DEF Lifecycle!Next

LEMMA LifecycleStep == RowInv /\ [Next]_vars => [Lifecycle!Next]_(Lifecycle!lifecycle)
<1> SUFFICES ASSUME RowInv, [Next]_vars
             PROVE  [Lifecycle!Next]_(Lifecycle!lifecycle)
  OBVIOUS
<1>1. StoreType /\ StoreAction /\ Requested /\ OneActiveRun
  BY StoreSteps, SameType DEF RowInv, TypeOK, WorkerType
<1>2. CASE UNCHANGED <<runs, usage, stages, outbox, current>>
  BY <1>2 DEF Lifecycle!lifecycle
<1>3. ASSUME NEW n \in RunIds, NEW q \in Requests, Birth(n, q)
      PROVE  Lifecycle!Next
  BY <1>1, <1>3, LifecycleBirth
<1>4. ASSUME NEW r \in RunIds, NEW next \in RunStates, Transition(r, next)
      PROVE  Lifecycle!Next
  BY <1>1, <1>4, TransitionMoves, LifecycleMove DEF Transition
<1>5. ASSUME NEW r \in RunIds, RequestRunCancellation(r)
      PROVE  Lifecycle!Next
  <2>1. "cancelled" \in RunStates
    BY DEF RunStates, TerminalStates
  <2> QED BY <1>1, <1>5, <2>1, CancellationMoves, LifecycleMove
<1>6. StoreActionTo(RunStates)
  BY <1>1 DEF StoreAction
<1> QED BY <1>1, <1>2, <1>3, <1>4, <1>5, <1>6, RunSteps, Zenon

\* Enqueue, RequestRunRetry, AdvanceLegacyRun and cancelRun, with everything
\* that can happen between and around them, implement the promised life cycle.
THEOREM RefinesLifecycle == SafeSpec => ImplementsLifecycle
BY RowsHold, LifecycleInit, LifecycleStep, PTL
   DEF SafeSpec, ImplementsLifecycle, Lifecycle!Spec
=============================================================================
