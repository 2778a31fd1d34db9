# Formal model of the review platform

TLA+ models of the parts of this repository that coordinate: messaging, the
execution of a review from webhook to published findings, the agent platform
that turns an Issue into a draft, and the control plane that people configure.
The modules are translated from the Go and SQL sources; `PROJECT.json` maps
every definition to its lines and lists components, runs, mutants, hazards,
findings and theorems.

## 1. The system

**Reviews.** A webhook, a schedule, a command line submission or a comment
creates a *run* (`review_runs`) with a *job* (`review_jobs`), a usage
reservation, stage rows and an outbox row, all in one PostgreSQL transaction. A
relay publishes outbox rows to RabbitMQ. The acknowledger consumes
`review.run.acknowledged`, comments on the provider and moves the run to
`admitted`. A runner takes the job from the message or by polling, checks the
code out, selects the files to look at, calls the model, stores findings,
publishes them and completes the run. Terminal states are announced and
consumed by the terminal reporter and the notifier.

**Agent tasks.** An Issue command, a label or a campaign creates a *task*; its
source is captured, a plan approved, and `agent-task-runner` hands it to the
agent adapter, which runs a coding agent in containers, verifies the patch where
a verification profile is configured, pushes a branch and opens a draft. A monitor follows the draft until somebody
accepts it.

**Control plane.** Rule sets are rolled out in stages; review configuration is
versioned and inherited; findings are aggregated into issues and mirrored to
tickets; notices go to destinations; data is held, exported, deleted and moved;
memberships, single sign-on, provider installations and the setup of a
workspace decide who may do what.

Components interact through rows of one database (shared state), through outbox
messages (asynchronous, at least once in intent) and through the provider
(remote reads and remote writes, neither transactional).

| Component | State it keeps | Hard because | What makes it correct |
|---|---|---|---|
| Outbox and relay | `outbox_messages`: state, lease, owner, backoff, attempts | confirms get lost, leases overrun, replicas share the default `relay-1` | published only if accepted; only the latest claim decides; everything gets published |
| Inbox consumers | `inbox_messages`: state, lease, claim token | redelivery, duplicates, handlers longer than their lease, crashes between effect and receipt | completed means done; exclusive claims; no work vanishes |
| Run store | runs with revision, jobs with lease and attempts, reservations, stages, interventions | many paths end a run; SQL guards instead of locks held by the worker | one active run; usage and notices follow the run; forward-only life cycle |
| Runner, acknowledger | thread state, stored and published findings | two watchers cancel the work, leases get lost, provider writes are not transactional | publication is resumable; runs end |
| Terminal reporter | check, comment, receipts | runner and reporter both write them | no end of a run is silent |
| Comments, schedules, CLI, author lookups | responses, held runs, lookups | a run waits for an answer at the provider; a lookup acts on an old webhook | held runs have a way out; a late read never replaces a newer run |
| Risk planning | recorded plan | a retry plans again, under other settings | what was reviewed is what is recorded |
| Agent tasks, adapter, sandbox, credentials, model broker | task, plan, attempt, job receipts, containers, issuances, ceilings | two services with lost answers and separate crashes; containers outlive their adapter | one launch for a plan; nothing is published that was not retained, or not verified where the workflow or the deployment asks for it; bounded spending |
| Agent delivery, sources, intake, campaigns | acceptances, source chain, interactions, targets | stale reads, repeated and late requests, acknowledged messages without effect | newest wins; one task for a snapshot; limits hold; approved work starts |
| Rules, configuration, gate | versions, bindings, rollouts, snapshots | evidence is counted since the last edit; a run applies a frozen policy | promoted over clean evidence; what blocks is published |
| Issues, notices, triage | aggregates, deliveries, one comment for an analysis | counts read before a lock; redelivery of a partly sent event; edits during an analysis | people outside are told what is true inside, once |
| Data governance | jobs, holds, windows | a hold put between two claims of a deletion | held data is kept |
| Identity, sign-on, provider access, setup | memberships, probes, scopes, checkpoint | READ COMMITTED transactions of two administrators; probes of an older revision | access that is on was tested in its current form |
| Probes, engine, HTTP API, web console | projections | no protocol | not modelled, section 8 |

## 2. Modules

| Module | Models | State and actions |
|---|---|---|
| `Broker` | one quorum queue as `DeclareTopology` configures it (RabbitMQ itself is external) | `queue`, `dead`, `accepted`; `Accept`, `Return` |
| `OutboxRelay` | `insertOutbox`, `ClaimOutbox`, `Relay.Flush`, `AMQPPublisher.Publish`, `MarkOutboxPublished`, `ReleaseOutbox` | `outbox` rows, `relay` program counters, `wire` |
| `InboxConsumer` | `AMQPConsumer.Consume`, `HandleExactlyOnce`, `ClaimInbox`, `CompleteInbox`, `ReleaseInbox` | `inbox` rows, `worker` program counters, `effects` |
| `Delivery` | the composition of the two over one queue | INSTANCEs of both |
| `RunStates`, `RunLifecycle` | run states and stage evidence; abstract: what is promised about a run | operators; `state`, `revision` |
| `ReviewStore`, `ReviewRunner` | the transactions on runs, jobs, usage, stages, interventions, outbox; `Processor` and its watchers over them | one action per transaction; `worker` program counters, provider head, findings |
| `Publication` | the check and comment that runner and reporter write, `terminal_publication_retry.go` | steps of both writers, the provider, receipts |
| `ReviewEntries` | `gitlab_author_admission.go`, `review_schedules.go`, `cli_reviews.go` into one request | runs in order of creation, lookups, schedules, keys |
| `Interaction` | `ProcessInteraction`, responder, admitter, `interaction_response_recovery.go` | comments, replies, admissions, held runs |
| `RiskPlan` | `risk/planner.go`, path filters, `RecordExecutionPlan` | diff as numbered paths with traits, the recorded plan, attempts |
| `AgentStore`, `AgentExecution` | `agent_tasks.go`; `cmd/agent-task-runner`, `agentadapter/service.go`, `Pipeline.Execute` | one task, plans, attempts; runner steps, adapter job and its receipts, branch, draft |
| `AgentIntake` | how tasks of one Issue come to be | webhook deliveries, snapshots, policy, tasks |
| `AgentSource` | source admitter, its retry chain, the fenced status comment | task, messages, workers, versions shown |
| `AgentDelivery` | `agent_workflow.go`, `agent_review_repair.go`, `agentworkflow/processor.go` | tasks of one branch, acceptances, monitor |
| `AgentCampaign` | `agent_campaigns.go`, `agentcampaign/processor.go` | campaign, targets, tasks, messages |
| `AgentCredential`, `ModelBroker` | token issuance; metered model calls on both wires | requests, records; calls, mutex, ceilings, latch |
| `AgentSandbox` | `Pipeline.Execute` from the profile to the push, `applyCampaignReplacement`, `docker_sandbox.go`, `verification.go`, `repair.go`, `executor_identity.go` | jobs (ordinary, under the complete workflow, a campaign's replacement) with and without a profile, checkouts and their owners, containers, identities |
| `RuleRollout` | `rules.go`, `rule_rollouts.go`, `rule_tests.go`, the monitor | versions, bindings, shadow, canary, candidate runs |
| `ReviewPolicy` | `review_config.go`, `review_config_approval.go`, snapshots, filters, merge gate | rows by scope and section, a change request, one run |
| `ReviewIssues` | `issues.go`, `rule_exceptions.go`, `issue_automation.go`, `issuepublisher` | one issue, transactions of its pull requests, the ticket |
| `Notification` | `notifications.go`, `notification/service.go` | destinations, routes, deliveries, handlers |
| `IssueTriage` | `provider_issue_triage.go`, `cmd/issue-triager`, feedback | one analysis, inbox rows, comment, reactions |
| `DataGovernance` | `data_governance*.go`, `governance/processor.go` | jobs, holds, repositories, workers |
| `WorkspaceIdentity`, `SingleSignOn`, `ProviderAccess`, `WorkspaceSetup` | `postgres.go`, `sso.go`, `provider_health.go`, `workspace_setup.go` and their neighbours | rows, open transactions, probes, pages |
| `OutboxRelay_proofs`, `InboxConsumer_proofs`, `Delivery_proofs`, `ReviewRunner_proofs`, `AgentExecution_proofs`, `AgentPlatform_proofs`, `Governance_proofs` | theorems and the lemmas they rest on (section 5) | |
| `MC*` | small instances; `MCAgentPlatform`, `MCGovernance` and `MCProgress` hold several parts | |

**Granularity.** A PostgreSQL transaction is one step where the code takes row,
tenant or advisory locks in it or is protected by a unique index. Where a
READ COMMITTED transaction reads without a lock and writes later, it has as
many steps as it has such statements (`WorkspaceIdentity`, `ProviderAccess`,
`ReviewIssues`, the admission of `ReviewPolicy`). Between transactions and
around each remote call a process can be overtaken, so each gets its own
program counter.

**Time.** A lease is live or has lapsed; a backoff has elapsed or not. A lease
whose holder is gone may lapse at any moment; one whose holder still works
lapses only as a counted fault. This keeps the constants out of the model and
both orders of expiry and completion in it.

**Identity.** `claim_token` is a fresh UUID per claim; the row's attempt number
stands for it. A broker copy is named by message and publishing attempt. A
commit is named by the plan or the task that produced it, a set of findings by
the attempt that computed it. The outbox of the modules above the messaging is
a set of rows that may be delivered at any later time, any number of times,
which is what `Delivery` establishes of the transport and more.

**Parts in one run.** The parts of `MCAgentPlatform` and of `MCGovernance`
share no variable. A behaviour picks one of them in its initial state (`area`),
moves that one and leaves the others where they were. Such a run covers all
behaviours of every part; it covers no product of them, and says nothing about
interactions between parts. Its properties are grouped by what they promise
(`NewestWins`, `AccessWasEarned`, ...), and each conjunct is defined and
explained in the module it is about.

**Type invariants.** The types of the messaging modules, of `ReviewRunner`, of
`AgentExecution` and of the parts of `MCAgentPlatform` and `MCGovernance` are
proved (section 5).

## 3. Runs

Every run is a `.cfg` of the same name. Deadlock checking is off in all of
them: with bounded faults and inputs the platform quiesces.

| Run | Instance | Shows |
|---|---|---|
| `OutboxRelay` | 2 rows, 2 relays with their own ids, 3 faults | `PublishedWasAccepted`, `DuplicatesNeedFaults`, `LatestClaimDecides`, `EventuallyPublished` |
| `InboxConsumer` | 1 message, up to 3 copies, 3 workers, redelivery limit 1, 2 faults | `CompletedHadEffect`, `OneWorkerOwnsClaim`, `RepeatedEffectsNeedFaults`, `UnfinishedWorkIsVisible`, `EventuallySettled` |
| `Delivery` | 1 row, 2 relays that share `relay-1`, 2 workers, 2 faults | `ImplementsConsumer` (refinement), `CommittedIsAccountedFor`, `EventuallyHandled` |
| `ReviewRunner_execution` | 1 run; two threads of one process and one of another; 2 heads, 2 attempts, 2 failures, 1 crash or overrun | `EvidenceMatchesRun`, `PublishedWasStored`, `NothingStrandsUnlessCrashed` |
| `ReviewRunner_admission` | 3 runs of one review, 2 deliveries, monthly limit 1, 1 runner | `OneActiveRun`, `UsageMatchesRun`, `QuotaNeverExceeded`, `TerminalNoticeOnce`, `ImplementsLifecycle` (refinement) |
| `ReviewRunner_ends` | 2 reviews, 1 slot, 1 runner, 1 failure, 1 crash | `EventuallyEnds` under contention |
| `AgentExecution` | 1 task, 2 plans, 2 runners, 2 claims of a plan, a crash of runner and adapter, a lost answer | `OneLaunchPerPlan`, `ExecutingHasItsAttempt`, `PublishedIsAccountedFor`, `RevokedJobIsCancelled`, `StoppedStaysStopped` |
| `AgentPlatform` | 11 parts, section 2 | `ShownWasChecked`, `BudgetFavoursRisk`, `AgentWorkIsBounded`, `NobodyIsLeftWaiting`, `NewestWins`, `AgentSpendingStops` |
| `Governance` | 10 parts | `ReviewPolicyHolds`, `NoticesTellTheTruth`, `PendingCanBeFinished`, `AccessWasEarned`, `GovernanceHolds` |
| `Progress` | a task with 1 plan and 1 runner; 2 source admitters; a campaign of 2 repositories | `SourceFollowsAcknowledgement`, `AttachedWorkEnds`, `AgentWorkSettles` |
| `InboxConsumer_atleastonce`, `AgentExecution_watchdog` | the smallest instance with the scenario | a text of the repository that the code does not satisfy (section 6) |

What the grouped properties say of each part:

| Property | Conjunct (module) | In words |
|---|---|---|
| `ShownWasChecked` | `PublishedWasVerified` (`AgentSandbox`) | the published patch is allowed (for a campaign's replacement: what was approved or, after a repair, a part of it); under the complete workflow, and wherever a profile was loaded, it is the one an independent verification ran on. An ordinary task of an adapter without profiles is published unverified |
| | `ReviewedIsRecorded` (`RiskPlan`) | what the model saw is the recorded plan, through every retry |
| `BudgetFavoursRisk` | (`RiskPlan`) | within the budget no riskier file waits for a weaker one |
| `AgentWorkIsBounded` | `SameSnapshotSameTask` (`AgentIntake`) | requests accepted for one snapshot act on one task |
| | `CampaignWithinLimits`, `CancelledCampaignIsQuiet` (`AgentCampaign`) | concurrency limits across every claim path; nothing runs after a cancellation |
| | `SpendWithinCeiling` (`ModelBroker`) | calls and tokens of a job, refunds included |
| `NobodyIsLeftWaiting` | `NoEndIsSilent` (`Publication`), `HeldRunHasAWayOut`, `StartedWasAnswered` (`Interaction`) | an ended run is shown or handed to a person; a held run has a message or a person that moves it |
| `NewestWins` | `AcceptedIsNewest` (`AgentDelivery`), `StatusNeverGoesBack` (`AgentSource`), `LookupKeepsNewerRun` (`ReviewEntries`) | stale reads and late messages replace nothing newer |
| `AgentSpendingStops` | `TokensStayBounded` (`AgentCredential`), `LatchIsFinal` (`ModelBroker`) | no call in flight spends after the limit or the latch |
| `ReviewPolicyHolds` | `PromotedWasClean`, `CanaryKeepsItsPair` (`RuleRollout`), `BlockingFindingIsPublished` (`ReviewPolicy`) | a promoted canary had clean evidence; its two bindings stay as they are while it is open; what fails the gate can be read. Nothing is said of a candidate that becomes active without a canary |
| `NoticesTellTheTruth` | `IssueTellsTheTruth` (`ReviewIssues`), `NoticeSentOnce` (`Notification`), `CommentKeepsUp` (`IssueTriage`) | outside follows inside |
| `PendingCanBeFinished` | (`IssueTriage`) | a pending analysis has a message or a manual retry |
| `AccessWasEarned` | `EnforcedWasTested` (`SingleSignOn`), `VerifiedIsCurrent` (`ProviderAccess`), `AdmittedWasGoverned` (`WorkspaceSetup`), `AnOwnerRemains` (`WorkspaceIdentity`) | access that is on was tested in its current form; an owner remains unless two edits of memberships overlapped |
| `GovernanceHolds` | `HeldScopeIsKept` (`DataGovernance`), `DeactivatedStaysOut` (`WorkspaceIdentity`), `RouteChangesByTwo` (`ReviewPolicy`) | decisions hold against what was under way: a hold on the tenant or on the deletion's own scope, a deactivation, a route that takes two to change |
| `AgentWorkSettles` | `SourceSettles` (`AgentSource`), `ApprovedWorkStarts` (`AgentCampaign`) | nothing waits for ever |

Several of these state their own exception (a handler that died, edits that
overlapped, an installation that was turned off). The exception is what the code
does, described in section 6; the property says that it is the only one.

**Bounds**, all named constants. `Max*Faults`, `MaxFailures`, `Max*Crashes`,
`MaxLost` say how often things go wrong; `MaxRuns`, `MaxDeliveries`, `MaxHead`,
`MaxTasks`, `Max*Edits`, `Max*Acts`, `Max*Revisions` bound inputs; the code's
own limits have small values (`RedeliveryLimit` 1 for 5, `MaxAttempts` 2 for 5,
`MaxConcurrent` 1 for 2, `focusedSelectionLimit` 2 for 8, `maxPlanPaths` 2 for
10,000, `modelBrokerRequestLimit` 4 for 24, `MaxLookups` 2 for 5);
`maxTerminalPublicationAttempts` has its real value 5. They are enough for the
cases of interest: with redelivery limit 1 a message is redelivered, then
dead-lettered; with two attempts a job is retried and then given up; one overrun
puts a stale worker and a new holder on the same row; two administrators, or two
owners, suffice for every race of two READ COMMITTED transactions; two
revisions are an older and a newer one; three paths under a budget of two force
a choice; two jobs over two identities let one job's container meet another's
checkout; three model calls cross a total of five tokens in every order; two
repositories under a concurrency of one make a campaign wait. Symmetry is used
over the two threads of one process (`ReviewRunner_execution`) and over the two
runners (`AgentExecution`), both without liveness.

## 4. Fairness

Fairness is stated on what runs by itself: a process continues with what it
started; some relay or runner polls (`time.Ticker` loops of the commands); a
broker that is up answers; leases and backoffs run out. Faults, users, pushes
and webhooks are never fair.

- Messaging and `ReviewRunner`: weak fairness only. The acknowledgement message
  of a run is assumed to reach the acknowledger, which is more than the
  transport gives (finding 1): a pull-request run does not need it, since the
  poller claims acknowledged runs of that kind, a retried run does. The consumer
  assumes nothing about inbox leases, because nothing in the code waits for
  them. `EventuallyEnds` excludes runs that are `Stranded` and
  `EventuallySettled` claims that are `Abandoned`: the liveness properties say
  that these are the only other outcomes.
- `AgentExecution`: the lease of a silent attempt lapses, the reaper's loop
  looks at expired attempts, the consumer of cancellations delivers, the start
  gate answers and a cancelled job stops.
- `AgentSource`: messages are delivered and a handler returns. A handler that
  dies with its inbox claim is left out here: finding 1 applies to it as well.
- `AgentCampaign`: the processor's loop runs, a message that can claim its
  execution is delivered, and attempts end, all weakly fair. That is enough
  although other targets take the campaign's room in turn: every attempt ends,
  a target has a limited number of them, and the loop requests the execution
  again in every round.

## 5. Proofs

Checked by TLAPS for every value of the constants: any number of messages,
relays, workers, runs, attempts, runners and faults. The assumptions are the
ASSUMEs of the modules (a finite message set, natural limits, relay ids that
differ from `None`, a workspace that begins with an owner, ...), which TLC
evaluates in every run.

Most proofs have the same shape. A step is summarised by what it does to each
row, job or worker (`Quiet`, `RowMoves`, `JobMoves`, `HandlersMove`, ...); the
summary is established once, action by action, and each part of the inductive
invariant is then derived from the summary and not from the action.

### Messaging

`OutboxRelay_proofs`
- `TypeCorrect`: `Spec => []TypeOK`.
- `PublishedImpliesAccepted`: `Spec => []PublishedWasAccepted`. The property is
  not inductive: `MarkOutboxPublished` needs to know that the marking relay saw
  its own confirm. The invariant adds `MarkingWasAccepted`: a relay at
  `marking` holds a message of which a copy is in `accepted`, which only grows.
  Nothing about ownership is used, which is why sharing a relay id is harmless
  here.
- `DuplicatesHold`: `Spec => []DuplicatesNeedFaults`. The count of copies says
  nothing about who may still make one, so the invariant counts `Debts`: the
  claims after the first, the rows that can be claimed again without another
  fault (`Reclaimable`) and the relays about to give one back. A second claim
  exchanges the debt of the row for one of the claim, a release that of the
  relay for one of the row, and only a fault adds one, so there are never more
  debts than faults (`DebtsArePaid`). `ClaimsNumbered` carries the rest: claims
  have different numbers, a leased row bears the name of its latest claimant,
  and each copy has the number of a claim. Identities may be shared.
- `LatestClaimHolds`: `LatestClaimDecides` under `DistinctIdentities`, a
  hypothesis of the theorem: with a shared id the `locked_by` predicate lets a
  stalled relay give up its sibling's claim. The invariant is `OwnerIsLatest`.

`InboxConsumer_proofs`
- `TypeCorrect`.
- `ClaimsAreExclusive`: from `TokensAreFresh`, which says that the token of a
  working worker never exceeds the row's attempt and that two working workers
  on one message have different tokens.
- `CompletionFollowsEffect`: from `CompletingHadEffect`, the worker's
  knowledge between handler and receipt.
- `CompletionIsFinal`, an action property, from `CompletedHasNoLease`.
- `WorkNeverVanishes`: `UnfinishedWorkIsVisible` is inductive with `TypeOK`;
  the argument is that every step that takes a copy away either completed the
  row, returned the copy to the queue or the dead letters, or met a row that
  is completed or claimed.
- `RepeatedEffectsHold`: two invariants. `ClaimsArePaid`: a row was claimed at
  most once more than there were faults, and no more often than that when it is
  `Open`, that is claimable again although nothing else need go wrong.
  `EffectsHaveClaims`: effects that landed and handlers that still run have a
  claim each; the workers at one message are counted, a stalled one included.

`Delivery_proofs`
- `RefinesConsumer`: `Spec => ImplementsConsumer`. A relay step is an `Arrive`,
  a `FaultElsewhere` or a stutter of `InboxConsumer`. For the `Arrive` the copy
  must be new (`FreshCopies`: a copy is written once, under a claim that no
  other relay holds) and its number at most `1 + MaxFaults`, which follows from
  the debts above.
- `NothingIsLost`: `CommittedIsAccountedFor`, from `PublishedWasAccepted` on one
  side and `UnfinishedWorkIsVisible` on the other.
- `EffectsEndToEnd`: the consumer's bound on repeated effects holds in the
  composition, with the faults of both sides.

The theorems about the two sides are used through INSTANCEs, together with
their assumptions; the invariants of the relays are shown to survive consumer
steps, which may add faults but touch no row, relay or accepted copy.

### Reviews

`ReviewRunner_proofs` rests on three invariants. `RowInv` ties run, job, usage,
stages, terminal event and outbox of one run together and gives `TypeCorrect`,
`OneActiveRunHolds`, `UsageHolds`, `QuotaHolds`, `TerminalNoticeHolds` and
`EvidenceHolds`. `PublicationInv` adds what a worker knows of the findings it
stored before it publishes (`PublishedWasStoredHolds`). `OccupationInv` says who
will take up a run in a working state: its job, the worker that holds it, or a
sweep (`NothingStrands`). `QuotaHolds` is a cardinality argument: a reservation
adds one run to a set that the admission has just found below the limit.
`RefinesLifecycle` maps the run row of `ReviewStore` to `RunLifecycle` and shows
each step to be a step of it or a stutter.

### Agent tasks

`AgentExecution_proofs` has one invariant, `Inv`, whose parts are types and
references between rows (`References`), the order of acknowledgement and source
(`AcknowledgedFirst`), the task and its attempt (`ExecutingHasItsAttempt`), the
single use of a plan by attempt, job and launch (`OneUse`), what ties a job to
its attempt through lost answers and restarts (`Attached`) and the order of
retained and visible commits (`Published`). TLC checked it on instances with two
runners and with repeated retries before it was proved. From it follow
`OneLaunchHolds`, `ExecutionHolds`, `PublicationHolds`, `RevocationHolds`,
`AcknowledgementHolds` and the action property `StoppedHolds`.

### The parts of the agent platform

`AgentPlatform_proofs` proves the properties of the run `AgentPlatform`, all but
`BudgetFavoursRisk`. The parts share no variable, so each has an invariant of
its own, and `PartsMove` says that a step of the whole is a step or a stutter of
every part. A theorem about a grouped property puts the parts' lemmas together.

- `PublishedVerified` (`SbInv`): what is known of a checkout in each phase of
  its job. A container that outlives its job writes only where its identity owns
  the checkout; the adapter does from validation to publication, except during a
  verification, whose verdict is dropped if the patch changed. A job past the
  load of its profile has one unless it is an ordinary task, so only such a task
  goes from validation straight to publication.
- `WorkIsBounded`. `AgentIntake`: an accepted command names a task of the
  snapshot it was judged by (`AiAcceptedMatches`), and tasks keep their
  revision. `AgentCampaign`: the running executions stay within the limit on
  every claim path. `ModelBroker` (`MbInv`): a reservation covers what every
  call in flight or about to be retried may still take (`MbCovered`); the call in
  flight holds the mutex, and the latch is set only when none is (`MbSerial`).
- `SpendingStops`, an action property. Two calls at the provider hold two records
  (`CrDistinct`), so there are at most as many tokens as records that no call
  holds there (`CrSettled`), a counting argument; that the latch is final follows
  from `MbInv`.
- `NewestWinsHolds`, an action property. `AgentDelivery`: the tasks of a branch
  come one after the other (`DlPrefix`), and an acceptance is recorded and
  observed for completed tasks only (`DlRecorded`). `ReviewEntries`: of the runs of a pull request only
  the newest is active (`ReNewestActive`), and a lookup that reads now knows all
  runs newer than its webhook (`ReReadNewest`).
- `ReviewedScopeHolds` (`RpInv`): an attempt that may start the model carries the
  recorded plan, which is written once. With `PublishedVerified` it gives
  `ShownWasCheckedHolds`.
- `NobodyWaits`. `Publication` (`PbInv`): the reporter writes its comment only
  behind a closed check. `Interaction` (`InInv`): what an answer is for does not
  depend on how far it is, so the invariant speaks of the pairs of a comment and
  the run its answer releases (`InAnswers`). Such a run belongs to one comment
  (`InAnswersFit`, `InMadeFit`), a held run has such an answer or an admission
  that will queue one (`InHeldHasAnswer`), and a released one has its reaction
  (`InReleasedReacted`). That the way out exists follows by counting the manual
  retries.

### The control plane

`Governance_proofs` proves every property of the run `Governance`, in the same
way: an invariant for each part, one theorem for each grouped property.

- `AccessEarned` (`AccessInv`). `WorkspaceIdentity` (`IdInv`): unless two edits
  overlapped at most one is open, and what it counted still holds.
  `SingleSignOn` (`SoInv`): a probe vouches for the revision it was claimed
  under. `ProviderAccess` (`PaInv`): a claim that may still verify read the scope
  and credential of now. `WorkspaceSetup` (`WsInv`): every step behind the
  checkpoint had its evidence, and an installation is active only once a
  checkpoint exists.
- `ReviewPolicyProved` (`PolicyInv`). `RuleRollout` (`RlInv`): a run of the
  candidate that is open or failed is counted by the stage's evidence or is one
  of the exceptions (`RlSeen`); `CanaryKeepsItsPair` is inductive with the
  types. `ReviewPolicy` (`RcInv`): a
  pending change fits the row it would replace, and what a gated run published
  was filtered under the policy the gate reads.
- `GovernanceProved`, an action property, from the same invariant and `IdInv`.
  `DataGovernance` (`DgInv`): a deletion runs only after its window closed; that
  no hold covers it is read in the step that erases.
- `NoticesProved` and `PendingProved` (`NoticeInv`). `ReviewIssues` (`IsInv`): a
  review that keeps a finding holds the issue's row from its upsert on, with the
  status it read (`IsLocked`); one that counted no other holder is right about
  it unless another review ended since (`IsCounted`). `Notification` (`NtInv`):
  without a fault an event is in one pair of hands (`NtAlone`); what was taken is
  recorded as delivered or its answer is in hand (`NtCounted`), and what is still
  to send was not taken (`NtOwed`), each destination once because a list of
  deliveries names it once (`NtInOrder`). `IssueTriage` (`TgInv`): a message that
  only a later step writes is nobody's (`TgNotYet`), a claim without a worker
  was left by a crash (`TgClaimHeld`), and from the retained report to the
  completion the publisher holds what the job retains (`TgStaged`).

### Only model-checked

- All liveness (`EventuallyPublished`, `EventuallySettled`, `EventuallyHandled`,
  `EventuallyEnds`, `AttachedWorkEnds`, `AgentWorkSettles`): it needs fairness
  and ENABLED, which the prover does not handle.
- `BudgetFavoursRisk` of `RiskPlan`: what a greedy selection computes needs
  induction over the candidates.

## 6. Where the code and the texts differ

With a run whose counterexample is the scenario (quoted texts in
`PROJECT.json`):

1. `AtLeastOnce`: a redelivery that meets a dead worker's live inbox claim is
   acknowledged and lost (`messaging/consumer.go:47`).
2. `ExpiredLeaseIsReaped`: a runner that dies between its claim and the
   adapter's answer leaves an attempt without a job; the reaper fails on it in
   every round, so the expired lease never becomes `needs_attention`
   (`store/agent_tasks.go:962`).

Seen while modelling, described here without a run. Paths are under
`src/internal/` unless they start elsewhere.

*Runs and jobs*
- Claimed jobs of acknowledged runs are not counted against the tenant's
  concurrency (`store/postgres.go:1518`).
- Job and run fail in two transactions; a crash in between strands the run, and
  a worker that lost its claim still fails it (`runner/runner.go:302`). For a
  cancelled run the same path publishes "failed" (`runner.go:306-340`).
- No durable check between the publishing transition and the provider write
  (`runner.go:575`): findings can appear after a cancellation.
- A late webhook, or a schedule that froze an older head, replaces the run of a
  newer head (`store/workflow.go:77`, `store/review_schedules.go:312`); the new
  run is superseded by its own head check, and neither head is reviewed.
- A runner that dies after its run completed leaves the check open
  (`runner.go:251`); jobs of completed and superseded runs are never closed.
- The quota is read before the reservations of superseded runs are released
  (`workflow.go:1507`): at the limit a push ends the old run and its successor
  is rejected.
- The urgency table of `ClaimOutbox` lacks four topics of
  `outboxMessagePriority` (`workflow.go:2867`).
- Supersession and cancellation leave stage rows as they were, although
  `docs/iter-01/18-implementation-coverage-audit.md:105` says transition and
  stage state advance together; `EvidenceMatchesRun` excludes such runs.
- The transition table lacks `publishing -> cancelled` and
  `acknowledged -> superseded`, which the code performs without consulting it;
  `needs_attention` is in the tables and no review run enters it.

*Entries and publication*
- `retry <old id>` while another run is active is not answered
  (`workflow.go:1475`); an admission that joined a run answers "could not queue"
  (1301); a command line submission that joined one is NotFound
  (`store/cli_reviews.go:236`).
- Two summary comments are possible when runner and reporter both find none
  (`terminal/reporter.go:109`, against 50-54).
- The admission is decided from another read of the configuration than the
  snapshot (`store/postgres.go:1153`, `workflow.go:279`).
- Path filters apply after the budget (`runner.go:523`, 820); a plan that
  conflicts with the recorded one makes every retry fail (`postgres.go:1703`);
  more than 10,000 paths make an invalid plan (`runner.go:1177`).

*Agent platform*
- An API request is deduplicated with stale labels (`store/agent_tasks.go:176`).
- A container that could not be removed returns its identity to the pool
  (`agentadapter/docker_sandbox.go:288`, against `executor_identity.go:8`); a
  crash of the adapter leaves containers running (`docker_sandbox.go:120`).
- Without a profile file an ordinary task's validated patch is committed, pushed
  and shown as a draft with no independent verification
  (`agentadapter/pipeline.go:176-182`, `verification.go:49-51`); only the
  complete workflow requires one (`pipeline.go:87`). A repair of a campaign's
  replacement may restore some of the files, and the rest passes as approved
  (`agentadapter/campaign.go:112`).

*Control plane*
- Two overlapping membership edits remove the last owner
  (`store/postgres.go:750-897`, against the comment at 837): the property
  excepts overlapping edits.
- A legal hold on a repository does not stop a tenant-wide deletion
  (`store/data_governance.go:656`, against
  `docs/iter-01/18-implementation-coverage-audit.md:207`); polls of a region
  move count as attempts (`governance/processor.go:78`); a deferred move that
  was cancelled is not recorded (`data_governance.go:507`).
- A candidate under a shadow or canary rollout becomes active directly, by
  shadow, disabled, active, beside the baseline it was to be compared with: the
  rollout is asked for only where the binding is "shadow" at that moment
  (`store/rules.go:1069`, against `api/server.go:3760`). The model allows it, and
  `ReviewPolicyHolds` speaks of canaries only.
- Canary evidence is counted from `updated_at` (`store/rule_rollouts.go:350`):
  a pause makes open and failed reviews invisible to the stage, which
  `PromotedWasClean` excepts; `CreateRuleBinding` checks before it inserts
  (`rules.go:988`).
- Two overlapping GitLab scopes can both be created (`postgres.go:161-187`); an
  active connection can hold a revoked credential (711-725); a scope update is
  refused while a dead probe is "running" (577).
- `issues.go:570` writes counts read before the row was locked; a close message
  is not rechecked (`issuepublisher/processor.go:57`); disabling the policy
  leaves tickets open (`store/issue_automation.go:104`, 502).
- A late failure overwrites "delivered" (`store/notifications.go:810`); a retry
  does nothing when the destination is paused (664); a crash between send and
  finish sends twice.
- A triage publication refused by an inactive installation counts as made
  (`src/cmd/issue-triager/main.go:173-192`); a dead claim swallows the
  redelivery (`store/provider_issue_triage.go:16-29`); reactions apply out of
  order (481), and a poll overwrites a later one
  (`store/provider_issue_feedback.go:175`).
- An API key outlives its creator's membership (`store/api_keys.go:142`); an SSO
  probe is lost when readiness is refreshed (`store/sso.go:281`, 542), a failed
  test can be bypassed (288, 546) and the break-glass owner deactivated later
  (479); a replayed setup step drops the learning boundary
  (`store/workspace_setup.go:243-247`).

## 7. What comes next

1. An abstract life cycle of an agent task and the refinement, as for runs.
2. Compositions: `Publication` with the inbox of `InboxConsumer`, `AgentSource`
   with its status comment's outbox, `AgentDelivery` over `AgentExecution`.

## 8. Not modelled

- Platform health, probes of dependencies and worker heartbeats: they read the
  state above and drive nothing in it.
- The review engine and model decisions: prompts, parsing and evidence rules
  over text. Their outcome is a nondeterministic result where it is used.
- Webhook parsing and signatures, HTTP routing and authentication, process
  configuration and the web console: they have no state of their own. The
  store operations behind them are modelled.
- Inside modelled components: budgets, soft limits and alerts of usage; the
  calendar and the coverage ledger of schedules; several tenants and the fair
  choice of `Claim`; Git, Docker and file systems; the adapter without a
  container sandbox, where the executor is a child process; agent tasks that start from
  pull requests, and criterion evidence of acceptances; rule text and the expiry
  of exceptions; message formats; inventory synchronisation and credential
  refresh; sessions, listing and audit reading.
