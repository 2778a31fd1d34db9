---------------------------- MODULE AgentSandbox ----------------------------
(***************************************************************************)
(* Coding and verification of jobs in containers (agentadapter/pipeline.go *)
(* Execute, docker_sandbox.go, verification.go, repair.go): a job borrows  *)
(* an OS identity, its checkout is handed to that identity while a         *)
(* container runs, and taken back before the adapter looks at the patch.   *)
(*                                                                         *)
(* A verification needs a profile of the deployment.  Without a profile    *)
(* file an ordinary task publishes its validated patch unverified; a task  *)
(* under the complete workflow, and so every campaign task, is refused.    *)
(* The replacement of a campaign is made by the adapter, not by an agent.  *)
(*                                                                         *)
(* Every container mounts the whole checkout volume; the owner of a        *)
(* checkout is what keeps the others out of it.  The adapter may die at    *)
(* any moment and containers outlive it; removing a container may fail and *)
(* leave it running.                                                       *)
(***************************************************************************)
EXTENDS Integers, FiniteSets

CONSTANTS
    SbJobs,             \* jobs of the adapter
    SbUids,             \* identities of the pool
    Adapter,            \* the adapter's own identity
    MaxRepairCycles,    \* repairs a workflow allows
    MaxSbFaults         \* bound: crashes and failed removals

ASSUME SandboxAssumption == MaxRepairCycles \in Nat /\ MaxSbFaults \in Nat /\ Adapter \notin SbUids

VARIABLES
    sbUp,           \* whether the adapter runs
    sbProfiles,     \* whether it was started with a file of verification profiles
    sbKind,         \* each job's submission: ordinary, workflow or replacement
    sbJob,          \* each job: phase, identity, repairs, the validated patch and
                    \* whether a verification profile was loaded for it
    sbTree,         \* the content of each job's checkout
    sbOwner,        \* who owns each checkout
    sbPool,         \* identities free to borrow
    sbContainers,   \* running containers: job and identity
    sbVerified,     \* the content the last successful verification ran on
    sbPublished,    \* the content each job published
    sbFaults

sbVars == <<sbUp, sbProfiles, sbKind, sbJob, sbTree, sbOwner, sbPool, sbContainers, sbVerified, sbPublished, sbFaults>>

\* The untouched checkout, three patches the policy allows and one it does not.
\* The first is the replacement a campaign approved, the second has it in some
\* of the files only.
Base == 0
Allowed == {1, 2, 3}
Replacement == 1
Approved == {Replacement, 2}
Trees == {Base, 4} \cup Allowed

SbKinds == {"ordinary", "workflow", "replacement"}
Submitted == [phase |-> "submitted", uid |-> Adapter, cycle |-> 0, patch |-> Base, profile |-> FALSE]

SbInit ==
    /\ sbUp = TRUE /\ sbProfiles \in BOOLEAN /\ sbKind \in [SbJobs -> SbKinds]
    /\ sbJob = [j \in SbJobs |-> Submitted]
    /\ sbTree = [j \in SbJobs |-> Base] /\ sbOwner = [j \in SbJobs |-> Adapter]
    /\ sbPool = SbUids /\ sbContainers = {}
    /\ sbVerified = [j \in SbJobs |-> Base] /\ sbPublished = [j \in SbJobs |-> Base]
    /\ sbFaults = 0

Fault == sbFaults < MaxSbFaults /\ sbFaults' = sbFaults + 1

-----------------------------------------------------------------------------
(* Containers.                                                             *)

\* acquire, transferExecutorWorkspace and docker run.
RunContainer(j, phase) ==
    \E uid \in sbPool :
       /\ sbPool' = sbPool \ {uid} /\ sbOwner' = [sbOwner EXCEPT ![j] = uid]
       /\ sbContainers' = sbContainers \cup {[job |-> j, uid |-> uid]}
       /\ sbJob' = [sbJob EXCEPT ![j].phase = phase, ![j].uid = uid]

\* docker rm, reclaimExecutorWorkspace and release, in whatever way the run
\* ended; the identity goes back even when the container could not be removed.
Leave(j, removed) ==
    /\ IF removed THEN UNCHANGED sbFaults ELSE Fault
    /\ sbContainers' = IF removed THEN {c \in sbContainers : c.job # j \/ c.uid # sbJob[j].uid} ELSE sbContainers
    /\ sbOwner' = [sbOwner EXCEPT ![j] = Adapter] /\ sbPool' = sbPool \cup {sbJob[j].uid}

\* What runs in a container may write every checkout its identity owns.
Write(c, j, content) ==
    /\ sbOwner[j] = c.uid /\ sbTree' = [sbTree EXCEPT ![j] = content]
    /\ UNCHANGED <<sbUp, sbProfiles, sbKind, sbJob, sbOwner, sbPool, sbContainers, sbVerified,
                    sbPublished, sbFaults>>

-----------------------------------------------------------------------------
(* A job.                                                                  *)

\* The path and secret policies; also after an agent repaired it, every file of
\* a replacement that still differs from the source has to be as approved
\* (validateCampaignFiles).
validatePatch(j) ==
    /\ sbTree[j] \in Allowed
    /\ sbKind[j] = "replacement" => sbTree[j] \in Approved

Phase(j, phase) == sbJob' = [sbJob EXCEPT ![j].phase = phase, ![j].uid = Adapter]
Validated(j, patch) ==
    sbJob' = [sbJob EXCEPT ![j].phase = "validated", ![j].uid = Adapter, ![j].patch = patch]

\* A mutated form: the frozen workflow policy does not ask for a profile.
LoadWithoutPolicy(j) ==
    /\ sbUp /\ sbJob[j].phase = "submitted"
    /\ \E found \in BOOLEAN :
          IF sbProfiles /\ ~found THEN Phase(j, "failed")
          ELSE sbJob' = [sbJob EXCEPT ![j].phase = "cloned", ![j].profile = sbProfiles]
    /\ UNCHANGED <<sbUp, sbProfiles, sbKind, sbTree, sbOwner, sbPool, sbContainers, sbVerified,
                    sbPublished, sbFaults>>

\* The file is read again for every job, and one without an entry for the
\* repository is an error; without a file there is no profile.  A complete
\* workflow requires one.  Then the source is cloned.
loadVerificationProfile(j) ==
    /\ sbUp /\ sbJob[j].phase = "submitted"
    /\ \E found \in BOOLEAN :
          IF (sbProfiles /\ ~found) \/ (~sbProfiles /\ sbKind[j] # "ordinary") THEN Phase(j, "failed")
          ELSE sbJob' = [sbJob EXCEPT ![j].phase = "cloned", ![j].profile = sbProfiles]
    /\ UNCHANGED <<sbUp, sbProfiles, sbKind, sbTree, sbOwner, sbPool, sbContainers, sbVerified,
                    sbPublished, sbFaults>>

\* The adapter writes the replacement itself, if the files are as approved.
applyCampaignReplacement(j) ==
    /\ sbUp /\ sbJob[j].phase = "cloned" /\ sbKind[j] = "replacement"
    /\ \/ sbTree' = [sbTree EXCEPT ![j] = Replacement] /\ Validated(j, Replacement)
       \/ sbTree' = sbTree /\ Phase(j, "failed")
    /\ UNCHANGED <<sbUp, sbProfiles, sbKind, sbOwner, sbPool, sbContainers, sbVerified, sbPublished,
                    sbFaults>>

\* A repair is an agent's, whatever made the first patch.
runAgent(j) ==
    /\ sbUp
    /\ \/ sbJob[j].phase = "cloned" /\ sbKind[j] # "replacement"
       \/ sbJob[j].phase = "repair"
    /\ RunContainer(j, "coding")
    /\ UNCHANGED <<sbUp, sbProfiles, sbKind, sbTree, sbVerified, sbPublished, sbFaults>>

\* The coding run ends, well or not; only an allowed patch of a container that
\* is known to be gone goes on.
runAgentInDocker(j) ==
    /\ sbUp /\ sbJob[j].phase = "coding"
    /\ \E removed \in BOOLEAN, ok \in BOOLEAN :
          /\ Leave(j, removed)
          /\ IF removed /\ ok /\ validatePatch(j) THEN Validated(j, sbTree[j]) ELSE Phase(j, "failed")
    /\ UNCHANGED <<sbUp, sbProfiles, sbKind, sbTree, sbVerified, sbPublished>>

\* With a profile the verification sees the validated checkout, in a container
\* of its own.
runVerification(j) ==
    /\ sbUp /\ sbJob[j].phase = "validated" /\ sbJob[j].profile /\ RunContainer(j, "verifying")
    /\ sbVerified' = [sbVerified EXCEPT ![j] = sbTree[j]]
    /\ UNCHANGED <<sbUp, sbProfiles, sbKind, sbTree, sbPublished, sbFaults>>

\* Only the workflow has a budget of repairs.
repairBudget(j) == IF sbKind[j] = "ordinary" THEN 0 ELSE MaxRepairCycles

\* A verdict counts only when the container is gone and the checkout still
\* holds the validated patch; a plain failure is repaired within the budget.
verifyAndRepair(j) ==
    /\ sbUp /\ sbJob[j].phase = "verifying"
    /\ \E removed \in BOOLEAN, verdict \in {"pass", "fail", "unavailable"} :
          /\ Leave(j, removed)
          /\ IF ~removed \/ sbTree[j] # sbJob[j].patch \/ verdict = "unavailable" THEN Phase(j, "failed")
             ELSE IF verdict = "pass" THEN Phase(j, "verified")
             ELSE IF sbJob[j].cycle = repairBudget(j) THEN Phase(j, "failed")
             ELSE sbJob' = [sbJob EXCEPT ![j].phase = "repair", ![j].uid = Adapter, ![j].cycle = @ + 1]
    /\ UNCHANGED <<sbUp, sbProfiles, sbKind, sbTree, sbVerified, sbPublished>>

\* The verified patch, or without a profile the validated one.  What is staged
\* and committed is compared with the validated patch; then the branch is
\* pushed.
PublishPatch(j) ==
    /\ sbUp
    /\ \/ sbJob[j].phase = "verified"
       \/ sbJob[j].phase = "validated" /\ ~sbJob[j].profile
    /\ sbTree[j] = sbJob[j].patch /\ Phase(j, "published")
    /\ sbPublished' = [sbPublished EXCEPT ![j] = sbTree[j]]
    /\ UNCHANGED <<sbUp, sbProfiles, sbKind, sbTree, sbOwner, sbPool, sbContainers, sbVerified, sbFaults>>

\* Outside a container the job can end at any point: the deadline passes, Git
\* or the provider fails, the lease is gone, the patch is not the validated one.
ExecuteFails(j) ==
    /\ sbUp /\ sbJob[j].phase \in {"submitted", "cloned", "validated", "repair", "verified"}
    /\ Phase(j, "failed")
    /\ UNCHANGED <<sbUp, sbProfiles, sbKind, sbTree, sbOwner, sbPool, sbContainers, sbVerified,
                    sbPublished, sbFaults>>

-----------------------------------------------------------------------------
(* The adapter dies and starts again.                                      *)

AdapterDies ==
    /\ sbUp /\ Fault /\ sbUp' = FALSE
    /\ sbJob' = [j \in SbJobs |-> IF sbJob[j].phase \in {"published", "failed"} THEN sbJob[j]
                                  ELSE [sbJob[j] EXCEPT !.phase = "failed"]]
    /\ UNCHANGED <<sbProfiles, sbKind, sbTree, sbOwner, sbPool, sbContainers, sbVerified, sbPublished>>

\* Under the lock of the volume, and before any work is accepted: every owned
\* container is removed, then every checkout.  New attempts start from new
\* checkouts, perhaps under another configuration.
CleanupOrphanSandboxes ==
    /\ ~sbUp /\ sbUp' = TRUE /\ sbContainers' = {} /\ sbPool' = SbUids
    /\ sbProfiles' \in BOOLEAN
    /\ sbTree' = [j \in SbJobs |-> Base] /\ sbOwner' = [j \in SbJobs |-> Adapter]
    /\ sbJob' = [j \in SbJobs |-> IF sbJob[j].phase = "failed" THEN Submitted ELSE sbJob[j]]
    /\ sbVerified' = [j \in SbJobs |-> IF sbJob[j].phase = "failed" THEN Base ELSE sbVerified[j]]
    /\ UNCHANGED <<sbKind, sbPublished, sbFaults>>

SbNext ==
    \/ AdapterDies \/ CleanupOrphanSandboxes
    \/ \E c \in sbContainers, j \in SbJobs, content \in Trees : Write(c, j, content)
    \/ \E j \in SbJobs : \/ loadVerificationProfile(j) \/ applyCampaignReplacement(j)
                         \/ runAgent(j) \/ runAgentInDocker(j) \/ runVerification(j)
                         \/ verifyAndRepair(j) \/ PublishPatch(j) \/ ExecuteFails(j)

-----------------------------------------------------------------------------
(* Properties.                                                             *)

\* What a job publishes is an allowed patch, for a campaign's replacement what
\* was approved or, after a repair, a part of it.  Under the complete workflow,
\* and wherever a profile was loaded, it is the patch an independent
\* verification ran on.  All this whatever containers wrote meanwhile, the
\* job's own, another job's or one that could not be removed, however often it
\* was repaired and whatever configuration the adapter was started with again
\* (pipeline.go:88 "complete workflow requires approved repository
\* verification", repair.go:41, docker_sandbox.go:288).  An ordinary task of an
\* adapter without profiles is published unverified.
PublishedWasVerified ==
    \A j \in SbJobs : sbJob[j].phase = "published" =>
        /\ sbPublished[j] \in Allowed
        /\ sbKind[j] = "replacement" => sbPublished[j] \in Approved
        /\ sbJob[j].profile \/ sbKind[j] # "ordinary" => sbPublished[j] = sbVerified[j]
=============================================================================
