------------------------ MODULE AgentPlatform_proofs ------------------------
(***************************************************************************)
(* Proofs about the parts that MCAgentPlatform instantiates together.  They *)
(* share no variable: PartsMove turns a step of the composition into a step *)
(* of each part, and every section below is about one part, with the        *)
(* inductive invariant its property needs.                                  *)
(***************************************************************************)
EXTENDS MCAgentPlatform, FiniteSetTheorems, TLAPS

LEMMA PartsMove ==
    ASSUME [Next]_vars
    PROVE  /\ [DlNext]_dlVars /\ [AiNext]_aiVars /\ [SrNext]_srVars
           /\ [CmNext]_cmVars /\ [CrNext]_crVars /\ [SbNext]_sbVars
           /\ [MbNext]_mbVars /\ [PbNext]_pbVars /\ [ReNext]_reVars
           /\ [InNext]_inVars /\ [RpNext]_rpVars
BY Zenon DEF Next, vars

-----------------------------------------------------------------------------
(* AgentSandbox.                                                           *)

SbPhases == {"submitted", "cloned", "coding", "validated", "verifying", "repair", "verified",
             "published", "failed"}
SbRow == [phase : SbPhases, uid : SbUids \cup {Adapter},
          cycle : Nat, patch : Trees, profile : BOOLEAN]

\* Only borrowed identities run containers, so nobody writes a checkout that
\* the adapter owns.
SbTyped ==
    /\ sbJob \in [SbJobs -> SbRow] /\ sbProfiles \in BOOLEAN
    /\ sbTree \in [SbJobs -> Trees]
    /\ sbOwner \in [SbJobs -> SbUids \cup {Adapter}]
    /\ sbVerified \in [SbJobs -> Trees] /\ sbPublished \in [SbJobs -> Trees]
    /\ sbPool \subseteq SbUids
    /\ \A c \in sbContainers : c.uid \in SbUids

\* What validatePatch accepts for a job.
SbAccepts(j, patch) == patch \in Allowed /\ (sbKind[j] = "replacement" => patch \in Approved)

\* What is known of a checkout in each phase of its job; a job beyond the load
\* of its profile has one unless it is an ordinary task.
SbPhase(j) ==
    /\ sbJob[j].phase \in {"coding", "verifying"} => sbJob[j].uid \in SbUids
    /\ sbJob[j].phase \in {"submitted", "cloned", "validated", "verified"} => sbOwner[j] = Adapter
    /\ sbJob[j].phase \in {"validated", "verified"} => sbTree[j] = sbJob[j].patch
    /\ sbJob[j].phase \in {"validated", "verifying", "verified"} => SbAccepts(j, sbJob[j].patch)
    /\ sbJob[j].phase \in {"verifying", "verified"} => sbVerified[j] = sbJob[j].patch
    /\ sbJob[j].phase \notin {"submitted", "failed"} => sbJob[j].profile \/ sbKind[j] = "ordinary"
    /\ sbJob[j].phase = "published" =>
          /\ SbAccepts(j, sbPublished[j])
          /\ sbJob[j].profile => sbPublished[j] = sbVerified[j]
    /\ ~sbUp => sbJob[j].phase \in {"published", "failed"}

SbInv == SbTyped /\ \A j \in SbJobs : SbPhase(j)

LEMMA SandboxInit == SbInit => SbInv
BY SandboxAssumption DEF SbInit, SbInv, SbTyped, SbPhase, SbPhases, SbRow, Submitted, Trees, Allowed, Base

\* A step that moves one job and leaves the others.
SbOthersSame(j) ==
    \A i \in SbJobs \ {j} :
        /\ sbJob'[i] = sbJob[i] /\ sbTree'[i] = sbTree[i] /\ sbOwner'[i] = sbOwner[i]
        /\ sbVerified'[i] = sbVerified[i] /\ sbPublished'[i] = sbPublished[i]

LEMMA SandboxElsewhere ==
    ASSUME SbInv, NEW j \in SbJobs, SbOthersSame(j), sbUp' = sbUp, sbKind' = sbKind,
           SbPhase(j)', SbTyped'
    PROVE  SbInv'
BY DEF SbInv, SbOthersSame, SbPhase, SbAccepts

LEMMA SandboxRuns ==
    ASSUME SbInv, NEW j \in SbJobs, NEW phase \in SbPhases, RunContainer(j, phase),
           sbTree' = sbTree
    PROVE  /\ sbJob'[j].phase = phase /\ sbJob'[j].uid \in SbUids
           /\ sbJob'[j].patch = sbJob[j].patch /\ sbJob'[j].profile = sbJob[j].profile
           /\ sbJob' \in [SbJobs -> SbRow]
           /\ sbOwner' \in [SbJobs -> SbUids \cup {Adapter}]
           /\ sbPool' \subseteq SbUids
           /\ \A c \in sbContainers' : c.uid \in SbUids
           /\ \A i \in SbJobs \ {j} : sbJob'[i] = sbJob[i] /\ sbOwner'[i] = sbOwner[i]
<1>1. PICK uid \in sbPool :
         /\ sbPool' = sbPool \ {uid} /\ sbOwner' = [sbOwner EXCEPT ![j] = uid]
         /\ sbContainers' = sbContainers \cup {[job |-> j, uid |-> uid]}
         /\ sbJob' = [sbJob EXCEPT ![j].phase = phase, ![j].uid = uid]
  BY DEF RunContainer
<1>2. uid \in SbUids
  BY DEF SbInv, SbTyped
<1>3. [sbJob[j] EXCEPT !.phase = phase, !.uid = uid] \in SbRow
  BY <1>2, Zenon DEF SbInv, SbTyped, SbRow
<1>4. sbJob \in [SbJobs -> SbRow] /\ sbOwner \in [SbJobs -> SbUids \cup {Adapter}]
      /\ \A c \in sbContainers : c.uid \in SbUids
  BY DEF SbInv, SbTyped
<1> DEFINE row == [sbJob[j] EXCEPT !.phase = phase, !.uid = uid]
<1>5. sbJob' = [sbJob EXCEPT ![j] = row] /\ row \in SbRow
  BY <1>1, <1>3
<1>6. sbJob'[j] = row
  BY <1>4, <1>5, Zenon
<1>7. row.phase = phase /\ row.uid = uid /\ row.patch = sbJob[j].patch /\ row.profile = sbJob[j].profile
  BY <1>4 DEF SbRow
<1> HIDE DEF row
<1>8. sbJob' \in [SbJobs -> SbRow] /\ \A i \in SbJobs \ {j} : sbJob'[i] = sbJob[i]
  BY <1>4, <1>5
<1>9. /\ sbOwner' \in [SbJobs -> SbUids \cup {Adapter}]
      /\ \A i \in SbJobs \ {j} : sbOwner'[i] = sbOwner[i]
      /\ sbPool' \subseteq SbUids
      /\ \A c \in sbContainers' : c.uid \in SbUids
  BY <1>1, <1>2, <1>4 DEF SbInv, SbTyped
<1> QED BY <1>2, <1>6, <1>7, <1>8, <1>9

LEMMA SandboxLeaves ==
    ASSUME SbInv, NEW j \in SbJobs, sbJob[j].phase \in {"coding", "verifying"},
           NEW removed \in BOOLEAN, Leave(j, removed)
    PROVE  /\ sbOwner' \in [SbJobs -> SbUids \cup {Adapter}]
           /\ sbPool' \subseteq SbUids
           /\ \A c \in sbContainers' : c.uid \in SbUids
           /\ sbOwner'[j] = Adapter
           /\ \A i \in SbJobs \ {j} : sbOwner'[i] = sbOwner[i]
BY DEF SbInv, SbTyped, SbPhase, Leave

LEMMA SandboxPhase ==
    ASSUME SbInv, NEW j \in SbJobs, NEW phase \in SbPhases, Phase(j, phase)
    PROVE  /\ sbJob' \in [SbJobs -> SbRow]
           /\ sbJob'[j].phase = phase /\ sbJob'[j].patch = sbJob[j].patch
           /\ sbJob'[j].profile = sbJob[j].profile
           /\ \A i \in SbJobs \ {j} : sbJob'[i] = sbJob[i]
<1> DEFINE row == [sbJob[j] EXCEPT !.phase = phase, !.uid = Adapter]
<1>1. sbJob \in [SbJobs -> SbRow]
  BY DEF SbInv, SbTyped
<1>2. sbJob' = [sbJob EXCEPT ![j] = row]
  BY Zenon DEF Phase
<1>3. row \in SbRow
  BY <1>1, Zenon DEF SbRow
<1>4. row.phase = phase /\ row.patch = sbJob[j].patch /\ row.profile = sbJob[j].profile
  BY <1>1 DEF SbRow
<1> HIDE DEF row
<1> QED BY <1>1, <1>2, <1>3, <1>4

LEMMA SandboxValidated ==
    ASSUME SbInv, NEW j \in SbJobs, NEW patch \in Trees, Validated(j, patch)
    PROVE  /\ sbJob' \in [SbJobs -> SbRow]
           /\ sbJob'[j].phase = "validated" /\ sbJob'[j].patch = patch
           /\ sbJob'[j].profile = sbJob[j].profile
           /\ \A i \in SbJobs \ {j} : sbJob'[i] = sbJob[i]
<1> DEFINE row == [sbJob[j] EXCEPT !.phase = "validated", !.uid = Adapter, !.patch = patch]
<1>1. sbJob \in [SbJobs -> SbRow]
  BY DEF SbInv, SbTyped
<1>2. sbJob' = [sbJob EXCEPT ![j] = row]
  BY Zenon DEF Validated
<1>3. row \in SbRow
  BY <1>1, Zenon DEF SbRow, SbPhases
<1>4. row.phase = "validated" /\ row.patch = patch /\ row.profile = sbJob[j].profile
  BY <1>1 DEF SbRow
<1> HIDE DEF row
<1> QED BY <1>1, <1>2, <1>3, <1>4

\* A job that fails keeps nothing that matters.
LEMMA SandboxFails ==
    ASSUME SbInv, NEW j \in SbJobs, Phase(j, "failed"), SbTyped', sbUp' = sbUp, sbKind' = sbKind,
           sbTree' = sbTree, sbVerified' = sbVerified, sbPublished' = sbPublished, sbUp,
           \A i \in SbJobs \ {j} : sbOwner'[i] = sbOwner[i]
    PROVE  SbInv'
<1>1. sbJob'[j].phase = "failed" /\ \A i \in SbJobs \ {j} : sbJob'[i] = sbJob[i]
  BY SandboxPhase DEF SbPhases
<1>2. SbOthersSame(j)
  BY <1>1 DEF SbOthersSame
<1>3. SbPhase(j)'
  BY <1>1 DEF SbPhase
<1> QED BY <1>2, <1>3, SandboxElsewhere

LEMMA SandboxStep ==
    ASSUME SbInv, [SbNext]_sbVars
    PROVE  SbInv'
<1>T. /\ sbJob \in [SbJobs -> SbRow] /\ sbTree \in [SbJobs -> Trees] /\ sbProfiles \in BOOLEAN
      /\ sbOwner \in [SbJobs -> SbUids \cup {Adapter}]
      /\ sbVerified \in [SbJobs -> Trees] /\ sbPublished \in [SbJobs -> Trees]
      /\ sbPool \subseteq SbUids /\ \A c \in sbContainers : c.uid \in SbUids
      /\ \A j \in SbJobs : SbPhase(j)
  BY DEF SbInv, SbTyped
<1>1. CASE UNCHANGED sbVars
  BY <1>1 DEF sbVars, SbInv, SbTyped, SbPhase, SbAccepts
<1>2. CASE AdapterDies
  <2>1. \A j \in SbJobs : [sbJob[j] EXCEPT !.phase = "failed"] \in SbRow
    BY <1>T, Zenon DEF SbRow, SbPhases
  <2>2. sbJob' \in [SbJobs -> SbRow]
    BY <1>2, <1>T, <2>1 DEF AdapterDies
  <2>3. \A j \in SbJobs : \/ sbJob'[j].phase = "failed"
                          \/ sbJob'[j] = sbJob[j] /\ sbJob[j].phase = "published"
    BY <1>2, <1>T DEF AdapterDies, SbRow
  <2>4. \A j \in SbJobs : SbPhase(j)'
    BY <1>2, <1>T, <2>3 DEF AdapterDies, SbPhase, SbAccepts
  <2> QED BY <1>2, <1>T, <2>2, <2>4 DEF AdapterDies, SbInv, SbTyped
<1>3. CASE CleanupOrphanSandboxes
  <2>1. Submitted \in SbRow /\ Submitted.phase = "submitted"
    BY DEF SbRow, SbPhases, Trees, Submitted
  <2>2. sbJob' \in [SbJobs -> SbRow]
    BY <1>3, <1>T, <2>1 DEF CleanupOrphanSandboxes
  <2>3. \A j \in SbJobs : \/ sbJob'[j].phase = "submitted"
                          \/ sbJob'[j] = sbJob[j] /\ sbJob[j].phase = "published" /\ sbVerified'[j] = sbVerified[j]
    BY <1>3, <1>T, <2>1 DEF CleanupOrphanSandboxes, SbPhase
  <2>4. \A j \in SbJobs : SbPhase(j)'
    BY <1>3, <1>T, <2>3 DEF CleanupOrphanSandboxes, SbPhase, SbAccepts
  <2> QED BY <1>3, <1>T, <2>2, <2>4 DEF CleanupOrphanSandboxes, SbInv, SbTyped, Trees
<1>4. ASSUME NEW c \in sbContainers, NEW j \in SbJobs, NEW content \in Trees, Write(c, j, content)
      PROVE  SbInv'
  <2>1. sbOwner[j] # Adapter
    BY <1>4, <1>T, SandboxAssumption DEF Write
  <2> QED BY <1>4, <1>T, <2>1 DEF Write, SbInv, SbTyped, SbPhase, SbAccepts
<1>5. ASSUME NEW j \in SbJobs, runAgent(j) PROVE SbInv'
  <2>1. /\ sbJob'[j].phase = "coding" /\ sbJob'[j].uid \in SbUids
        /\ sbJob'[j].profile = sbJob[j].profile
    BY <1>5, <1>T, SandboxRuns DEF runAgent, SbPhases
  <2>2. SbTyped' /\ SbOthersSame(j)
    BY <1>5, <1>T, SandboxRuns DEF runAgent, SbPhases, SbTyped, SbOthersSame
  <2>3. SbPhase(j)'
    BY <1>5, <1>T, <2>1 DEF runAgent, SbPhase
  <2> QED BY <1>5, <2>2, <2>3, SandboxElsewhere DEF runAgent
<1>6. ASSUME NEW j \in SbJobs, runAgentInDocker(j) PROVE SbInv'
  <2>1. PICK removed \in BOOLEAN, ok \in BOOLEAN :
          /\ Leave(j, removed)
          /\ IF removed /\ ok /\ validatePatch(j) THEN Validated(j, sbTree[j]) ELSE Phase(j, "failed")
    BY <1>6 DEF runAgentInDocker
  <2>2. /\ sbOwner' \in [SbJobs -> SbUids \cup {Adapter}] /\ sbPool' \subseteq SbUids
        /\ \A c \in sbContainers' : c.uid \in SbUids
        /\ sbOwner'[j] = Adapter /\ \A i \in SbJobs \ {j} : sbOwner'[i] = sbOwner[i]
    BY <1>6, <2>1, SandboxLeaves DEF runAgentInDocker
  <2>3. CASE removed /\ ok /\ validatePatch(j)
    <3>1. /\ sbJob' \in [SbJobs -> SbRow]
          /\ sbJob'[j].phase = "validated" /\ sbJob'[j].patch = sbTree[j]
          /\ sbJob'[j].profile = sbJob[j].profile
          /\ \A i \in SbJobs \ {j} : sbJob'[i] = sbJob[i]
      BY <1>T, <2>1, <2>3, SandboxValidated
    <3>2. SbTyped' /\ SbOthersSame(j)
      BY <1>6, <1>T, <2>2, <3>1 DEF runAgentInDocker, SbTyped, SbOthersSame
    <3>3. SbPhase(j)'
      BY <1>6, <1>T, <2>2, <2>3, <3>1 DEF runAgentInDocker, SbPhase, SbAccepts, validatePatch
    <3> QED BY <1>6, <3>2, <3>3, SandboxElsewhere DEF runAgentInDocker
  <2>4. CASE Phase(j, "failed")
    <3>1. SbTyped'
      BY <1>6, <1>T, <2>2, <2>4, SandboxPhase DEF runAgentInDocker, SbTyped, SbPhases
    <3> QED BY <1>6, <2>2, <2>4, <3>1, SandboxFails DEF runAgentInDocker
  <2> QED BY <2>1, <2>3, <2>4
<1>7. ASSUME NEW j \in SbJobs, runVerification(j) PROVE SbInv'
  <2>1. /\ sbJob'[j].phase = "verifying" /\ sbJob'[j].uid \in SbUids
        /\ sbJob'[j].patch = sbJob[j].patch /\ sbJob'[j].profile = sbJob[j].profile
    BY <1>7, <1>T, SandboxRuns DEF runVerification, SbPhases
  <2>2. SbTyped' /\ SbOthersSame(j)
    BY <1>7, <1>T, SandboxRuns DEF runVerification, SbPhases, SbTyped, SbOthersSame
  <2>3. SbPhase(j)'
    BY <1>7, <1>T, <2>1 DEF runVerification, SbPhase, SbAccepts
  <2> QED BY <1>7, <2>2, <2>3, SandboxElsewhere DEF runVerification
<1>8. ASSUME NEW j \in SbJobs, verifyAndRepair(j) PROVE SbInv'
  <2> DEFINE Repair == sbJob' = [sbJob EXCEPT ![j].phase = "repair", ![j].uid = Adapter,
                                              ![j].cycle = @ + 1]
  <2>1. PICK removed \in BOOLEAN, verdict \in {"pass", "fail", "unavailable"} :
          /\ Leave(j, removed)
          /\ IF ~removed \/ sbTree[j] # sbJob[j].patch \/ verdict = "unavailable" THEN Phase(j, "failed")
             ELSE IF verdict = "pass" THEN Phase(j, "verified")
             ELSE IF sbJob[j].cycle = repairBudget(j) THEN Phase(j, "failed")
             ELSE Repair
    BY <1>8 DEF verifyAndRepair
  <2>2. /\ sbOwner' \in [SbJobs -> SbUids \cup {Adapter}] /\ sbPool' \subseteq SbUids
        /\ \A c \in sbContainers' : c.uid \in SbUids
        /\ sbOwner'[j] = Adapter /\ \A i \in SbJobs \ {j} : sbOwner'[i] = sbOwner[i]
    BY <1>8, <2>1, SandboxLeaves DEF verifyAndRepair
  <2>3. CASE Phase(j, "failed")
    <3>1. SbTyped'
      BY <1>8, <1>T, <2>2, <2>3, SandboxPhase DEF verifyAndRepair, SbTyped, SbPhases
    <3> QED BY <1>8, <2>2, <2>3, <3>1, SandboxFails DEF verifyAndRepair
  <2>4. CASE Phase(j, "verified") /\ sbTree[j] = sbJob[j].patch
    <3>1. /\ sbJob' \in [SbJobs -> SbRow] /\ sbJob'[j].phase = "verified"
          /\ sbJob'[j].patch = sbJob[j].patch /\ sbJob'[j].profile = sbJob[j].profile
          /\ \A i \in SbJobs \ {j} : sbJob'[i] = sbJob[i]
      BY <2>4, SandboxPhase DEF SbPhases
    <3>2. SbTyped' /\ SbOthersSame(j)
      BY <1>8, <1>T, <2>2, <3>1 DEF verifyAndRepair, SbTyped, SbOthersSame
    <3>3. SbPhase(j)'
      BY <1>8, <1>T, <2>2, <2>4, <3>1 DEF verifyAndRepair, SbPhase, SbAccepts
    <3> QED BY <1>8, <3>2, <3>3, SandboxElsewhere DEF verifyAndRepair
  <2>5. CASE Repair
    <3> DEFINE row == [sbJob[j] EXCEPT !.phase = "repair", !.uid = Adapter, !.cycle = @ + 1]
    <3>1. sbJob' = [sbJob EXCEPT ![j] = row]
      BY <2>5, Zenon
    <3>2. sbJob[j].cycle + 1 \in Nat
      BY <1>T DEF SbRow
    <3>3. row \in SbRow
      <4>1. "repair" \in SbPhases
        BY DEF SbPhases
      <4> QED BY <1>T, <3>2, <4>1 DEF SbRow
    <3>4. row.phase = "repair" /\ row.profile = sbJob[j].profile
      BY <1>T DEF SbRow
    <3> HIDE DEF row
    <3>5. SbTyped' /\ SbOthersSame(j) /\ sbJob'[j] = row
      BY <1>8, <1>T, <2>2, <3>1, <3>3 DEF verifyAndRepair, SbTyped, SbOthersSame
    <3>6. SbPhase(j)'
      BY <1>8, <1>T, <3>4, <3>5 DEF verifyAndRepair, SbPhase
    <3> QED BY <1>8, <3>5, <3>6, SandboxElsewhere DEF verifyAndRepair
  <2> HIDE DEF Repair
  <2> QED BY <2>1, <2>3, <2>4, <2>5
<1>9. ASSUME NEW j \in SbJobs, PublishPatch(j) PROVE SbInv'
  <2>1. /\ sbJob' \in [SbJobs -> SbRow] /\ sbJob'[j].phase = "published"
        /\ sbJob'[j].profile = sbJob[j].profile
        /\ \A i \in SbJobs \ {j} : sbJob'[i] = sbJob[i]
    BY <1>9, SandboxPhase DEF PublishPatch, SbPhases
  <2>2. SbTyped' /\ SbOthersSame(j)
    BY <1>9, <1>T, <2>1 DEF PublishPatch, SbTyped, SbOthersSame
  <2>3. SbPhase(j)'
    BY <1>9, <1>T, <2>1 DEF PublishPatch, SbPhase, SbAccepts
  <2> QED BY <1>9, <2>2, <2>3, SandboxElsewhere DEF PublishPatch
<1>10. ASSUME NEW j \in SbJobs, loadVerificationProfile(j) PROVE SbInv'
  <2>1. CASE Phase(j, "failed")
    <3>1. SbTyped'
      BY <1>10, <1>T, <2>1, SandboxPhase DEF loadVerificationProfile, SbTyped, SbPhases
    <3> QED BY <1>10, <2>1, <3>1, SandboxFails DEF loadVerificationProfile
  <2> DEFINE row == [sbJob[j] EXCEPT !.phase = "cloned", !.profile = sbProfiles]
  <2>2. CASE sbJob' = [sbJob EXCEPT ![j] = row] /\ (sbProfiles \/ sbKind[j] = "ordinary")
    <3>1. row \in SbRow
      <4>1. "cloned" \in SbPhases
        BY DEF SbPhases
      <4> QED BY <1>T, <4>1 DEF SbRow
    <3>2. row.phase = "cloned" /\ row.profile = sbProfiles
      BY <1>T DEF SbRow
    <3> HIDE DEF row
    <3>3. SbTyped' /\ SbOthersSame(j) /\ sbJob'[j] = row
      BY <1>10, <1>T, <2>2, <3>1 DEF loadVerificationProfile, SbTyped, SbOthersSame
    <3>4. SbPhase(j)'
      BY <1>10, <1>T, <2>2, <3>2, <3>3 DEF loadVerificationProfile, SbPhase
    <3> QED BY <1>10, <3>3, <3>4, SandboxElsewhere DEF loadVerificationProfile
  <2>3. \/ Phase(j, "failed")
        \/ sbJob' = [sbJob EXCEPT ![j] = row] /\ (sbProfiles \/ sbKind[j] = "ordinary")
    BY <1>10, Zenon DEF loadVerificationProfile
  <2> HIDE DEF row
  <2> QED BY <2>1, <2>2, <2>3
<1>11. ASSUME NEW j \in SbJobs, applyCampaignReplacement(j) PROVE SbInv'
  <2>1. CASE sbTree' = sbTree /\ Phase(j, "failed")
    <3>1. SbTyped'
      BY <1>11, <1>T, <2>1, SandboxPhase DEF applyCampaignReplacement, SbTyped, SbPhases
    <3> QED BY <1>11, <2>1, <3>1, SandboxFails DEF applyCampaignReplacement
  <2>2. CASE sbTree' = [sbTree EXCEPT ![j] = Replacement] /\ Validated(j, Replacement)
    <3>1. Replacement \in Trees /\ Replacement \in Allowed /\ Replacement \in Approved
      BY DEF Trees, Allowed, Replacement, Approved
    <3>2. /\ sbJob' \in [SbJobs -> SbRow]
          /\ sbJob'[j].phase = "validated" /\ sbJob'[j].patch = Replacement
          /\ sbJob'[j].profile = sbJob[j].profile
          /\ \A i \in SbJobs \ {j} : sbJob'[i] = sbJob[i]
      BY <2>2, <3>1, SandboxValidated
    <3>3. SbTyped' /\ SbOthersSame(j) /\ sbTree'[j] = Replacement
      BY <1>11, <1>T, <2>2, <3>1, <3>2 DEF applyCampaignReplacement, SbTyped, SbOthersSame
    <3>4. SbPhase(j)'
      BY <1>11, <1>T, <3>1, <3>2, <3>3 DEF applyCampaignReplacement, SbPhase, SbAccepts
    <3> QED BY <1>11, <3>3, <3>4, SandboxElsewhere DEF applyCampaignReplacement
  <2> QED BY <1>11, <2>1, <2>2 DEF applyCampaignReplacement
<1>12. ASSUME NEW j \in SbJobs, ExecuteFails(j) PROVE SbInv'
  <2>1. SbTyped'
    BY <1>12, <1>T, SandboxPhase DEF ExecuteFails, SbTyped, SbPhases
  <2> QED BY <1>12, <2>1, SandboxFails DEF ExecuteFails
<1> QED BY <1>1, <1>2, <1>3, <1>4, <1>5, <1>6, <1>7, <1>8, <1>9, <1>10, <1>11, <1>12 DEF SbNext

\* AgentSandbox: whatever containers write, and however often the adapter dies
\* or fails to remove one, what a job publishes is allowed, and the patch that
\* its verification ran on wherever a profile was loaded or the workflow is
\* complete.
THEOREM PublishedVerified == Spec => []PublishedWasVerified
<1>1. Init => SbInv
  BY SandboxInit DEF Init
<1>2. SbInv /\ [Next]_vars => SbInv'
  BY SandboxStep, PartsMove
<1>3. SbInv => PublishedWasVerified
  BY DEF SbInv, SbPhase, SbAccepts, PublishedWasVerified
<1> QED BY <1>1, <1>2, <1>3, PTL DEF Spec

-----------------------------------------------------------------------------
(* ModelBroker.                                                            *)

MbFlying == {"sent", "backoff", "streaming"}
MbRow == [stage : MbFlying \cup {"new", "done"}, tokens : Nat, bytes : Nat, retry : Nat]
MbCounters == [requests : Nat, tokens : Int, bytes : Nat]

MbTyped ==
    /\ mbCall \in [MbCalls -> MbRow]
    /\ mbMutex \in MbCalls \cup {NoCall}
    /\ mbReserved \in MbCounters
    /\ mbBlocked \in BOOLEAN /\ mbSent \in Nat /\ mbSpent \in Nat

\* The call in flight holds the mutex, and the latch finds none in flight.
MbSerial ==
    /\ \A c \in MbCalls : mbCall[c].stage \in MbFlying => mbMutex = c
    /\ mbBlocked => mbMutex = NoCall

\* While the latch is open the counters are within their ceilings and cover
\* what was sent and spent, the call in flight at its whole token limit and a
\* retry that is still to be sent.
MbCovered ==
    ~mbBlocked =>
        /\ Within(mbReserved)
        /\ mbSent <= mbReserved.requests /\ mbSpent <= mbReserved.tokens
        /\ \A c \in MbCalls : mbCall[c].stage \in MbFlying =>
              mbSpent + mbCall[c].tokens <= mbReserved.tokens
        /\ \A c \in MbCalls : mbCall[c].stage = "backoff" =>
              mbSent + 1 <= mbReserved.requests

MbInv == MbTyped /\ MbSerial /\ MbCovered /\ SpendWithinCeiling

LEMMA LimitsAreNumbers ==
    /\ modelBrokerRequestLimit \in Nat /\ modelBrokerOutputTokens \in Nat
    /\ modelBrokerTotalOutputTokens \in Nat /\ modelBrokerTotalRequestBytes \in Nat
    /\ modelUpstreamRetries \in Nat /\ NoCall \notin MbCalls
BY BrokerAssumption

LEMMA ModelInit == MbInit => MbInv
<1> SUFFICES ASSUME MbInit PROVE MbInv
  OBVIOUS
<1>1. MbTyped
  <2>1. [stage |-> "new", tokens |-> 0, bytes |-> 0, retry |-> 0] \in MbRow
    BY DEF MbRow
  <2>2. mbCall \in [MbCalls -> MbRow]
    BY <2>1 DEF MbInit
  <2>3. mbReserved \in MbCounters /\ mbSent \in Nat /\ mbSpent \in Nat
    BY DEF MbInit, MbCounters
  <2> QED BY <2>2, <2>3 DEF MbInit, MbTyped
<1>2. \A c \in MbCalls : mbCall[c].stage = "new"
  BY DEF MbInit
<1>3. MbSerial
  BY <1>2 DEF MbInit, MbSerial, MbFlying
<1>4. Within(mbReserved) /\ mbReserved.requests = 0 /\ mbReserved.tokens = 0
  BY LimitsAreNumbers DEF MbInit, Within
<1>5. MbCovered /\ SpendWithinCeiling
  BY <1>2, <1>4, LimitsAreNumbers DEF MbInit, MbCovered, SpendWithinCeiling, MbFlying
<1> QED BY <1>1, <1>3, <1>5 DEF MbInv

\* A reservation that is within the ceilings added all of its parts.
LEMMA ReserveAdds ==
    ASSUME NEW r \in MbCounters, NEW tokens \in Nat, NEW bytes \in Nat
    PROVE  /\ Reserve(r, tokens, bytes) \in MbCounters
           /\ Within(Reserve(r, tokens, bytes)) =>
                 /\ Reserve(r, tokens, bytes).requests = r.requests + 1
                 /\ Reserve(r, tokens, bytes).tokens = r.tokens + tokens
<1> DEFINE called == [r EXCEPT !.requests = @ + 1]
           spent == [called EXCEPT !.tokens = @ + tokens]
           full == [spent EXCEPT !.bytes = @ + bytes]
<1>1. Reserve(r, tokens, bytes) = IF ~Within(called) THEN called
                                  ELSE IF ~Within(spent) THEN spent ELSE full
  BY Zenon DEF Reserve
<1>2. called \in MbCounters /\ called.requests = r.requests + 1 /\ called.tokens = r.tokens
  BY DEF MbCounters
<1> HIDE DEF called
<1>3. spent \in MbCounters /\ spent.requests = r.requests + 1 /\ spent.tokens = r.tokens + tokens
  BY <1>2 DEF MbCounters
<1> HIDE DEF spent
<1>4. full \in MbCounters /\ full.requests = r.requests + 1 /\ full.tokens = r.tokens + tokens
  BY <1>3 DEF MbCounters
<1> HIDE DEF full
<1> QED BY <1>1, <1>2, <1>3, <1>4

\* A call that ends without a further claim on the counters.
LEMMA CallEnds ==
    ASSUME MbInv, NEW c \in MbCalls, Ends(c), mbCall[c].stage \in MbFlying
    PROVE  /\ mbCall' \in [MbCalls -> MbRow] /\ mbMutex' = NoCall
           /\ \A d \in MbCalls : mbCall'[d].stage \notin MbFlying
           /\ ~mbBlocked /\ mbMutex = c
<1>1. mbMutex = c /\ mbCall \in [MbCalls -> MbRow] /\ ~mbBlocked
  BY LimitsAreNumbers DEF MbInv, MbTyped, MbSerial
<1>2. \A d \in MbCalls : d # c => mbCall[d].stage \notin MbFlying
  BY <1>1 DEF MbInv, MbSerial
<1>3. [mbCall[c] EXCEPT !.stage = "done"] \in MbRow
  BY <1>1, Zenon DEF MbRow
<1>4. /\ mbCall' \in [MbCalls -> MbRow] /\ mbMutex' = NoCall
      /\ mbCall'[c].stage = "done" /\ \A d \in MbCalls : d # c => mbCall'[d] = mbCall[d]
  BY <1>1, <1>3 DEF Ends, MbRow
<1> QED BY <1>1, <1>2, <1>4 DEF MbFlying

LEMMA ModelStep ==
    ASSUME MbInv, [MbNext]_mbVars
    PROVE  MbInv' /\ LatchIsFinal
<1>T. /\ mbCall \in [MbCalls -> MbRow] /\ mbMutex \in MbCalls \cup {NoCall}
      /\ mbReserved \in MbCounters /\ mbBlocked \in BOOLEAN /\ mbSent \in Nat /\ mbSpent \in Nat
  BY DEF MbInv, MbTyped
<1>I. MbSerial /\ MbCovered /\ SpendWithinCeiling
  BY DEF MbInv
<1>F. \A c \in MbCalls : mbCall[c].stage \in MbFlying => ~mbBlocked /\ mbMutex = c
  BY <1>I, LimitsAreNumbers DEF MbSerial
<1>D. \A c \in MbCalls : [mbCall[c] EXCEPT !.stage = "done"] \in MbRow
  BY <1>T, Zenon DEF MbRow
<1>1. CASE UNCHANGED mbVars
  BY <1>1 DEF mbVars, MbInv, MbTyped, MbSerial, MbCovered, SpendWithinCeiling, LatchIsFinal
<1>2. ASSUME NEW c \in MbCalls, mbCall[c].stage = "new", requestMuFree,
             mbCall' = [mbCall EXCEPT ![c].stage = "done"], mbMutex' = mbMutex,
             mbSent' = mbSent, mbSpent' = mbSpent, mbReserved' \in MbCounters,
             mbBlocked' \in BOOLEAN, mbBlocked => mbBlocked',
             ~mbBlocked' => /\ Within(mbReserved') /\ mbReserved'.requests >= mbReserved.requests
                            /\ mbReserved'.tokens >= mbReserved.tokens
      PROVE  MbInv' /\ LatchIsFinal
  <2>1. \A d \in MbCalls : mbCall[d].stage \notin MbFlying
    BY <1>2, <1>F, LimitsAreNumbers DEF requestMuFree
  <2>2. mbCall' \in [MbCalls -> MbRow] /\ \A d \in MbCalls : mbCall'[d].stage \notin MbFlying
    BY <1>T, <1>D, <1>2, <2>1 DEF MbRow, MbFlying
  <2>3. MbTyped' /\ MbSerial' /\ SpendWithinCeiling'
    BY <1>T, <1>I, <1>2, <2>2 DEF MbTyped, MbSerial, SpendWithinCeiling, requestMuFree
  <2>4. MbCovered'
    BY <1>T, <1>I, <1>2, <2>2 DEF MbCovered, MbCounters, MbFlying
  <2> QED BY <1>2, <2>3, <2>4 DEF MbInv, LatchIsFinal
<1>3. ASSUME NEW c \in MbCalls, Refuse(c) PROVE MbInv' /\ LatchIsFinal
  BY <1>T, <1>2, <1>3 DEF Refuse
<1>4. ASSUME NEW c \in MbCalls, RejectBody(c) PROVE MbInv' /\ LatchIsFinal
  <2> DEFINE called == [mbReserved EXCEPT !.requests = @ + 1]
  <2>1. called \in MbCounters /\ called.requests = mbReserved.requests + 1
        /\ called.tokens = mbReserved.tokens
    BY <1>T DEF MbCounters
  <2>2. mbReserved' = called /\ mbBlocked' = ~Within(called)
    BY <1>4 DEF RejectBody
  <2> HIDE DEF called
  <2>3. mbBlocked' \in BOOLEAN /\ (~mbBlocked' => Within(called)) /\ ~mbBlocked
    BY <1>4, <2>2, Zenon DEF RejectBody
  <2>4. mbReserved.requests \in Nat /\ mbReserved.tokens \in Int
    BY <1>T DEF MbCounters
  <2>5. /\ mbCall[c].stage = "new" /\ requestMuFree
        /\ mbCall' = [mbCall EXCEPT ![c].stage = "done"] /\ mbMutex' = mbMutex
        /\ mbSent' = mbSent /\ mbSpent' = mbSpent
    BY <1>4 DEF RejectBody
  <2>6. mbReserved' \in MbCounters
        /\ mbReserved'.requests >= mbReserved.requests /\ mbReserved'.tokens >= mbReserved.tokens
    BY <2>1, <2>2, <2>4
  <2>7. mbBlocked' \in BOOLEAN /\ (mbBlocked => mbBlocked') /\ (~mbBlocked' => Within(mbReserved'))
    BY <2>2, <2>3
  <2> QED BY <1>2, <2>5, <2>6, <2>7
<1>5. ASSUME NEW c \in MbCalls, NEW tokens \in 1 .. modelBrokerOutputTokens, NEW bytes \in 1 .. 2,
             handle(c, tokens, bytes)
      PROVE  MbInv' /\ LatchIsFinal
  <2> DEFINE r == Reserve(mbReserved, tokens, bytes)
             row == [stage |-> "sent", tokens |-> tokens, bytes |-> bytes, retry |-> 0]
  <2>1. tokens \in Nat /\ bytes \in Nat
    BY LimitsAreNumbers
  <2>2. r \in MbCounters
        /\ (Within(r) => r.requests = mbReserved.requests + 1 /\ r.tokens = mbReserved.tokens + tokens)
    BY <1>T, <2>1, ReserveAdds
  <2>3. /\ mbCall[c].stage = "new" /\ requestMuFree /\ ~mbBlocked
        /\ mbReserved' = r /\ mbSpent' = mbSpent
    BY <1>5 DEF handle
  <2>4. mbBlocked' = ~Within(r)
    BY <1>5 DEF handle
  <2>5. Within(r) => mbCall' = [mbCall EXCEPT ![c] = row] /\ mbMutex' = c /\ mbSent' = mbSent + 1
    BY <1>5 DEF handle
  <2>6. ~Within(r) => /\ mbCall' = [mbCall EXCEPT ![c].stage = "done"]
                      /\ mbMutex' = mbMutex /\ mbSent' = mbSent
    BY <1>5 DEF handle
  <2> HIDE DEF r
  <2>7. mbBlocked' \in BOOLEAN /\ (mbBlocked' <=> ~Within(r))
    BY <2>4, Zenon
  <2>8. CASE ~Within(r)
    BY <1>2, <2>2, <2>3, <2>6, <2>7, <2>8
  <2>9. CASE Within(r)
    <3>1. \A d \in MbCalls : mbCall[d].stage \notin MbFlying
      BY <1>F, <2>3, LimitsAreNumbers DEF requestMuFree
    <3>2. /\ mbCall' \in [MbCalls -> MbRow]
          /\ mbCall'[c].stage = "sent" /\ mbCall'[c].tokens = tokens
          /\ \A d \in MbCalls \ {c} : mbCall'[d].stage \notin MbFlying
      BY <1>T, <2>1, <2>5, <2>9, <3>1 DEF MbRow, MbFlying
    <3>3. MbTyped' /\ MbSerial'
      BY <1>T, <2>2, <2>3, <2>5, <2>7, <2>9, <3>2 DEF MbTyped, MbSerial
    <3>4. /\ mbSent <= mbReserved.requests /\ mbSpent <= mbReserved.tokens
          /\ mbReserved.requests \in Nat /\ mbReserved.tokens \in Int
      BY <1>T, <1>I, <2>3 DEF MbCovered, MbCounters
    <3>5. MbCovered'
      <4>1. Within(mbReserved') /\ mbSent' <= mbReserved'.requests /\ mbSpent' <= mbReserved'.tokens
        BY <1>T, <2>1, <2>2, <2>3, <2>5, <2>9, <3>4
      <4>2. mbSpent' + mbCall'[c].tokens <= mbReserved'.tokens
        BY <1>T, <2>1, <2>2, <2>3, <2>9, <3>2, <3>4
      <4> QED BY <3>2, <4>1, <4>2 DEF MbCovered, MbFlying
    <3>6. SpendWithinCeiling'
      BY <1>T, <1>I, <2>2, <2>3, <2>5, <2>9, <3>4, LimitsAreNumbers DEF SpendWithinCeiling, Within
    <3> QED BY <2>3, <3>3, <3>5, <3>6 DEF MbInv, LatchIsFinal
  <2> QED BY <2>8, <2>9

<1>C. ASSUME NEW c \in MbCalls, mbCall[c].stage \in MbFlying
      PROVE  /\ mbCall[c].tokens \in Nat /\ mbReserved.requests \in Nat /\ mbReserved.tokens \in Int
             /\ mbSpent + mbCall[c].tokens <= mbReserved.tokens
             /\ mbSent <= mbReserved.requests
             /\ mbReserved.requests <= modelBrokerRequestLimit
             /\ mbReserved.tokens <= modelBrokerTotalOutputTokens
             /\ \A d \in MbCalls \ {c} : mbCall[d].stage \notin MbFlying
  BY <1>C, <1>T, <1>I, <1>F DEF MbCovered, Within, MbCounters, MbRow
<1>6. ASSUME NEW c \in MbCalls, mbCall[c].stage \in MbFlying, Ends(c), mbBlocked' = TRUE,
             mbSent' = mbSent, mbSpent' \in Nat, mbSpent' <= modelBrokerTotalOutputTokens,
             mbReserved' \in MbCounters
      PROVE  MbInv' /\ LatchIsFinal
  <2>1. mbCall' \in [MbCalls -> MbRow] /\ mbMutex' = NoCall /\ ~mbBlocked
        /\ \A d \in MbCalls : mbCall'[d].stage \notin MbFlying
    BY <1>6, CallEnds
  <2>2. MbTyped' /\ MbSerial' /\ MbCovered'
    BY <1>T, <1>6, <2>1 DEF MbTyped, MbSerial, MbCovered
  <2>3. SpendWithinCeiling'
    BY <1>I, <1>6 DEF SpendWithinCeiling
  <2> QED BY <2>1, <2>2, <2>3 DEF MbInv, LatchIsFinal
<1>7. ASSUME NEW c \in MbCalls, TransportFails(c) PROVE MbInv' /\ LatchIsFinal
  <2>1. mbCall[c].stage \in MbFlying
    BY <1>7 DEF TransportFails, MbFlying
  <2>2. PICK used \in 0 .. mbCall[c].tokens : mbSpent' = mbSpent + used
    BY <1>7 DEF TransportFails
  <2>3. mbSpent' \in Nat /\ mbSpent' <= modelBrokerTotalOutputTokens
    BY <1>T, <1>C, <2>1, <2>2, LimitsAreNumbers
  <2> QED BY <1>T, <1>6, <1>7, <2>1, <2>3 DEF TransportFails
<1>8. ASSUME NEW c \in MbCalls, TerminalAnswer(c) PROVE MbInv' /\ LatchIsFinal
  BY <1>T, <1>I, <1>6, <1>8 DEF TerminalAnswer, MbFlying, SpendWithinCeiling
<1>9. ASSUME NEW c \in MbCalls, sendModelRequest(c) PROVE MbInv' /\ LatchIsFinal
  <2> DEFINE r == Reserve(mbReserved, mbCall[c].tokens, mbCall[c].bytes)
  <2>1. mbCall[c].tokens \in Nat /\ mbCall[c].bytes \in Nat /\ mbCall[c].retry \in Nat
    BY <1>T DEF MbRow
  <2>2. r \in MbCounters
        /\ (Within(r) => /\ r.requests = mbReserved.requests + 1
                         /\ r.tokens = mbReserved.tokens + mbCall[c].tokens)
    BY <1>T, <2>1, ReserveAdds
  <2>3. mbCall[c].stage = "sent" /\ mbSent' = mbSent /\ mbSpent' = mbSpent
    BY <1>9 DEF sendModelRequest
  <2>4. IF mbCall[c].retry < modelUpstreamRetries
        THEN mbReserved' = r /\ mbBlocked' = ~Within(r)
        ELSE mbBlocked' = TRUE /\ UNCHANGED mbReserved
    BY <1>9 DEF sendModelRequest
  <2>5. mbBlocked' => Ends(c)
    BY <1>9 DEF sendModelRequest
  <2>6. ~mbBlocked' => /\ mbCall' = [mbCall EXCEPT ![c].stage = "backoff", ![c].retry = @ + 1]
                       /\ mbMutex' = mbMutex
    BY <1>9, Zenon DEF sendModelRequest
  <2> HIDE DEF r
  <2>7. \/ mbBlocked' = TRUE /\ (mbReserved' = r \/ mbReserved' = mbReserved)
        \/ mbBlocked' = FALSE /\ mbReserved' = r /\ Within(r)
    BY <2>4, Zenon
  <2>8. mbCall[c].stage \in MbFlying
    BY <2>3 DEF MbFlying
  <2>9. CASE mbBlocked' = TRUE
    <3>1. Ends(c) /\ mbReserved' \in MbCounters
      BY <1>T, <2>2, <2>5, <2>7, <2>9
    <3>2. mbSpent' \in Nat /\ mbSpent' <= modelBrokerTotalOutputTokens
      BY <1>T, <1>I, <2>3 DEF SpendWithinCeiling
    <3> QED BY <1>6, <2>3, <2>8, <2>9, <3>1, <3>2
  <2>10. CASE mbBlocked' = FALSE
    <3> DEFINE row == [mbCall[c] EXCEPT !.stage = "backoff", !.retry = @ + 1]
    <3>1. mbCall' = [mbCall EXCEPT ![c] = row] /\ mbMutex' = mbMutex
      BY <2>6, <2>10, Zenon
    <3>a. mbCall[c].retry + 1 \in Nat
      BY <2>1
    <3>b. row \in MbRow
      BY <1>T, <3>a, Zenon DEF MbRow, MbFlying
    <3>c. row.stage = "backoff" /\ row.tokens = mbCall[c].tokens
      BY <1>T DEF MbRow
    <3>2. row \in MbRow /\ row.stage = "backoff" /\ row.tokens = mbCall[c].tokens
      BY <3>b, <3>c
    <3> HIDE DEF row
    <3>3. /\ mbCall' \in [MbCalls -> MbRow] /\ mbCall'[c] = row
          /\ \A d \in MbCalls \ {c} : mbCall'[d] = mbCall[d]
      BY <1>T, <3>1, <3>2
    <3>4. mbReserved' = r /\ Within(r)
      BY <2>7, <2>10
    <3>5. MbTyped' /\ MbSerial'
      <4>1. mbMutex = c
        BY <1>F, <2>8
      <4>2. \A d \in MbCalls : mbCall'[d].stage \in MbFlying => mbMutex' = d
        BY <1>C, <2>8, <3>1, <3>3, <4>1
      <4> QED BY <1>T, <2>2, <2>3, <2>10, <3>1, <3>3, <3>4, <4>2 DEF MbTyped, MbSerial
    <3>6. /\ r.requests = mbReserved.requests + 1 /\ r.tokens = mbReserved.tokens + mbCall[c].tokens
          /\ mbCall[c].tokens \in Nat /\ mbReserved.requests \in Nat /\ mbReserved.tokens \in Int
          /\ mbSpent + mbCall[c].tokens <= mbReserved.tokens /\ mbSent <= mbReserved.requests
          /\ \A d \in MbCalls \ {c} : mbCall[d].stage \notin MbFlying
      BY <1>C, <2>2, <2>8, <3>4
    <3>7. /\ mbSent' + 1 <= r.requests /\ mbSent' <= r.requests /\ mbSpent' <= r.tokens
          /\ mbSpent' + mbCall'[c].tokens <= r.tokens
      BY <1>T, <2>3, <3>2, <3>3, <3>6
    <3>8. MbCovered'
      BY <3>2, <3>3, <3>4, <3>6, <3>7 DEF MbCovered, MbFlying
    <3>9. SpendWithinCeiling' /\ ~mbBlocked
      BY <1>F, <1>I, <2>3, <2>8 DEF SpendWithinCeiling
    <3> QED BY <3>5, <3>8, <3>9 DEF MbInv, LatchIsFinal
  <2> QED BY <2>7, <2>9, <2>10
<1>10. ASSUME NEW c \in MbCalls, mbCall[c].stage \in MbFlying, Ends(c), mbBlocked' = mbBlocked,
              mbSent' = mbSent, mbReserved' \in MbCounters, Within(mbReserved'),
              mbReserved'.requests = mbReserved.requests,
              mbSpent' \in Nat, mbSpent' <= mbReserved'.tokens
       PROVE  MbInv' /\ LatchIsFinal
  <2>1. mbCall' \in [MbCalls -> MbRow] /\ mbMutex' = NoCall /\ ~mbBlocked
        /\ \A d \in MbCalls : mbCall'[d].stage \notin MbFlying
    BY <1>10, CallEnds
  <2>2. MbTyped' /\ MbSerial'
    BY <1>T, <1>10, <2>1 DEF MbTyped, MbSerial
  <2>3. MbCovered' /\ SpendWithinCeiling'
    BY <1>T, <1>C, <1>10, <2>1, LimitsAreNumbers
       DEF MbCovered, MbFlying, SpendWithinCeiling, Within, MbCounters
  <2> QED BY <2>1, <2>2, <2>3 DEF MbInv, LatchIsFinal
<1>11. ASSUME NEW c \in MbCalls, waitModelRetry(c) PROVE MbInv' /\ LatchIsFinal
  <2>1. mbCall[c].stage = "backoff" /\ mbCall[c].stage \in MbFlying /\ mbReserved' = mbReserved
        /\ mbSpent' = mbSpent /\ mbBlocked' = mbBlocked
    BY <1>11 DEF waitModelRetry, MbFlying
  <2>2. ~mbBlocked /\ mbMutex = c /\ Within(mbReserved) /\ mbSent + 1 <= mbReserved.requests
        /\ mbSpent <= mbReserved.tokens
    BY <1>F, <1>I, <2>1 DEF MbCovered
  <2>3. CASE Ends(c) /\ mbSent' = mbSent
    BY <1>T, <1>10, <2>1, <2>2, <2>3
  <2>4. CASE /\ mbCall' = [mbCall EXCEPT ![c].stage = "sent"]
             /\ mbSent' = mbSent + 1 /\ mbMutex' = mbMutex
    <3> DEFINE row == [mbCall[c] EXCEPT !.stage = "sent"]
    <3>1. row \in MbRow /\ row.stage = "sent" /\ row.tokens = mbCall[c].tokens
      BY <1>T DEF MbRow, MbFlying
    <3>2. mbCall' = [mbCall EXCEPT ![c] = row]
      BY <2>4
    <3> HIDE DEF row
    <3>3. /\ mbCall' \in [MbCalls -> MbRow] /\ mbCall'[c] = row
          /\ \A d \in MbCalls \ {c} : mbCall'[d] = mbCall[d]
      BY <1>T, <3>1, <3>2
    <3>4. MbTyped' /\ MbSerial'
      BY <1>T, <1>I, <2>1, <2>2, <2>4, <3>3 DEF MbTyped, MbSerial
    <3>5. MbCovered' /\ SpendWithinCeiling'
      BY <1>T, <1>C, <1>I, <2>1, <2>2, <2>4, <3>1, <3>3, LimitsAreNumbers
         DEF MbCovered, MbFlying, SpendWithinCeiling
    <3> QED BY <2>2, <3>4, <3>5 DEF MbInv, LatchIsFinal
  <2> QED BY <1>11, <2>3, <2>4 DEF waitModelRetry
<1>12. ASSUME NEW c \in MbCalls, StreamStarts(c) PROVE MbInv' /\ LatchIsFinal
  <2>1. mbCall[c].stage = "sent" /\ mbCall[c].stage \in MbFlying
        /\ UNCHANGED <<mbMutex, mbReserved, mbBlocked, mbSent, mbSpent>>
    BY <1>12 DEF StreamStarts, MbFlying
  <2> DEFINE row == [mbCall[c] EXCEPT !.stage = "streaming"]
  <2>2. row \in MbRow /\ row.stage = "streaming" /\ row.tokens = mbCall[c].tokens
    BY <1>T DEF MbRow, MbFlying
  <2>3. mbCall' = [mbCall EXCEPT ![c] = row]
    BY <1>12 DEF StreamStarts
  <2> HIDE DEF row
  <2>4. /\ mbCall' \in [MbCalls -> MbRow] /\ mbCall'[c] = row
        /\ \A d \in MbCalls \ {c} : mbCall'[d] = mbCall[d]
    BY <1>T, <2>2, <2>3
  <2>5. MbTyped' /\ MbSerial'
    BY <1>T, <1>I, <2>1, <2>4 DEF MbTyped, MbSerial
  <2>6. MbCovered' /\ SpendWithinCeiling'
    BY <1>T, <1>I, <2>1, <2>2, <2>4 DEF MbCovered, MbFlying, SpendWithinCeiling
  <2> QED BY <2>1, <2>5, <2>6 DEF MbInv, LatchIsFinal
<1>13. ASSUME NEW c \in MbCalls, StreamEnds(c) PROVE MbInv' /\ LatchIsFinal
  <2>1. mbCall[c].stage \in MbFlying /\ Ends(c) /\ mbBlocked' = mbBlocked /\ mbSent' = mbSent
    BY <1>13 DEF StreamEnds, MbFlying
  <2>2. PICK used \in 0 .. mbCall[c].tokens, complete \in BOOLEAN :
          /\ mbSpent' = mbSpent + used
          /\ mbReserved' = [mbReserved EXCEPT !.tokens = @ - refund(c, used, complete)]
    BY <1>13 DEF StreamEnds
  <2>3. refund(c, used, complete) = 0 \/ refund(c, used, complete) = mbCall[c].tokens - used
    BY DEF refund
  <2>4. PICK back \in {0, mbCall[c].tokens - used} :
          mbReserved' = [mbReserved EXCEPT !.tokens = @ - back]
    BY <2>2, <2>3
  <2>5. mbCall[c].tokens \in Nat /\ used \in Nat /\ used <= mbCall[c].tokens
        /\ back \in Nat /\ back <= mbCall[c].tokens - used
    BY <1>C, <2>1, <2>4
  <2>6. mbReserved' \in MbCounters /\ mbReserved'.requests = mbReserved.requests
        /\ mbReserved'.tokens = mbReserved.tokens - back /\ mbReserved'.bytes = mbReserved.bytes
    BY <1>T, <2>4, <2>5 DEF MbCounters
  <2>7. Within(mbReserved)
    BY <1>F, <1>I, <2>1 DEF MbCovered
  <2>8. Within(mbReserved')
    BY <1>T, <2>5, <2>6, <2>7, LimitsAreNumbers DEF Within, MbCounters
  <2>9. mbSpent' \in Nat /\ mbSpent' <= mbReserved'.tokens
    BY <1>T, <1>C, <2>1, <2>2, <2>5, <2>6
  <2> QED BY <1>10, <2>1, <2>6, <2>8, <2>9
<1> QED BY <1>1, <1>3, <1>4, <1>5, <1>7, <1>8, <1>9, <1>11, <1>12, <1>13 DEF MbNext

-----------------------------------------------------------------------------
(* AgentCredential.                                                        *)

CrStates == {"reserved", "issued", "withheld", "failed"}
CrRow == [pc : {"idle", "reserve", "issue", "complete", "failed", "answer"}, n : Nat]

CrTyped ==
    /\ crGranted \in BOOLEAN /\ crIssuance \in Seq(CrStates) /\ crMinted \in Nat
    /\ crCall \in [CredentialCalls -> CrRow]
    /\ Len(crIssuance) <= CrLimit

\* Two calls at the provider hold two records.
CrDistinct ==
    /\ \A c \in CredentialCalls : crCall[c].pc = "issue" => crCall[c].n \in 1..Len(crIssuance)
    /\ \A c, d \in CredentialCalls :
          crCall[c].pc = "issue" /\ crCall[d].pc = "issue" /\ crCall[c].n = crCall[d].n => c = d

\* The records that no call holds at the provider: each stands for at most one
\* token that was made.
CrSettled == {i \in 1..Len(crIssuance) :
                 \A c \in CredentialCalls : crCall[c].pc = "issue" => crCall[c].n # i}

CrInv == CrTyped /\ CrDistinct /\ crMinted <= Cardinality(CrSettled)

LEMMA SomeOfFirst ==
    ASSUME NEW k \in Nat, NEW S, S \subseteq 1..k
    PROVE  IsFiniteSet(S) /\ Cardinality(S) \in Nat /\ Cardinality(S) <= k
<1>1. IsFiniteSet(1..k) /\ Cardinality(1..k) = k
  <2>1. IsFiniteSet(1..k) /\ Cardinality(1..k) = IF 1 > k THEN 0 ELSE k - 1 + 1
    BY FS_Interval
  <2> QED BY <2>1
<1>2. IsFiniteSet(S) /\ Cardinality(S) <= Cardinality(1..k)
  BY <1>1, FS_Subset
<1> QED BY <1>1, <1>2, FS_CardinalityType

LEMMA CredentialInit == CrInit => CrInv
<1> SUFFICES ASSUME CrInit PROVE CrInv
  OBVIOUS
<1>1. CrTyped
  BY CredentialAssumption DEF CrInit, CrTyped, CrIdle, CrRow
<1>2. CrDistinct
  BY DEF CrInit, CrDistinct, CrIdle
<1>3. crMinted = 0 /\ Cardinality(CrSettled) \in Nat
  <2>1. Len(crIssuance) \in Nat /\ CrSettled \subseteq 1..Len(crIssuance)
    BY <1>1 DEF CrTyped, CrSettled
  <2> QED BY <2>1, SomeOfFirst DEF CrInit
<1> QED BY <1>1, <1>2, <1>3 DEF CrInv

\* A step that makes no token and takes no record away from the settled ones.
LEMMA SettledGrows ==
    ASSUME CrInv, CrTyped', CrDistinct', crMinted' = crMinted, CrSettled \subseteq CrSettled'
    PROVE  CrInv'
<1>1. IsFiniteSet(CrSettled') /\ Cardinality(CrSettled') \in Nat
  <2>1. Len(crIssuance') \in Nat /\ CrSettled' \subseteq 1..Len(crIssuance')
    BY DEF CrTyped, CrSettled
  <2> QED BY <2>1, SomeOfFirst
<1>2. Cardinality(CrSettled) <= Cardinality(CrSettled')
  BY <1>1, FS_Subset
<1>3. Cardinality(CrSettled) \in Nat /\ crMinted \in Nat /\ crMinted <= Cardinality(CrSettled)
  <2>1. Len(crIssuance) \in Nat /\ CrSettled \subseteq 1..Len(crIssuance)
    BY DEF CrInv, CrTyped, CrSettled
  <2> QED BY <2>1, SomeOfFirst DEF CrInv, CrTyped
<1>4. crMinted <= Cardinality(CrSettled')
  BY <1>1, <1>2, <1>3
<1> QED BY <1>4 DEF CrInv

LEMMA SequenceUpdate ==
    ASSUME NEW S, NEW s \in Seq(S), NEW i, NEW v, i \in 1..Len(s) => v \in S
    PROVE  /\ [s EXCEPT ![i] = v] \in Seq(S)
           /\ Len([s EXCEPT ![i] = v]) = Len(s)
<1> DEFINE t == [s EXCEPT ![i] = v]
<1>1. DOMAIN t = 1..Len(s) /\ Len(s) \in Nat
  OBVIOUS
<1>2. \A k \in 1..Len(s) : t[k] \in S
  OBVIOUS
<1>3. t \in [1..Len(s) -> S]
  BY <1>1, <1>2
<1> HIDE DEF t
<1>4. t \in Seq(S) /\ Len(t) = Len(s)
  BY <1>1, <1>3
<1> QED BY <1>4 DEF t

LEMMA CredentialStep ==
    ASSUME CrInv, [CrNext]_crVars
    PROVE  /\ CrInv'
           /\ \A c \in CredentialCalls :
                 (crCall'[c].pc = "answer" /\ crCall[c].pc # "answer") => crGranted
<1> DEFINE Guarded == \A c \in CredentialCalls :
                 (crCall'[c].pc = "answer" /\ crCall[c].pc # "answer") => crGranted
<1>T. /\ crGranted \in BOOLEAN /\ crIssuance \in Seq(CrStates) /\ crMinted \in Nat
      /\ crCall \in [CredentialCalls -> CrRow] /\ Len(crIssuance) <= CrLimit
      /\ CrDistinct /\ Len(crIssuance) \in Nat
  BY DEF CrInv, CrTyped
\* The call moves away from the provider or between two other steps.
<1>1. ASSUME NEW c \in CredentialCalls, NEW row \in CrRow, row.pc # "issue",
             row.pc = "answer" => crGranted,
             crCall' = [crCall EXCEPT ![c] = row],
             crGranted' = crGranted, crMinted' = crMinted,
             crIssuance' \in Seq(CrStates), Len(crIssuance') = Len(crIssuance)
      PROVE  CrInv' /\ Guarded
  <2>1. crCall' \in [CredentialCalls -> CrRow] /\ crCall'[c] = row
        /\ \A d \in CredentialCalls \ {c} : crCall'[d] = crCall[d]
    BY <1>T, <1>1
  <2>2. CrTyped'
    BY <1>T, <1>1, <2>1 DEF CrTyped
  <2>3. CrDistinct'
    BY <1>T, <1>1, <2>1 DEF CrDistinct
  <2>4. CrSettled \subseteq CrSettled'
    BY <1>1, <2>1 DEF CrSettled
  <2> QED BY <1>1, <2>1, <2>2, <2>3, <2>4, SettledGrows
<1>2. ASSUME NEW c \in CredentialCalls, NEW pc \in {"idle", "reserve", "complete", "failed", "answer"}
      PROVE  /\ [crCall[c] EXCEPT !.pc = pc] \in CrRow /\ [crCall[c] EXCEPT !.pc = pc].pc = pc
             /\ (CrStep(c, pc) => crCall' = [crCall EXCEPT ![c] = [crCall[c] EXCEPT !.pc = pc]])
  BY <1>T DEF CrRow, CrStep
<1>a. ASSUME NEW c \in CredentialCalls,
             NEW pc \in {"idle", "reserve", "complete", "failed", "answer"}, CrStep(c, pc),
             pc = "answer" => crGranted, crGranted' = crGranted, crMinted' = crMinted,
             crIssuance' \in Seq(CrStates), Len(crIssuance') = Len(crIssuance)
      PROVE  CrInv' /\ Guarded
  <2> DEFINE row == [crCall[c] EXCEPT !.pc = pc]
  <2>1. row \in CrRow /\ row.pc = pc /\ crCall' = [crCall EXCEPT ![c] = row]
    BY <1>2, <1>a, Zenon
  <2> HIDE DEF row, Guarded
  <2> QED BY <1>1, <1>a, <2>1
<1>3. CASE UNCHANGED crVars
  <2>1. CrTyped' /\ CrDistinct' /\ CrSettled' = CrSettled /\ crMinted' = crMinted /\ Guarded
    BY <1>T, <1>3 DEF crVars, CrTyped, CrDistinct, CrSettled
  <2> QED BY <2>1, SettledGrows
<1>4. ASSUME NEW c \in CredentialCalls, LoadAgentTaskCredentialGrant(c) PROVE CrInv' /\ Guarded
  <2>1. CrStep(c, "reserve") /\ UNCHANGED <<crGranted, crIssuance, crMinted>>
    BY <1>4 DEF LoadAgentTaskCredentialGrant
  <2> HIDE DEF Guarded
  <2> QED BY <1>T, <1>a, <2>1
<1>5. ASSUME NEW c \in CredentialCalls, ReserveAgentTaskCredentialIssuance(c)
      PROVE  CrInv' /\ Guarded
  <2>1. CASE ~(crGranted /\ Len(crIssuance) < CrLimit)
    <3>1. CrStep(c, "idle") /\ UNCHANGED <<crIssuance, crGranted, crMinted>>
      BY <1>5, <2>1, Zenon DEF ReserveAgentTaskCredentialIssuance
    <3> HIDE DEF Guarded
    <3> QED BY <1>T, <1>a, <3>1
  <2>2. CASE crGranted /\ Len(crIssuance) < CrLimit
    <3> DEFINE row == [pc |-> "issue", n |-> Len(crIssuance) + 1]
    <3>1. /\ crIssuance' = crIssuance \o <<"reserved">> /\ crCall' = [crCall EXCEPT ![c] = row]
          /\ crGranted' = crGranted /\ crMinted' = crMinted /\ crCall[c].pc = "reserve"
      BY <1>5, <2>2 DEF ReserveAgentTaskCredentialIssuance
    <3>2. row \in CrRow /\ row.pc = "issue" /\ row.n = Len(crIssuance) + 1
      BY <1>T DEF CrRow
    <3> HIDE DEF row
    <3>3. crIssuance' \in Seq(CrStates) /\ Len(crIssuance') = Len(crIssuance) + 1
      BY <1>T, <3>1 DEF CrStates
    <3>4. crCall' \in [CredentialCalls -> CrRow] /\ crCall'[c] = row
          /\ \A d \in CredentialCalls \ {c} : crCall'[d] = crCall[d]
      BY <1>T, <3>1, <3>2
    <3>5. CrTyped'
      BY <1>T, <2>2, <3>1, <3>3, <3>4, CredentialAssumption DEF CrTyped
    <3>6. CrDistinct'
      BY <1>T, <3>2, <3>3, <3>4 DEF CrDistinct
    <3>7. CrSettled \subseteq CrSettled'
      BY <1>T, <3>2, <3>3, <3>4 DEF CrSettled
    <3>8. Guarded
      BY <3>2, <3>4
    <3> QED BY <3>1, <3>5, <3>6, <3>7, <3>8, SettledGrows
  <2> QED BY <2>1, <2>2
<1>6. ASSUME NEW c \in CredentialCalls, IssueToken(c) PROVE CrInv' /\ Guarded
  <2>1. PICK made \in {0, 1}, pc \in {"complete", "failed"} :
          crMinted' = crMinted + made /\ CrStep(c, pc)
    BY <1>6 DEF IssueToken
  <2>2. crCall[c].pc = "issue" /\ crGranted' = crGranted /\ crIssuance' = crIssuance
    BY <1>6 DEF IssueToken
  <2> DEFINE row == [crCall[c] EXCEPT !.pc = pc]
  <2>3. row \in CrRow /\ row.pc = pc /\ crCall' = [crCall EXCEPT ![c] = row]
    <3>1. pc \in {"idle", "reserve", "complete", "failed", "answer"}
      OBVIOUS
    <3> QED BY <1>2, <2>1, <3>1, Zenon
  <2> HIDE DEF row
  <2>4. crCall' \in [CredentialCalls -> CrRow] /\ crCall'[c] = row
        /\ \A d \in CredentialCalls \ {c} : crCall'[d] = crCall[d]
    BY <1>T, <2>3
  <2>5. CrTyped' /\ CrDistinct' /\ Guarded
    <3>1. crMinted' \in Nat
      BY <1>T, <2>1
    <3> QED BY <1>T, <2>2, <2>3, <2>4, <3>1 DEF CrTyped, CrDistinct
  <2>6. crCall[c].n \in 1..Len(crIssuance) /\ crCall[c].n \notin CrSettled
    BY <1>T, <2>2 DEF CrDistinct, CrSettled
  <2>7. CrSettled' = CrSettled \cup {crCall[c].n}
    BY <1>T, <2>2, <2>3, <2>4, <2>6 DEF CrDistinct, CrSettled
  <2>8. IsFiniteSet(CrSettled) /\ Cardinality(CrSettled) \in Nat
    <3>1. CrSettled \subseteq 1..Len(crIssuance)
      BY DEF CrSettled
    <3> QED BY <1>T, <3>1, SomeOfFirst
  <2>9. Cardinality(CrSettled') = Cardinality(CrSettled) + 1
    BY <2>6, <2>7, <2>8, FS_AddElement
  <2>10. crMinted' <= Cardinality(CrSettled')
    BY <1>T, <2>1, <2>8, <2>9 DEF CrInv
  <2> QED BY <2>5, <2>10 DEF CrInv
<1>7. ASSUME NEW c \in CredentialCalls, CompleteAgentTaskCredentialIssuance(c)
      PROVE  CrInv' /\ Guarded
  <2>1. PICK state \in CrStates, pc \in {"answer", "idle"} :
          /\ crIssuance' = [crIssuance EXCEPT ![crCall[c].n] = IF @ = "reserved" THEN state ELSE @]
          /\ CrStep(c, pc) /\ (pc = "answer" => crGranted)
    BY <1>7 DEF CompleteAgentTaskCredentialIssuance, updateAgentTaskCredentialIssuance, CrStates
  <2>2. crIssuance' \in Seq(CrStates) /\ Len(crIssuance') = Len(crIssuance)
    <3> DEFINE v == IF crIssuance[crCall[c].n] = "reserved" THEN state
                    ELSE crIssuance[crCall[c].n]
    <3>1. crIssuance' = [crIssuance EXCEPT ![crCall[c].n] = v]
      BY <2>1
    <3>2. crCall[c].n \in 1..Len(crIssuance) => v \in CrStates
      BY <1>T
    <3> HIDE DEF v
    <3> QED BY <1>T, <3>1, <3>2, SequenceUpdate
  <2>3. crGranted' = crGranted /\ crMinted' = crMinted
    BY <1>7 DEF CompleteAgentTaskCredentialIssuance
  <2> HIDE DEF Guarded
  <2> QED BY <1>a, <2>1, <2>2, <2>3
<1>8. ASSUME NEW c \in CredentialCalls, CrReturns(c) PROVE CrInv' /\ Guarded
  <2>1. CrIdle \in CrRow /\ CrIdle.pc = "idle"
    BY DEF CrIdle, CrRow
  <2> QED BY <1>T, <1>1, <1>8, <2>1 DEF CrReturns
<1>9. CASE CrRevoked
  <2>1. CrTyped' /\ CrDistinct' /\ CrSettled' = CrSettled /\ crMinted' = crMinted /\ Guarded
    BY <1>T, <1>9 DEF CrRevoked, CrTyped, CrDistinct, CrSettled
  <2> QED BY <2>1, SettledGrows
<1> QED BY <1>3, <1>4, <1>5, <1>6, <1>7, <1>8, <1>9 DEF CrNext

\* AgentCredential and ModelBroker: however many calls overlap, are repeated or
\* abandoned, a job's provider tokens stay within its limit, a revoked grant
\* hands none out, and a latched broker sends nothing more.
THEOREM SpendingStops == Spec => AgentSpendingStops
<1>1. Init => CrInv /\ MbInv
  BY CredentialInit, ModelInit DEF Init
<1>2. CrInv /\ MbInv /\ [Next]_vars => (CrInv /\ MbInv)'
  BY CredentialStep, ModelStep, PartsMove
<1>3. CrInv /\ MbInv /\ [Next]_vars => [TokensStayBounded /\ LatchIsFinal]_vars
  <2> SUFFICES ASSUME CrInv, MbInv, [Next]_vars
               PROVE  TokensStayBounded /\ LatchIsFinal
    OBVIOUS
  <2>1. CrInv' /\ LatchIsFinal
    BY CredentialStep, ModelStep, PartsMove
  <2>2. Len(crIssuance') \in Nat /\ CrSettled' \subseteq 1..Len(crIssuance')
    BY <2>1 DEF CrInv, CrTyped, CrSettled
  <2>3. Cardinality(CrSettled') \in Nat /\ Cardinality(CrSettled') <= Len(crIssuance')
    BY <2>2, SomeOfFirst
  <2>4. crMinted' <= CrLimit
    BY <2>1, <2>2, <2>3, CredentialAssumption DEF CrInv, CrTyped
  <2> QED BY <2>1, <2>4, CredentialStep, PartsMove DEF TokensStayBounded
<1> QED BY <1>1, <1>2, <1>3, PTL DEF Spec, AgentSpendingStops

-----------------------------------------------------------------------------
(* AgentIntake.                                                            *)

AiRevisions == {Plain(s) : s \in AiSnapshots} \cup {Automatic(s) : s \in AiSnapshots}
AiEvent == [command : AiCommands, at : AiSnapshots]
AiTaskRow == [revision : AiRevisions, state : {"received", "rejected", "approved", "cancelled"}]

AiTyped ==
    /\ aiEvents \in Seq(AiEvent) /\ aiTasks \in Seq(AiTaskRow)
    /\ DOMAIN aiAccepted \subseteq DOMAIN aiEvents
    /\ aiRetained \subseteq AiSnapshots

\* The task a request was accepted for still carries a revision of the
\* snapshot of that request.
AiAcceptedMatches ==
    \A d \in DOMAIN aiAccepted : aiAccepted[d] # AiRejected =>
        aiAccepted[d] \in AiMatches(agentIssueCommandRevisions(aiEvents[d].at))

AiInv == AiTyped /\ AiAcceptedMatches /\ SameSnapshotSameTask

LEMMA IntakeInit == AiInit => AiInv
BY DEF AiInit, AiInv, AiTyped, AiAcceptedMatches, SameSnapshotSameTask

\* Deliveries and tasks are only added, and a task keeps its revision.
AiGrows ==
    /\ DOMAIN aiEvents \subseteq DOMAIN aiEvents'
    /\ \A d \in DOMAIN aiEvents : aiEvents'[d] = aiEvents[d]
    /\ DOMAIN aiTasks \subseteq DOMAIN aiTasks'
    /\ \A t \in DOMAIN aiTasks : aiTasks'[t].revision = aiTasks[t].revision

LEMMA IntakeQuiet ==
    ASSUME AiInv, AiGrows, aiAccepted' = aiAccepted, AiTyped'
    PROVE  AiInv'
<1>1. AiAcceptedMatches'
  BY DEF AiInv, AiTyped, AiGrows, AiAcceptedMatches, AiMatches, AiTaskIds
<1>2. SameSnapshotSameTask'
  BY DEF AiInv, AiTyped, AiGrows, SameSnapshotSameTask
<1> QED BY <1>1, <1>2 DEF AiInv

\* A request is recorded for the one task that matches its snapshot.
LEMMA IntakeRecords ==
    ASSUME AiInv, AiGrows, AiTyped', NEW d \in DOMAIN aiEvents, NEW t,
           d \notin DOMAIN aiAccepted, AiRecord(d, t),
           \/ t = AiRejected
           \/ /\ t \in AiMatches(agentIssueCommandRevisions(aiEvents[d].at))'
              /\ AiMatches(agentIssueCommandRevisions(aiEvents[d].at)) \subseteq {t}
    PROVE  AiInv'
<1>1. /\ DOMAIN aiAccepted' = DOMAIN aiAccepted \cup {d} /\ aiAccepted'[d] = t
      /\ \A e \in DOMAIN aiAccepted : aiAccepted'[e] = aiAccepted[e]
  BY DEF AiRecord
<1>2. \A e \in DOMAIN aiAccepted \cup {d} : aiEvents'[e] = aiEvents[e] /\ e \in DOMAIN aiEvents
  BY DEF AiInv, AiTyped, AiGrows
<1>3. \A e \in DOMAIN aiEvents : AiMatches(agentIssueCommandRevisions(aiEvents[e].at))
                                   \subseteq AiMatches(agentIssueCommandRevisions(aiEvents[e].at))'
  BY DEF AiGrows, AiMatches, AiTaskIds
<1>4. AiAcceptedMatches'
  BY <1>1, <1>2, <1>3 DEF AiInv, AiAcceptedMatches
<1>5. \A e \in DOMAIN aiAccepted :
         aiEvents[e].at = aiEvents[d].at /\ aiAccepted[e] # AiRejected /\ t # AiRejected
            => aiAccepted[e] = t
  BY DEF AiInv, AiAcceptedMatches
<1>6. SameSnapshotSameTask'
  BY <1>1, <1>2, <1>5 DEF AiInv, SameSnapshotSameTask
<1> QED BY <1>4, <1>6 DEF AiInv

\* A new task comes after the others and has the revision it was made for.
LEMMA IntakeAdds ==
    ASSUME AiInv, NEW revision \in AiRevisions, NEW state \in {"received", "rejected"},
           AiNewTask(revision, state), aiEvents' = aiEvents
    PROVE  /\ aiTasks' \in Seq(AiTaskRow) /\ AiGrows
           /\ Len(aiTasks) + 1 \in DOMAIN aiTasks'
           /\ aiTasks'[Len(aiTasks) + 1].revision = revision
<1> DEFINE row == [revision |-> revision, state |-> state]
<1>1. row \in AiTaskRow /\ row.revision = revision
  BY DEF AiTaskRow
<1>2. aiTasks' = Append(aiTasks, row) /\ aiTasks \in Seq(AiTaskRow)
  BY DEF AiNewTask, AiInv, AiTyped
<1> HIDE DEF row
<1>3. /\ aiTasks' \in Seq(AiTaskRow) /\ Len(aiTasks') = Len(aiTasks) + 1 /\ Len(aiTasks) \in Nat
      /\ aiTasks'[Len(aiTasks) + 1] = row
      /\ \A t \in 1..Len(aiTasks) : aiTasks'[t] = aiTasks[t]
  BY <1>1, <1>2
<1>4. DOMAIN aiTasks = 1..Len(aiTasks) /\ DOMAIN aiTasks' = 1..Len(aiTasks')
  BY <1>2, <1>3
<1> QED BY <1>1, <1>3, <1>4 DEF AiGrows

LEMMA IntakeStep ==
    ASSUME AiInv, [AiNext]_aiVars
    PROVE  AiInv'
<1>T. /\ aiEvents \in Seq(AiEvent) /\ aiTasks \in Seq(AiTaskRow)
      /\ DOMAIN aiAccepted \subseteq DOMAIN aiEvents /\ aiRetained \subseteq AiSnapshots
  BY DEF AiInv, AiTyped
<1>E. \A d \in DOMAIN aiEvents : aiEvents[d].at \in AiSnapshots
  <2>1. \A d \in DOMAIN aiEvents : aiEvents[d] \in AiEvent
    BY <1>T
  <2> QED BY <2>1 DEF AiEvent
<1>a. ASSUME UNCHANGED <<aiEvents, aiTasks>> PROVE AiGrows
  BY <1>a DEF AiGrows
<1>b. ASSUME NEW d, NEW t, AiFresh(d), AiRecord(d, t), aiEvents' = aiEvents,
             aiTasks' \in Seq(AiTaskRow), aiRetained' = aiRetained
      PROVE  AiTyped' /\ d \in DOMAIN aiEvents /\ d \notin DOMAIN aiAccepted
  BY <1>T, <1>b DEF AiTyped, AiFresh, AiRecord
\* A request that finds its task, or makes it.
<1>c. ASSUME NEW d, NEW t \in DOMAIN aiTasks, AiFresh(d), findIssueAgentTask(aiEvents[d].at, t),
             AiRecord(d, t), aiEvents' = aiEvents, aiRetained' = aiRetained, AiGrows,
             aiTasks' \in Seq(AiTaskRow)
      PROVE  AiInv'
  <2>1. AiTyped' /\ d \in DOMAIN aiEvents /\ d \notin DOMAIN aiAccepted
    BY <1>b, <1>c
  <2>2. AiMatches(agentIssueCommandRevisions(aiEvents[d].at)) = {t}
    BY <1>c DEF findIssueAgentTask
  <2>3. t \in AiMatches(agentIssueCommandRevisions(aiEvents[d].at))'
    BY <1>c, <2>2 DEF AiMatches, AiTaskIds, AiGrows
  <2> QED BY <1>c, <2>1, <2>2, <2>3, IntakeRecords
<1>d. ASSUME NEW d, NEW revision \in AiRevisions, NEW state \in {"received", "rejected"},
             AiFresh(d), AiUnknown(aiEvents[d].at), AiNewTask(revision, state),
             revision \in agentIssueCommandRevisions(aiEvents[d].at),
             AiRecord(d, Len(aiTasks) + 1), aiEvents' = aiEvents, aiRetained' = aiRetained
      PROVE  AiInv'
  <2>1. /\ aiTasks' \in Seq(AiTaskRow) /\ AiGrows /\ Len(aiTasks) + 1 \in DOMAIN aiTasks'
        /\ aiTasks'[Len(aiTasks) + 1].revision = revision
    BY <1>d, IntakeAdds
  <2>2. AiTyped' /\ d \in DOMAIN aiEvents /\ d \notin DOMAIN aiAccepted
    BY <1>b, <1>d, <2>1
  <2>3. Len(aiTasks) + 1 \in AiMatches(agentIssueCommandRevisions(aiEvents[d].at))'
    BY <1>d, <2>1 DEF AiMatches, AiTaskIds
  <2>4. AiMatches(agentIssueCommandRevisions(aiEvents[d].at)) = {}
    BY <1>d DEF AiUnknown
  <2> QED BY <1>d, <2>1, <2>2, <2>3, <2>4, IntakeRecords
<1>1. CASE UNCHANGED aiVars \/ SaveAgentTaskPolicy
  <2>1. AiTyped' /\ UNCHANGED <<aiEvents, aiTasks, aiAccepted>>
    BY <1>1, <1>T DEF aiVars, SaveAgentTaskPolicy, AiTyped
  <2> QED BY <1>a, <2>1, IntakeQuiet
<1>2. ASSUME NEW c \in AiCommands, NEW s \in AiSnapshots, AiSend(c, s) PROVE AiInv'
  <2> DEFINE e == [command |-> c, at |-> s]
  <2>1. e \in AiEvent
    BY DEF AiEvent
  <2>2. aiEvents' = Append(aiEvents, e) /\ UNCHANGED <<aiAccepted, aiRetained, aiTasks>>
    BY <1>2 DEF AiSend
  <2> HIDE DEF e
  <2>3. /\ aiEvents' \in Seq(AiEvent) /\ DOMAIN aiEvents \subseteq DOMAIN aiEvents'
        /\ \A d \in DOMAIN aiEvents : aiEvents'[d] = aiEvents[d]
    BY <1>T, <2>1, <2>2
  <2> QED BY <1>T, <2>2, <2>3, IntakeQuiet DEF AiGrows, AiTyped
<1>3. ASSUME NEW d \in DOMAIN aiEvents, AiTriage(d) PROVE AiInv'
  <2>1. aiEvents[d].at \in AiSnapshots
    BY <1>E
  <2>2. AiTyped' /\ UNCHANGED <<aiEvents, aiTasks, aiAccepted>>
    BY <1>3, <1>T, <2>1 DEF AiTriage, AiTyped
  <2> QED BY <1>a, <2>2, IntakeQuiet
<1>4. ASSUME NEW d \in DOMAIN aiEvents, CommandRejected(d) PROVE AiInv'
  <2>1. /\ AiFresh(d) /\ AiRecord(d, AiRejected) /\ aiEvents' = aiEvents
        /\ aiTasks' = aiTasks /\ aiRetained' = aiRetained
    BY <1>4 DEF CommandRejected
  <2>2. AiTyped' /\ d \notin DOMAIN aiAccepted
    BY <1>T, <1>b, <2>1
  <2> QED BY <1>a, <2>1, <2>2, IntakeRecords
<1>5. ASSUME NEW d \in DOMAIN aiEvents
      PROVE  /\ aiEvents[d].at \in AiSnapshots
             /\ Plain(aiEvents[d].at) \in AiRevisions /\ Automatic(aiEvents[d].at) \in AiRevisions
  BY <1>E, <1>5 DEF AiRevisions
<1>6. ASSUME NEW d \in DOMAIN aiEvents, ImplementCommand(d) \/ ProcessAutomaticAgentTask(d)
      PROVE  AiInv'
  <2>1. AiFresh(d) /\ aiEvents' = aiEvents /\ aiRetained' = aiRetained
    BY <1>6 DEF ImplementCommand, ProcessAutomaticAgentTask
  <2>2. ASSUME AiUnknown(aiEvents[d].at), AiRecord(d, Len(aiTasks) + 1),
               NEW state \in {"received", "rejected"},
               AiNewTask(Plain(aiEvents[d].at), state) \/ AiNewTask(Automatic(aiEvents[d].at), state)
        PROVE  AiInv'
    BY <1>d, <1>5, <2>1, <2>2 DEF agentIssueCommandRevisions
  <2>3. ASSUME NEW t \in AiTaskIds, findIssueAgentTask(aiEvents[d].at, t), AiRecord(d, t),
               UNCHANGED aiTasks
        PROVE  AiInv'
    BY <1>T, <1>a, <1>c, <2>1, <2>3 DEF AiTaskIds
  <2> QED BY <1>6, <2>2, <2>3 DEF ImplementCommand, ProcessAutomaticAgentTask
<1>7. ASSUME NEW d \in DOMAIN aiEvents, NEW t \in AiTaskIds, TaskCommand(d, t) PROVE AiInv'
  <2>1. /\ AiFresh(d) /\ findIssueAgentTask(aiEvents[d].at, t) /\ AiRecord(d, t)
        /\ aiEvents' = aiEvents /\ aiRetained' = aiRetained
    BY <1>7 DEF TaskCommand
  <2>2. \/ aiTasks' = aiTasks
        \/ \E state \in {"cancelled", "approved"} : aiTasks' = [aiTasks EXCEPT ![t].state = state]
    BY <1>7, Zenon DEF TaskCommand
  <2>3. aiTasks' \in Seq(AiTaskRow) /\ AiGrows
    <3>1. CASE aiTasks' = aiTasks
      BY <1>T, <1>a, <2>1, <3>1
    <3>2. ASSUME NEW state \in {"cancelled", "approved"},
                 aiTasks' = [aiTasks EXCEPT ![t].state = state]
          PROVE  aiTasks' \in Seq(AiTaskRow) /\ AiGrows
      <4> DEFINE row == [aiTasks[t] EXCEPT !.state = state]
      <4>1. aiTasks' = [aiTasks EXCEPT ![t] = row]
        BY <3>2
      <4>2. aiTasks[t] \in AiTaskRow /\ t \in DOMAIN aiTasks
        BY <1>T DEF AiTaskIds
      <4>3. row \in AiTaskRow /\ row.revision = aiTasks[t].revision
        BY <4>2 DEF AiTaskRow
      <4> HIDE DEF row
      <4>4. aiTasks' \in Seq(AiTaskRow)
        BY <1>T, <4>1, <4>3, SequenceUpdate
      <4>5. DOMAIN aiTasks' = DOMAIN aiTasks
            /\ \A u \in DOMAIN aiTasks : aiTasks'[u].revision = aiTasks[u].revision
        BY <1>T, <4>1, <4>3
      <4> QED BY <2>1, <4>4, <4>5 DEF AiGrows
    <3> QED BY <2>2, <3>1, <3>2
  <2> QED BY <1>c, <2>1, <2>3 DEF AiTaskIds
<1>8. ASSUME NEW text \in Texts, createAgentTask(text) PROVE AiInv'
  <2>1. AiNewTask(<<"text", text>>, "received")
        /\ UNCHANGED <<aiEvents, aiAccepted, aiRetained>>
    BY <1>8 DEF createAgentTask
  <2>2. <<"text", text>> \in AiRevisions
    <3>1. [text |-> text, opted |-> TRUE] \in AiSnapshots
      BY DEF AiSnapshots
    <3>2. <<"text", text>> = Plain([text |-> text, opted |-> TRUE])
      BY DEF Plain
    <3> QED BY <3>1, <3>2 DEF AiRevisions
  <2>3. aiTasks' \in Seq(AiTaskRow) /\ AiGrows
    BY <2>1, <2>2, IntakeAdds
  <2>4. AiTyped'
    BY <1>T, <2>1, <2>3 DEF AiTyped
  <2> QED BY <2>1, <2>3, <2>4, IntakeQuiet
<1>9. CASE CreateAgentTaskFromProviderIssue
  <2>1. PICK s \in aiRetained : createAgentTask(s.text)
    BY <1>9 DEF CreateAgentTaskFromProviderIssue
  <2>2. s.text \in Texts
    BY <1>T DEF AiSnapshots
  <2> QED BY <1>8, <2>1, <2>2
<1> QED BY <1>1, <1>2, <1>3, <1>4, <1>6, <1>7, <1>8, <1>9 DEF AiNext

-----------------------------------------------------------------------------
(* AgentCampaign.                                                          *)

CmTaskStates == {"none", "received", "awaiting_approval", "execution_queued", "executing",
                 "needs_attention", "proposed", "repairing", "cancelled", "failed"}
CmTyped ==
    /\ cmTask \in [Repos -> CmTaskStates]
    /\ cmOther \in [Repos -> {"execution_queued", "executing", "proposed"}]
    /\ IsFiniteSet(CmRunning)

CmInv == CmTyped /\ CampaignWithinLimits /\ CancelledCampaignIsQuiet

LEMMA CampaignInit == CreateAgentCampaign => CmInv
<1> SUFFICES ASSUME CreateAgentCampaign PROVE CmInv
  OBVIOUS
<1>1. CmRunning = {}
  BY DEF CreateAgentCampaign, CmRunning
<1>2. IsFiniteSet(CmRunning) /\ Cardinality(CmRunning) = 0
  BY <1>1, FS_EmptySet
<1> QED BY <1>1, <1>2, CampaignAssumption
       DEF CreateAgentCampaign, CmInv, CmTyped, CampaignWithinLimits, CancelledCampaignIsQuiet,
           CmTaskStates

\* A step that starts no execution of the campaign.
LEMMA CampaignStartsNone ==
    ASSUME CmInv,
           cmTask' \in [Repos -> CmTaskStates],
           cmOther' \in [Repos -> {"execution_queued", "executing", "proposed"}],
           \A r \in Repos : cmTask'[r] = "executing" => cmTask[r] = "executing",
           \A r \in Repos : cmTask'[r] = "executing" /\ cmOther'[r] = "executing" =>
                                cmOther[r] = "executing",
           CancelledCampaignIsQuiet'
    PROVE  CmInv'
<1>1. CmRunning' \subseteq CmRunning
  BY DEF CmRunning
<1>2. IsFiniteSet(CmRunning) /\ Cardinality(CmRunning) <= CmConcurrency
  BY DEF CmInv, CmTyped, CampaignWithinLimits
<1>3. IsFiniteSet(CmRunning') /\ Cardinality(CmRunning') <= Cardinality(CmRunning)
  BY <1>1, <1>2, FS_Subset
<1>4. Cardinality(CmRunning) \in Nat /\ Cardinality(CmRunning') \in Nat
  BY <1>2, <1>3, FS_CardinalityType
<1>5. Cardinality(CmRunning') <= CmConcurrency
  BY <1>2, <1>3, <1>4, CampaignAssumption
<1>6. \A r \in CmRunning' : cmOther'[r] # "executing"
  BY DEF CmInv, CampaignWithinLimits, CmRunning
<1> QED BY <1>3, <1>5, <1>6 DEF CmInv, CmTyped, CampaignWithinLimits

LEMMA CampaignStep ==
    ASSUME CmInv, [CmNext]_cmVars
    PROVE  CmInv'
<1>T. /\ cmTask \in [Repos -> CmTaskStates]
      /\ cmOther \in [Repos -> {"execution_queued", "executing", "proposed"}]
      /\ CancelledCampaignIsQuiet
  BY DEF CmInv, CmTyped
<1>1. ASSUME UNCHANGED <<cmState, cmTask, cmOther>> PROVE CmInv'
  BY <1>T, <1>1, CampaignStartsNone DEF CancelledCampaignIsQuiet
<1>2. ASSUME NEW r, NEW s \in CmTaskStates \ {"execution_queued", "executing"},
             cmTask' = [cmTask EXCEPT ![r] = s], UNCHANGED <<cmState, cmOther>>
      PROVE  CmInv'
  BY <1>T, <1>2, CampaignStartsNone DEF CancelledCampaignIsQuiet
<1>3. CASE UNCHANGED cmVars
  BY <1>1, <1>3 DEF cmVars
<1>4. ASSUME NEW w \in CmScanners
      PROVE  /\ \A r \in Repos : ClaimAgentCampaignScan(w, r) => CmInv'
             /\ CmWorkerDies(w) => CmInv'
  BY <1>1 DEF ClaimAgentCampaignScan, CmWorkerDies
<1>5. ASSUME NEW w \in CmScanners, NEW result \in CmResults, FinishAgentCampaignScan(w, result)
      PROVE  CmInv'
  <2>1. result[2] \in CmTaskStates \ {"execution_queued", "executing"}
    BY DEF CmResults, CmTaskStates
  <2>2. UNCHANGED <<cmState, cmOther>>
        /\ (cmTask' = cmTask \/ cmTask' = [cmTask EXCEPT ![cmScanner[w].repo] = result[2]])
    BY <1>5 DEF FinishAgentCampaignScan
  <2> QED BY <1>1, <1>2, <2>1, <2>2
<1>6. CASE ExhaustCampaignScans \/ ScheduleAgentCampaignExecutions
  BY <1>1, <1>6 DEF ExhaustCampaignScans, ScheduleAgentCampaignExecutions
<1>7. ASSUME NEW plans \in SUBSET Repos, ApproveAgentCampaign(plans) PROVE CmInv'
  <2>1. cmState = "active" /\ cmState' = cmState /\ cmOther' = cmOther
    BY <1>7 DEF ApproveAgentCampaign, CmApprovable
  <2>2. cmTask' = [r \in Repos |-> IF r \in plans THEN "execution_queued" ELSE cmTask[r]]
    BY <1>7 DEF ApproveAgentCampaign
  <2>3. cmTask' \in [Repos -> CmTaskStates]
        /\ \A r \in Repos : cmTask'[r] = "executing" => cmTask[r] = "executing"
    BY <1>T, <2>2 DEF CmTaskStates
  <2> QED BY <1>T, <2>1, <2>3, CampaignStartsNone DEF CancelledCampaignIsQuiet
<1>8. ASSUME NEW action \in {"pause", "resume", "retry_failed", "cancel"}, ActAgentCampaign(action)
      PROVE  CmInv'
  <2>1. cmOther' = cmOther /\ cmState # "cancelled"
    BY <1>8 DEF ActAgentCampaign
  <2>2. CASE cmTask' = cmTask /\ cmState' # "cancelled"
    BY <1>T, <2>1, <2>2, CampaignStartsNone DEF CancelledCampaignIsQuiet
  <2>3. CASE cmTask' = prepareCampaignRetryPlans /\ cmState' = cmState
    <3>1. cmTask' \in [Repos -> CmTaskStates]
          /\ \A r \in Repos : cmTask'[r] = "executing" => cmTask[r] = "executing"
      BY <1>T, <2>3 DEF prepareCampaignRetryPlans, CmTaskStates
    <3> QED BY <1>T, <2>1, <2>3, <3>1, CampaignStartsNone DEF CancelledCampaignIsQuiet
  <2>4. CASE cmTask' = [r \in Repos |->
                           IF cmTask[r] \in CmCancellable THEN "cancelled" ELSE cmTask[r]]
    <3>1. cmTask' \in [Repos -> CmTaskStates]
          /\ \A r \in Repos : cmTask'[r] \notin {"execution_queued", "executing"}
      BY <1>T, <2>4 DEF CmTaskStates, CmCancellable
    <3> QED BY <1>T, <2>1, <3>1, CampaignStartsNone DEF CancelledCampaignIsQuiet
  <2> QED BY <1>8, <2>2, <2>3, <2>4 DEF ActAgentCampaign
<1>9. ASSUME NEW r \in Repos, CmLeaseLapses(r) PROVE CmInv'
  BY <1>1, <1>9 DEF CmLeaseLapses
<1>10. ASSUME NEW r \in Repos, ClaimCampaignExecution(r) PROVE CmInv'
  <2>1. CASE cmTask' = cmTask
    BY <1>1, <1>10, <2>1 DEF ClaimCampaignExecution
  <2>2. CASE cmTask' # cmTask
    <3>1. /\ cmState = "active" /\ cmState' = cmState /\ cmOther' = cmOther
          /\ Cardinality(CmRunning) < CmConcurrency /\ cmOther[r] # "executing"
          /\ cmTask' = [cmTask EXCEPT ![r] = "executing"]
      BY <1>10, <2>2 DEF ClaimCampaignExecution, campaignExecutionAllowed
    <3>2. cmTask' \in [Repos -> CmTaskStates] /\ CmRunning' = CmRunning \cup {r}
      BY <1>T, <3>1 DEF CmTaskStates, CmRunning
    <3>3. IsFiniteSet(CmRunning) /\ Cardinality(CmRunning) \in Nat
      BY FS_CardinalityType DEF CmInv, CmTyped
    <3>4. /\ IsFiniteSet(CmRunning')
          /\ \/ Cardinality(CmRunning') = Cardinality(CmRunning)
             \/ Cardinality(CmRunning') = Cardinality(CmRunning) + 1
      BY <3>2, <3>3, FS_AddElement
    <3>5. Cardinality(CmRunning') <= CmConcurrency
      BY <3>1, <3>3, <3>4, CampaignAssumption
    <3>6. \A s \in CmRunning' : cmOther'[s] # "executing"
      BY <3>1, <3>2 DEF CmInv, CampaignWithinLimits
    <3> QED BY <1>T, <3>1, <3>2, <3>4, <3>5, <3>6
            DEF CmInv, CmTyped, CampaignWithinLimits, CancelledCampaignIsQuiet
  <2> QED BY <2>1, <2>2
<1>11. ASSUME NEW r \in Repos, ClaimOtherExecution(r) PROVE CmInv'
  <2>1. /\ cmTask[r] # "executing" /\ cmOther' = [cmOther EXCEPT ![r] = "executing"]
        /\ cmTask' = cmTask /\ cmState' = cmState
    BY <1>11 DEF ClaimOtherExecution
  <2> QED BY <1>T, <2>1, CampaignStartsNone DEF CancelledCampaignIsQuiet
<1>12. ASSUME NEW r \in Repos, CmAttemptEnds(r) PROVE CmInv'
  <2>1. CASE /\ \E end \in {"proposed", "needs_attention"} : cmTask' = [cmTask EXCEPT ![r] = end]
             /\ UNCHANGED <<cmState, cmOther>>
    BY <1>2, <2>1 DEF CmTaskStates
  <2>2. CASE cmOther' = [cmOther EXCEPT ![r] = "proposed"] /\ UNCHANGED <<cmState, cmTask>>
    BY <1>T, <2>2, CampaignStartsNone DEF CancelledCampaignIsQuiet
  <2> QED BY <1>12, <2>1, <2>2 DEF CmAttemptEnds
<1>13. ASSUME NEW r \in Repos, CmRepairBegins(r) \/ CmRepairCommits(r) PROVE CmInv'
  <2>1. /\ \E s \in {"repairing", "awaiting_approval"} : cmTask' = [cmTask EXCEPT ![r] = s]
        /\ UNCHANGED <<cmState, cmOther>>
    BY <1>13 DEF CmRepairBegins, CmRepairCommits
  <2> QED BY <1>2, <2>1 DEF CmTaskStates
<1> QED BY <1>3, <1>4, <1>5, <1>6, <1>7, <1>8, <1>9, <1>10, <1>11, <1>12, <1>13 DEF CmNext

\* AgentIntake, AgentCampaign and ModelBroker: one task for a snapshot of an
\* Issue, a campaign within its limits and quiet once cancelled, a job's model
\* calls within their ceilings, for every number of requests, repositories and
\* calls.
THEOREM WorkIsBounded == Spec => []AgentWorkIsBounded
<1>1. Init => AiInv /\ CmInv /\ MbInv
  BY IntakeInit, CampaignInit, ModelInit DEF Init
<1>2. AiInv /\ CmInv /\ MbInv /\ [Next]_vars => (AiInv /\ CmInv /\ MbInv)'
  BY IntakeStep, CampaignStep, ModelStep, PartsMove
<1>3. AiInv /\ CmInv /\ MbInv => AgentWorkIsBounded
  BY DEF AiInv, CmInv, MbInv, AgentWorkIsBounded
<1> QED BY <1>1, <1>2, <1>3, PTL DEF Spec

-----------------------------------------------------------------------------
(* AgentDelivery.                                                          *)

DlTaskRow == [state : {"none", "active", "unverified", "completed", "stopped"},
              cycle : Nat, base : Nat, pushed : BOOLEAN]
DlAccRow == [state : {"none", "reviewing", "superseded", "needs_attention", "changes_requested",
                      "awaiting_acceptance", "checks_failed", "accepted"},
             decision : {"none", "accepted", "changes_requested"},
             decisions : Nat, fresh : BOOLEAN, by : Monitors \cup {"none"}]
DlMonRow == [pc : {"idle", "observe", "finish", "recover", "prove"}, task : Nat, head : Nat,
             draft : {"none", "open", "closed", "unavailable"}]

DlTyped ==
    /\ dlTask \in [DlTasks -> DlTaskRow] /\ dlAcc \in [DlTasks -> DlAccRow]
    /\ dlMonitor \in [Monitors -> DlMonRow]
    /\ dlHead \in Nat /\ dlDraft \in {"open", "closed"}

\* The tasks of the branch come one after the other, so a new one never takes
\* the place of another.
DlUpTo(k) == \A t \in DlTasks : dlTask[t].state # "none" <=> t <= k
DlPrefix == \E k \in 0..MaxRevisions : DlUpTo(k)

\* Acceptance is recorded, and observed, for completed tasks only.
DlRecorded ==
    /\ \A t \in DlTasks : dlAcc[t].state # "none" => dlTask[t].state = "completed"
    /\ \A w \in Monitors : dlMonitor[w].pc \in {"observe", "finish"} =>
          dlMonitor[w].task \in DlTasks /\ dlTask[dlMonitor[w].task].state = "completed"
    /\ \A w \in Monitors : dlMonitor[w].pc \in {"recover", "prove"} => dlMonitor[w].task \in DlTasks

DlInv == DlTyped /\ DlPrefix /\ DlRecorded

LEMMA DeliveryInit == DlInit => DlInv
<1> SUFFICES ASSUME DlInit PROVE DlInv
  OBVIOUS
<1>1. MaxRevisions \in Nat /\ MaxRevisions >= 1
  BY DeliveryAssumption
<1>2. DlTyped
  <2>1. dlTask \in [DlTasks -> DlTaskRow]
    BY DEF DlInit, DlNoTask, DlTaskRow
  <2>2. dlAcc \in [DlTasks -> DlAccRow] /\ dlMonitor \in [Monitors -> DlMonRow]
    BY DEF DlInit, DlNoAcc, DlIdle, DlAccRow, DlMonRow
  <2> QED BY <2>1, <2>2 DEF DlInit, DlTyped
<1>3. DlUpTo(1)
  BY <1>1 DEF DlInit, DlUpTo, DlTasks, DlNoTask
<1>4. DlRecorded
  BY DEF DlInit, DlRecorded, DlNoAcc, DlIdle
<1> QED BY <1>1, <1>2, <1>3, <1>4 DEF DlInv, DlPrefix

\* The number of tasks is the number of the newest.
LEMMA NewestTask ==
    ASSUME NEW k \in 0..MaxRevisions, DlUpTo(k)
    PROVE  Cardinality(DlUsed) = k
<1>1. MaxRevisions \in Nat
  BY DeliveryAssumption
<1>2. DlUsed = 1..k
  BY <1>1 DEF DlUsed, DlUpTo, DlTasks
<1>3. Cardinality(1..k) = IF 1 > k THEN 0 ELSE k - 1 + 1
  <2>1. 1 \in Int /\ k \in Int
    BY <1>1
  <2> QED BY <2>1, FS_Interval
<1> QED BY <1>1, <1>2, <1>3

\* What a step may do to the tasks: completed ones stay so.
DlTasksKept ==
    /\ dlTask' \in [DlTasks -> DlTaskRow] /\ DlPrefix'
    /\ \A t \in DlTasks : dlTask[t].state = "completed" => dlTask'[t].state = "completed"

LEMMA ChildIsNew ==
    ASSUME DlInv, NEW parent \in DlTasks, NEW rejected \in BOOLEAN,
           Cardinality(DlUsed) < MaxRevisions, dlTask' = DlChild(parent, rejected)
    PROVE  DlTasksKept
<1>1. PICK k \in 0..MaxRevisions : DlUpTo(k)
  BY DEF DlInv, DlPrefix
<1>2. Cardinality(DlUsed) = k
  BY <1>1, NewestTask
<1>3. MaxRevisions \in Nat /\ k \in Nat /\ k + 1 \in DlTasks /\ k + 1 \in 0..MaxRevisions
  BY <1>1, <1>2, DeliveryAssumption DEF DlTasks
<1> DEFINE row == [DlNoTask EXCEPT !.state = IF rejected THEN "stopped" ELSE "active",
                                   !.cycle = dlTask[parent].cycle + 1, !.base = parent]
<1>4. dlTask \in [DlTasks -> DlTaskRow]
  BY DEF DlInv, DlTyped
<1>5. row \in DlTaskRow /\ row.state # "none"
  <2>1. dlTask[parent].cycle + 1 \in Nat /\ parent \in Nat
    BY <1>3, <1>4 DEF DlTaskRow, DlTasks
  <2>2. DlNoTask \in DlTaskRow
    BY DEF DlNoTask, DlTaskRow
  <2>3. row \in DlTaskRow
    BY <2>1, <2>2, Zenon DEF DlTaskRow
  <2>4. row.state = IF rejected THEN "stopped" ELSE "active"
    BY DEF DlNoTask
  <2> QED BY <2>3, <2>4
<1>6. dlTask' = [dlTask EXCEPT ![k + 1] = row]
  BY <1>2 DEF DlChild
<1> HIDE DEF row
<1>7. /\ dlTask' \in [DlTasks -> DlTaskRow] /\ dlTask'[k + 1] = row
      /\ \A t \in DlTasks : t # k + 1 => dlTask'[t] = dlTask[t]
  BY <1>3, <1>4, <1>5, <1>6
<1>8. DlUpTo(k + 1)'
  <2>1. ASSUME NEW t \in DlTasks PROVE dlTask'[t].state # "none" <=> t <= k + 1
    BY <1>1, <1>3, <1>5, <1>7 DEF DlUpTo, DlTasks
  <2> QED BY <2>1 DEF DlUpTo
<1>9. \A t \in DlTasks : dlTask[t].state = "completed" => dlTask'[t].state = "completed"
  BY <1>1, <1>3, <1>7 DEF DlUpTo, DlTasks
<1> QED BY <1>3, <1>7, <1>8, <1>9 DEF DlTasksKept, DlPrefix

\* A task that is not new, and not completed, changes its state.
LEMMA TaskMoves ==
    ASSUME DlInv, NEW t \in DlTasks, NEW row \in DlTaskRow, row.state # "none",
           dlTask[t].state # "none", dlTask[t].state = "completed" => row.state = "completed",
           dlTask' = [dlTask EXCEPT ![t] = row]
    PROVE  DlTasksKept
<1>1. dlTask \in [DlTasks -> DlTaskRow]
  BY DEF DlInv, DlTyped
<1>2. PICK k \in 0..MaxRevisions : DlUpTo(k)
  BY DEF DlInv, DlPrefix
<1>3. /\ dlTask' \in [DlTasks -> DlTaskRow] /\ dlTask'[t] = row
      /\ \A u \in DlTasks : u # t => dlTask'[u] = dlTask[u]
  BY <1>1
<1>4. DlUpTo(k)'
  BY <1>2, <1>3 DEF DlUpTo
<1> QED BY <1>2, <1>3, <1>4 DEF DlTasksKept, DlPrefix

LEMMA TasksSame == ASSUME DlInv, dlTask' = dlTask PROVE DlTasksKept
BY DEF DlInv, DlTyped, DlTasksKept, DlPrefix, DlUpTo

\* The invariant from what a step did to tasks, acceptances and monitors.
LEMMA DeliveryFrom ==
    ASSUME DlInv, DlTasksKept,
           dlAcc' \in [DlTasks -> DlAccRow], dlMonitor' \in [Monitors -> DlMonRow],
           dlHead' \in Nat, dlDraft' \in {"open", "closed"},
           \A t \in DlTasks : dlAcc'[t].state # "none" =>
               dlAcc[t].state # "none" \/ dlTask'[t].state = "completed",
           \A w \in Monitors :
               \/ dlMonitor'[w].pc = "idle" \/ dlMonitor'[w] = dlMonitor[w]
               \/ /\ dlMonitor'[w].task \in DlTasks
                  /\ dlMonitor'[w].pc \in {"observe", "finish"} =>
                        dlTask[dlMonitor'[w].task].state = "completed"
    PROVE  DlInv'
<1>1. DlTyped' /\ DlPrefix'
  BY DEF DlTyped, DlTasksKept
<1>2. \A t \in DlTasks : dlAcc'[t].state # "none" => dlTask'[t].state = "completed"
  BY DEF DlInv, DlRecorded, DlTasksKept
<1>3. ASSUME NEW w \in Monitors
      PROVE  /\ dlMonitor'[w].pc \in {"observe", "finish"} =>
                   dlMonitor'[w].task \in DlTasks /\ dlTask'[dlMonitor'[w].task].state = "completed"
             /\ dlMonitor'[w].pc \in {"recover", "prove"} => dlMonitor'[w].task \in DlTasks
  BY <1>3 DEF DlInv, DlRecorded, DlTasksKept
<1> QED BY <1>1, <1>2, <1>3 DEF DlInv, DlRecorded

\* What a step that decides nothing may do to the acceptances and monitors.
DlAccKept ==
    /\ dlAcc' \in [DlTasks -> DlAccRow]
    /\ \A t \in DlTasks : dlAcc'[t].state # "none" =>
          dlAcc[t].state # "none" \/ dlTask'[t].state = "completed"
    /\ \A t \in DlTasks : dlAcc'[t].decision = "accepted" => dlAcc[t].decision = "accepted"
DlMonKept ==
    /\ dlMonitor' \in [Monitors -> DlMonRow]
    /\ \A w \in Monitors :
          \/ dlMonitor'[w].pc = "idle" \/ dlMonitor'[w] = dlMonitor[w]
          \/ /\ dlMonitor'[w].task \in DlTasks
             /\ dlMonitor'[w].pc \in {"observe", "finish"} =>
                   dlTask[dlMonitor'[w].task].state = "completed"

LEMMA DeliveryUndecided ==
    ASSUME DlInv, DlTasksKept, DlAccKept, DlMonKept,
           dlHead' \in Nat, dlDraft' \in {"open", "closed"}
    PROVE  DlInv' /\ AcceptedIsNewest
<1>1. DlInv'
  BY DeliveryFrom DEF DlAccKept, DlMonKept
<1>2. AcceptedIsNewest
  BY DEF DlAccKept, AcceptedIsNewest
<1> QED BY <1>1, <1>2

LEMMA AccSame == ASSUME DlInv, dlAcc' = dlAcc PROVE DlAccKept
BY DEF DlInv, DlTyped, DlAccKept

LEMMA AccMoves ==
    ASSUME DlInv, NEW t \in DlTasks, NEW row \in DlAccRow, row.decision = dlAcc[t].decision,
           row.state # "none" => (dlAcc[t].state # "none" \/ dlTask'[t].state = "completed"),
           dlAcc' = [dlAcc EXCEPT ![t] = row]
    PROVE  DlAccKept
<1>1. dlAcc \in [DlTasks -> DlAccRow]
  BY DEF DlInv, DlTyped
<1>2. /\ dlAcc' \in [DlTasks -> DlAccRow] /\ dlAcc'[t] = row
      /\ \A u \in DlTasks : u # t => dlAcc'[u] = dlAcc[u]
  BY <1>1
<1> QED BY <1>2 DEF DlAccKept

LEMMA AccRecorded ==
    ASSUME DlInv, NEW t \in DlTasks, recordAgentDelivery(t), dlTask'[t].state = "completed"
    PROVE  DlAccKept
<1>1. dlAcc \in [DlTasks -> DlAccRow]
  BY DEF DlInv, DlTyped
<1> DEFINE new == [DlNoAcc EXCEPT !.state = "reviewing"]
           old(u) == [dlAcc[u] EXCEPT !.state = "superseded"]
<1>2. new \in DlAccRow /\ new.decision = "none"
  BY DEF DlNoAcc, DlAccRow
<1>3. ASSUME NEW u \in DlTasks
      PROVE  old(u) \in DlAccRow /\ old(u).decision = dlAcc[u].decision
  <2>1. dlAcc[u] \in DlAccRow
    BY <1>1
  <2>2. old(u) \in DlAccRow
    BY <2>1, Zenon DEF DlAccRow
  <2>3. old(u).decision = dlAcc[u].decision
    BY <2>1 DEF DlAccRow
  <2> QED BY <2>2, <2>3
<1>4. dlAcc' = [u \in DlTasks |-> CASE u = t /\ dlAcc[u].state = "none" -> new
                                    [] u # t /\ dlAcc[u].state \notin {"none", "superseded"} -> old(u)
                                    [] OTHER -> dlAcc[u]]
  BY DEF recordAgentDelivery
<1> HIDE DEF new, old
<1>5. ASSUME NEW u \in DlTasks
      PROVE  \/ dlAcc'[u] = dlAcc[u]
             \/ u = t /\ dlAcc'[u] = new
             \/ dlAcc[u].state # "none" /\ dlAcc'[u] = old(u)
  <2>1. CASE u = t /\ dlAcc[u].state = "none"
    BY <1>4, <1>5, <2>1
  <2>2. CASE u # t /\ dlAcc[u].state \notin {"none", "superseded"}
    BY <1>4, <1>5, <2>2
  <2>3. CASE u = t /\ dlAcc[u].state # "none"
    <3>1. dlAcc'[u] = dlAcc[u]
      BY <1>4, <1>5, <2>3, Zenon
    <3> QED BY <3>1
  <2>4. CASE u # t /\ dlAcc[u].state \in {"none", "superseded"}
    <3>1. dlAcc'[u] = dlAcc[u]
      BY <1>4, <1>5, <2>4, Zenon
    <3> QED BY <3>1
  <2> QED BY <2>1, <2>2, <2>3, <2>4
<1>6. DOMAIN dlAcc' = DlTasks /\ dlAcc' = [u \in DlTasks |-> dlAcc'[u]]
  BY <1>4
<1>7. \A u \in DlTasks : dlAcc'[u] \in DlAccRow
  BY <1>1, <1>2, <1>3, <1>5
<1>8. dlAcc' \in [DlTasks -> DlAccRow]
  BY <1>6, <1>7
<1>9. \A u \in DlTasks : dlAcc'[u].state # "none" =>
          dlAcc[u].state # "none" \/ dlTask'[u].state = "completed"
  BY <1>5
<1>10. \A u \in DlTasks : dlAcc'[u].decision = "accepted" => dlAcc[u].decision = "accepted"
  BY <1>2, <1>3, <1>5
<1> QED BY <1>8, <1>9, <1>10 DEF DlAccKept

LEMMA MonSame == ASSUME DlInv, dlMonitor' = dlMonitor PROVE DlMonKept
BY DEF DlInv, DlTyped, DlMonKept

LEMMA MonMoves ==
    ASSUME DlInv, NEW w \in Monitors, NEW row \in DlMonRow,
           row.pc # "idle" => (row.task \in DlTasks
               /\ (row.pc \in {"observe", "finish"} => dlTask[row.task].state = "completed")),
           dlMonitor' = [dlMonitor EXCEPT ![w] = row]
    PROVE  DlMonKept
<1>1. dlMonitor \in [Monitors -> DlMonRow]
  BY DEF DlInv, DlTyped
<1>2. /\ dlMonitor' \in [Monitors -> DlMonRow] /\ dlMonitor'[w] = row
      /\ \A v \in Monitors : v # w => dlMonitor'[v] = dlMonitor[v]
  BY <1>1
<1> QED BY <1>2 DEF DlMonKept

\* A repair adds a task or changes nothing.
LEMMA RepairKeeps ==
    ASSUME DlInv, NEW t \in DlTasks, NEW key, prepareAgentRepair(t, key)
    PROVE  DlTasksKept
<1>1. CASE dlTask' = dlTask
  BY <1>1, TasksSame
<1>2. CASE DlRepairable(t, key) /\ \E rejected \in BOOLEAN : dlTask' = DlChild(t, rejected)
  BY <1>2, ChildIsNew DEF DlRepairable
<1> QED BY <1>1, <1>2 DEF prepareAgentRepair

\* The monitor of a claim, and what it holds.
LEMMA MonitorHolds ==
    ASSUME DlInv, NEW w \in Monitors
    PROVE  /\ dlMonitor[w] \in DlMonRow
           /\ dlMonitor[w].pc # "idle" => dlMonitor[w].task \in DlTasks
           /\ dlMonitor[w].pc \in {"observe", "finish"} => dlTask[dlMonitor[w].task].state = "completed"
<1>1. dlMonitor[w] \in DlMonRow
  BY DEF DlInv, DlTyped
<1>2. dlMonitor[w].pc \in {"idle", "observe", "finish", "recover", "prove"}
  BY <1>1 DEF DlMonRow
<1> QED BY <1>1, <1>2 DEF DlInv, DlRecorded

LEMMA TaskAndAcc ==
    ASSUME DlInv, NEW t \in DlTasks
    PROVE  /\ dlTask[t] \in DlTaskRow /\ dlAcc[t] \in DlAccRow
           /\ dlAcc[t].state # "none" => dlTask[t].state = "completed"
BY DEF DlInv, DlTyped, DlRecorded

LEMMA MonitorIdles ==
    ASSUME DlInv, NEW w \in Monitors, dlMonitor' = [dlMonitor EXCEPT ![w] = DlIdle]
    PROVE  DlMonKept
<1>1. DlIdle \in DlMonRow /\ DlIdle.pc = "idle"
  BY DEF DlIdle, DlMonRow
<1> QED BY <1>1, MonMoves

LEMMA DeliveryTasks ==
    ASSUME DlInv, NEW t \in DlTasks, DlPush(t) \/ DlDelivered(t) \/ DlNotDelivered(t)
    PROVE  DlInv' /\ AcceptedIsNewest
<1>1. dlTask[t] \in DlTaskRow /\ t \in Nat
  BY TaskAndAcc, DeliveryAssumption DEF DlTasks
<1>2. dlHead \in Nat /\ dlDraft \in {"open", "closed"}
  BY DEF DlInv, DlTyped
<1>3. CASE DlPush(t)
  <2> DEFINE row == [dlTask[t] EXCEPT !.pushed = TRUE]
  <2>1. row \in DlTaskRow /\ row.state = "active" /\ dlTask[t].state = "active"
    <3>1. row \in DlTaskRow
      BY <1>1, Zenon DEF DlTaskRow
    <3> QED BY <1>1, <1>3, <3>1 DEF DlPush, DlTaskRow
  <2>2. dlTask' = [dlTask EXCEPT ![t] = row]
    BY <1>3, Zenon DEF DlPush
  <2> HIDE DEF row
  <2>3. DlTasksKept
    BY <2>1, <2>2, TaskMoves
  <2>4. DlAccKept /\ DlMonKept /\ dlHead' \in Nat /\ dlDraft' \in {"open", "closed"}
    BY <1>1, <1>2, <1>3, AccSame, MonSame DEF DlPush
  <2> QED BY <2>3, <2>4, DeliveryUndecided
<1>4. CASE DlDelivered(t)
  <2> DEFINE row == [dlTask[t] EXCEPT !.state = "completed"]
  <2>1. row \in DlTaskRow /\ row.state = "completed" /\ dlTask[t].state = "active"
    <3>1. row \in DlTaskRow
      BY <1>1, Zenon DEF DlTaskRow
    <3> QED BY <1>1, <1>4, <3>1 DEF DlDelivered, DlTaskRow
  <2>2. dlTask' = [dlTask EXCEPT ![t] = row]
    BY <1>4, Zenon DEF DlDelivered
  <2> HIDE DEF row
  <2>3. DlTasksKept
    BY <2>1, <2>2, TaskMoves
  <2>4. dlTask'[t].state = "completed"
    BY <2>1, <2>2 DEF DlInv, DlTyped
  <2>5. DlAccKept /\ DlMonKept /\ dlHead' \in Nat /\ dlDraft' \in {"open", "closed"}
    BY <1>2, <1>4, <2>4, AccRecorded, MonSame DEF DlDelivered
  <2> QED BY <2>3, <2>5, DeliveryUndecided
<1>5. CASE DlNotDelivered(t)
  <2> DEFINE end == IF dlTask[t].pushed /\ t # 1 THEN "unverified" ELSE "stopped"
             row == [dlTask[t] EXCEPT !.state = end]
  <2>1. end \in {"unverified", "stopped"}
    OBVIOUS
  <2>2. row \in DlTaskRow /\ row.state = end /\ dlTask[t].state = "active"
    <3> HIDE DEF end
    <3>1. row \in DlTaskRow
      BY <1>1, <2>1, Zenon DEF DlTaskRow
    <3> QED BY <1>1, <1>5, <3>1 DEF DlNotDelivered, DlTaskRow
  <2>3. dlTask' = [dlTask EXCEPT ![t] = row]
    BY <1>5, Zenon DEF DlNotDelivered
  <2> HIDE DEF row, end
  <2>4. DlTasksKept
    BY <2>1, <2>2, <2>3, TaskMoves
  <2>5. DlAccKept /\ DlMonKept /\ dlHead' \in Nat /\ dlDraft' \in {"open", "closed"}
    BY <1>2, <1>5, AccSame, MonSame DEF DlNotDelivered
  <2> QED BY <2>4, <2>5, DeliveryUndecided
<1> QED BY <1>3, <1>4, <1>5

LEMMA DeliveryOutside ==
    ASSUME DlInv, \/ DlOutside \/ ProcessAgentTaskFeedback
                  \/ \E t \in DlTasks, o \in {"success", "blocked"} : DlReviewed(t, o)
    PROVE  DlInv' /\ AcceptedIsNewest
<1>1. dlHead \in Nat /\ dlDraft \in {"open", "closed"} /\ DlForeign \in Nat
  BY DeliveryAssumption DEF DlInv, DlTyped, DlForeign
<1>2. CASE DlOutside
  <2>1. DlTasksKept /\ DlAccKept /\ DlMonKept
    BY <1>2, TasksSame, AccSame, MonSame DEF DlOutside
  <2>2. dlHead' \in Nat /\ dlDraft' \in {"open", "closed"}
    BY <1>1, <1>2 DEF DlOutside
  <2> QED BY <2>1, <2>2, DeliveryUndecided
<1>3. CASE ProcessAgentTaskFeedback
  <2>1. DlTasksKept
    BY <1>3, ChildIsNew DEF ProcessAgentTaskFeedback
  <2>2. DlAccKept /\ DlMonKept /\ dlHead' \in Nat /\ dlDraft' \in {"open", "closed"}
    BY <1>1, <1>3, AccSame, MonSame DEF ProcessAgentTaskFeedback
  <2> QED BY <2>1, <2>2, DeliveryUndecided
<1>4. CASE \E t \in DlTasks, o \in {"success", "blocked"} : DlReviewed(t, o)
  <2>1. UNCHANGED <<dlTask, dlAcc, dlMonitor, dlHead, dlDraft>>
    BY <1>4 DEF DlReviewed
  <2>2. DlTasksKept /\ DlAccKept /\ DlMonKept
    BY <2>1, TasksSame, AccSame, MonSame
  <2> QED BY <1>1, <2>1, <2>2, DeliveryUndecided
<1> QED BY <1>2, <1>3, <1>4

LEMMA DeliveryClaims ==
    ASSUME DlInv, NEW w \in Monitors, NEW t \in DlTasks,
           ClaimAgentWorkflow(w, t) \/ ClaimAgentPublicationRecovery(w, t)
    PROVE  DlInv' /\ AcceptedIsNewest
<1>1. t \in Nat /\ dlAcc[t] \in DlAccRow /\ (dlAcc[t].state # "none" => dlTask[t].state = "completed")
  BY TaskAndAcc, DeliveryAssumption DEF DlTasks
<1>2. dlHead \in Nat /\ dlDraft \in {"open", "closed"}
  BY DEF DlInv, DlTyped
<1>3. DlTasksKept /\ dlHead' \in Nat /\ dlDraft' \in {"open", "closed"}
  BY <1>2, TasksSame DEF ClaimAgentWorkflow, ClaimAgentPublicationRecovery
<1>4. CASE ClaimAgentWorkflow(w, t)
  <2> DEFINE acc == [dlAcc[t] EXCEPT !.by = w]
             mon == [DlIdle EXCEPT !.pc = "observe", !.task = t]
  <2>1. acc \in DlAccRow /\ acc.decision = dlAcc[t].decision /\ acc.state = dlAcc[t].state
    <3>1. acc \in DlAccRow
      BY <1>1, Zenon DEF DlAccRow
    <3> QED BY <1>1, <3>1 DEF DlAccRow
  <2>2. mon \in DlMonRow /\ mon.pc = "observe" /\ mon.task = t
    BY <1>1 DEF DlIdle, DlMonRow
  <2>3. dlAcc' = [dlAcc EXCEPT ![t] = acc] /\ dlMonitor' = [dlMonitor EXCEPT ![w] = mon]
        /\ dlAcc[t].state # "none"
    BY <1>4, Zenon DEF ClaimAgentWorkflow
  <2> HIDE DEF acc, mon
  <2>4. DlAccKept
    BY <2>1, <2>3, AccMoves
  <2>5. DlMonKept
    BY <1>1, <2>2, <2>3, MonMoves
  <2> QED BY <1>3, <2>4, <2>5, DeliveryUndecided
<1>5. CASE ClaimAgentPublicationRecovery(w, t)
  <2> DEFINE mon == [DlIdle EXCEPT !.pc = "recover", !.task = t]
  <2>1. mon \in DlMonRow /\ mon.pc = "recover" /\ mon.task = t
    BY <1>1 DEF DlIdle, DlMonRow
  <2>2. dlMonitor' = [dlMonitor EXCEPT ![w] = mon] \/ dlMonitor' = dlMonitor
    BY <1>5, Zenon DEF ClaimAgentPublicationRecovery
  <2> HIDE DEF mon
  <2>3. DlMonKept
    BY <2>1, <2>2, MonMoves, MonSame
  <2>4. DlAccKept
    BY <1>5, AccSame DEF ClaimAgentPublicationRecovery
  <2> QED BY <1>3, <2>3, <2>4, DeliveryUndecided
<1> QED BY <1>4, <1>5

LEMMA DeliveryReads ==
    ASSUME DlInv, NEW w \in Monitors, ReadDraft(w) \/ ReadDraftFails(w)
    PROVE  DlInv' /\ AcceptedIsNewest
<1> DEFINE pc == DlAfterRead(w)
<1>1. PICK head \in Nat, draft \in {"open", "closed", "unavailable"} :
          dlMonitor' = [dlMonitor EXCEPT ![w] =
              [dlMonitor[w] EXCEPT !.pc = pc, !.head = head, !.draft = draft]]
  <2>1. dlHead \in Nat /\ dlDraft \in {"open", "closed"} /\ dlMonitor[w] \in DlMonRow
    BY MonitorHolds DEF DlInv, DlTyped
  <2>2. CASE ReadDraft(w)
    <3>1. dlMonitor' = [dlMonitor EXCEPT ![w] =
              [dlMonitor[w] EXCEPT !.pc = pc, !.head = dlHead, !.draft = dlDraft]]
      BY <2>2, Zenon DEF ReadDraft
    <3> QED BY <2>1, <3>1, Zenon
  <2>3. CASE ReadDraftFails(w)
    <3> DEFINE short == [dlMonitor[w] EXCEPT !.pc = pc, !.draft = "unavailable"]
               long == [dlMonitor[w] EXCEPT !.pc = pc, !.head = dlMonitor[w].head,
                                            !.draft = "unavailable"]
    <3>1. dlMonitor' = [dlMonitor EXCEPT ![w] = short]
      BY <2>3, Zenon DEF ReadDraftFails
    <3>2. dlMonitor[w].head \in Nat
      BY <2>1 DEF DlMonRow
    <3>3. short = long
      BY <2>1 DEF DlMonRow
    <3> QED BY <3>1, <3>2, <3>3, Zenon
  <2> QED BY <2>2, <2>3
<1> DEFINE row == [dlMonitor[w] EXCEPT !.pc = pc, !.head = head, !.draft = draft]
<1>2. dlMonitor[w] \in DlMonRow /\ dlMonitor[w].pc \in {"observe", "recover"}
  BY MonitorHolds DEF ReadDraft, ReadDraftFails
<1>3. pc \in {"finish", "prove"} /\ (pc = "finish" => dlMonitor[w].pc = "observe")
  BY DEF DlAfterRead
<1>4. row \in DlMonRow /\ row.pc = pc /\ row.task = dlMonitor[w].task
  <2> HIDE DEF pc
  <2>1. row \in DlMonRow
    BY <1>2, <1>3, Zenon DEF DlMonRow
  <2> QED BY <1>2, <2>1 DEF DlMonRow
<1>5. dlMonitor' = [dlMonitor EXCEPT ![w] = row]
  BY <1>1
<1> HIDE DEF row, pc
<1>6. DlMonKept
  BY <1>2, <1>3, <1>4, <1>5, MonMoves, MonitorHolds
<1>7. UNCHANGED <<dlTask, dlAcc, dlHead, dlDraft>>
  BY DEF ReadDraft, ReadDraftFails
<1>8. dlHead' \in Nat /\ dlDraft' \in {"open", "closed"}
  BY <1>7 DEF DlInv, DlTyped
<1> QED BY <1>6, <1>7, <1>8, TasksSame, AccSame, DeliveryUndecided

\* A verdict is one of the states of an acceptance.
LEMMA VerdictTyped ==
    ASSUME DlInv, NEW t \in DlTasks, NEW head, NEW draft, NEW checks
    PROVE  DlObserved(t, head, draft, checks) \in
             {"reviewing", "superseded", "needs_attention", "changes_requested",
              "awaiting_acceptance", "checks_failed", "accepted"}
<1>1. dlAcc[t].decision \in {"none", "accepted", "changes_requested"}
  BY TaskAndAcc DEF DlAccRow
<1> DEFINE state == CASE dlReview[t] = "blocked" -> "checks_failed"
                      [] dlReview[t] = "success" /\ checks = "passed" -> "awaiting_acceptance"
                      [] dlReview[t] = "success" /\ checks = "exhausted" -> "needs_attention"
                      [] dlReview[t] = "success" /\ checks = "failed" -> "checks_failed"
                      [] OTHER -> "reviewing"
<1>2. state \in {"checks_failed", "awaiting_acceptance", "needs_attention", "reviewing"}
  OBVIOUS
<1>3. DlObserved(t, head, draft, checks) =
         IF draft = "unavailable" THEN "needs_attention"
         ELSE IF head # t THEN "superseded"
         ELSE IF draft = "closed" THEN "changes_requested"
         ELSE IF state = "awaiting_acceptance" /\ dlAcc[t].decision # "none" THEN dlAcc[t].decision
         ELSE state
  BY DEF DlObserved
<1> HIDE DEF state
<1> QED BY <1>1, <1>2, <1>3

LEMMA DeliveryObserved ==
    ASSUME DlInv, NEW w \in Monitors, FinishAgentWorkflowObservation(w)
    PROVE  DlInv' /\ AcceptedIsNewest
<1> DEFINE t == dlMonitor[w].task
           fresh == dlMonitor[w].draft # "unavailable" /\ dlMonitor[w].head = t
<1>1. PICK checks \in DlChecks :
        LET state == DlObserved(t, dlMonitor[w].head, dlMonitor[w].draft, checks) IN
        /\ dlMonitor[w].pc = "finish"
        /\ dlMonitor' = [dlMonitor EXCEPT ![w] = DlIdle]
        /\ IF dlAcc[t].by # w THEN UNCHANGED <<dlAcc, dlTask, dlKeys>>
           ELSE /\ dlAcc' = [dlAcc EXCEPT ![t] =
                      [@ EXCEPT !.state = state, !.by = "none", !.fresh = fresh]]
                /\ IF /\ dlMonitor[w].head = t /\ dlMonitor[w].draft = "open"
                      /\ \/ dlAcc[t].decision = "changes_requested"
                         \/ state = "checks_failed" /\ dlAcc[t].decision = "none"
                   THEN prepareAgentRepair(t, DlRepairKey(t))
                   ELSE UNCHANGED <<dlTask, dlKeys>>
        /\ UNCHANGED <<dlRecovery, dlHead, dlDraft, dlReview, dlFailures>>
  BY Zenon DEF FinishAgentWorkflowObservation
<1> DEFINE state == DlObserved(t, dlMonitor[w].head, dlMonitor[w].draft, checks)
           row == [dlAcc[t] EXCEPT !.state = state, !.by = "none", !.fresh = fresh]
<1>2. t \in DlTasks /\ dlTask[t].state = "completed"
  BY <1>1, MonitorHolds
<1>3. dlAcc[t] \in DlAccRow /\ state \in {"reviewing", "superseded", "needs_attention",
        "changes_requested", "awaiting_acceptance", "checks_failed", "accepted"} /\ fresh \in BOOLEAN
  <2>1. dlAcc[t] \in DlAccRow
    BY <1>2, TaskAndAcc
  <2>2. state \in {"reviewing", "superseded", "needs_attention",
        "changes_requested", "awaiting_acceptance", "checks_failed", "accepted"}
    BY <1>2, VerdictTyped
  <2>3. fresh \in BOOLEAN
    BY Zenon
  <2> QED BY <2>1, <2>2, <2>3
<1>4. row \in DlAccRow /\ row.decision = dlAcc[t].decision
  <2> HIDE DEF state, fresh, t
  <2>1. row \in DlAccRow
    BY <1>3, Zenon DEF DlAccRow
  <2> QED BY <1>3, <2>1 DEF DlAccRow
<1>5. DlMonKept
  BY <1>1, MonitorIdles
<1>6. \/ UNCHANGED <<dlAcc, dlTask, dlKeys>>
      \/ /\ dlAcc' = [dlAcc EXCEPT ![t] = row]
         /\ prepareAgentRepair(t, DlRepairKey(t)) \/ UNCHANGED <<dlTask, dlKeys>>
  <2>1. CASE dlAcc[t].by # w
    BY <1>1, <2>1, Zenon
  <2>2. CASE dlAcc[t].by = w
    BY <1>1, <2>2, Zenon
  <2> QED BY <2>1, <2>2
<1>7. dlHead' \in Nat /\ dlDraft' \in {"open", "closed"}
  BY <1>1 DEF DlInv, DlTyped
<1> HIDE DEF row, state, fresh, t
<1>8. DlTasksKept
  <2>1. CASE prepareAgentRepair(t, DlRepairKey(t))
    BY <1>2, <2>1, RepairKeeps
  <2>2. CASE UNCHANGED dlTask
    BY <2>2, TasksSame
  <2> QED BY <1>6, <2>1, <2>2
<1>9. DlAccKept
  <2>1. CASE UNCHANGED dlAcc
    BY <2>1, AccSame
  <2>2. CASE dlAcc' = [dlAcc EXCEPT ![t] = row]
    <3>1. dlTask'[t].state = "completed"
      BY <1>2, <1>8 DEF DlTasksKept
    <3> QED BY <1>2, <1>4, <2>2, <3>1, AccMoves
  <2> QED BY <1>6, <2>1, <2>2
<1> QED BY <1>5, <1>7, <1>8, <1>9, DeliveryUndecided

LEMMA DeliveryRecovered ==
    ASSUME DlInv, NEW w \in Monitors, FinishAgentPublicationRecovery(w)
    PROVE  DlInv' /\ AcceptedIsNewest
<1> DEFINE t == dlMonitor[w].task
           row == [dlTask[t] EXCEPT !.state = "completed"]
<1>1. /\ dlMonitor[w].pc = "prove" /\ dlMonitor' = [dlMonitor EXCEPT ![w] = DlIdle]
      /\ UNCHANGED <<dlHead, dlDraft>>
      /\ \/ UNCHANGED <<dlTask, dlAcc>>
         \/ /\ DlRecoverable(t) /\ dlTask' = [dlTask EXCEPT ![t] = row]
            /\ recordAgentDelivery(t)
  <2> DEFINE lost == dlRecovery[t].by # w \/ dlRecovery[t].state # "queued"
             won == dlRecovery[t].by = w /\ DlRecoverable(t) /\ dlMonitor[w].draft = "open"
                    /\ dlMonitor[w].head = t
  <2>1. CASE lost
    BY <2>1 DEF FinishAgentPublicationRecovery
  <2>2. CASE ~lost /\ won
    BY <2>2 DEF FinishAgentPublicationRecovery
  <2>3. CASE ~lost /\ ~won
    BY <2>3 DEF FinishAgentPublicationRecovery
  <2> QED BY <2>1, <2>2, <2>3
<1>2. t \in DlTasks
  BY <1>1, MonitorHolds
<1>3. dlTask[t] \in DlTaskRow
  BY <1>2, TaskAndAcc
<1>4. row \in DlTaskRow /\ row.state = "completed"
  <2> HIDE DEF t
  <2>1. row \in DlTaskRow
    BY <1>3, Zenon DEF DlTaskRow
  <2> QED BY <1>3, <2>1 DEF DlTaskRow
<1>5. DlMonKept
  BY <1>1, MonitorIdles
<1>6. dlHead' \in Nat /\ dlDraft' \in {"open", "closed"}
  BY <1>1 DEF DlInv, DlTyped
<1> HIDE DEF row, t
<1>7. CASE UNCHANGED <<dlTask, dlAcc>>
  BY <1>5, <1>6, <1>7, TasksSame, AccSame, DeliveryUndecided
<1>8. CASE DlRecoverable(t) /\ dlTask' = [dlTask EXCEPT ![t] = row] /\ recordAgentDelivery(t)
  <2>1. DlTasksKept
    BY <1>2, <1>4, <1>8, TaskMoves DEF DlRecoverable
  <2>2. dlTask'[t].state = "completed"
    BY <1>2, <1>4, <1>8 DEF DlInv, DlTyped
  <2>3. DlAccKept
    BY <1>2, <1>8, <2>2, AccRecorded
  <2> QED BY <1>5, <1>6, <2>1, <2>3, DeliveryUndecided
<1> QED BY <1>1, <1>7, <1>8

LEMMA DeliveryLapses ==
    ASSUME DlInv, NEW t \in DlTasks, DlLeaseLapses(t)
    PROVE  DlInv' /\ AcceptedIsNewest
<1> DEFINE row == [dlAcc[t] EXCEPT !.by = "none"]
<1>1. dlAcc[t] \in DlAccRow /\ (dlAcc[t].state # "none" => dlTask[t].state = "completed")
  BY TaskAndAcc
<1>2. row \in DlAccRow /\ row.decision = dlAcc[t].decision /\ row.state = dlAcc[t].state
  <2>1. row \in DlAccRow
    BY <1>1, Zenon DEF DlAccRow
  <2> QED BY <1>1, <2>1 DEF DlAccRow
<1>3. dlAcc' = [dlAcc EXCEPT ![t] = row] \/ dlAcc' = dlAcc
  BY Zenon DEF DlLeaseLapses
<1> HIDE DEF row
<1>4. DlAccKept
  BY <1>2, <1>3, AccMoves, AccSame
<1>5. DlTasksKept /\ DlMonKept
  BY TasksSame, MonSame DEF DlLeaseLapses
<1>6. dlHead' \in Nat /\ dlDraft' \in {"open", "closed"}
  BY DEF DlInv, DlTyped, DlLeaseLapses
<1> QED BY <1>4, <1>5, <1>6, DeliveryUndecided

\* An acceptance is refused while a newer task lives; what has no task, or one
\* that stopped, has no acceptance to be newer.
LEMMA DeliveryDecides ==
    ASSUME DlInv, NEW t \in DlTasks, NEW d \in {"accepted", "changes_requested"},
           DecideAgentTaskAcceptance(t, d)
    PROVE  DlInv' /\ AcceptedIsNewest
<1> DEFINE row == [dlAcc[t] EXCEPT !.state = d, !.decision = d,
                                   !.decisions = dlAcc[t].decisions + 1]
<1>1. dlAcc \in [DlTasks -> DlAccRow] /\ dlAcc[t] \in DlAccRow
      /\ (dlAcc[t].state # "none" => dlTask[t].state = "completed")
  BY TaskAndAcc DEF DlInv, DlTyped
<1>2. row \in DlAccRow
  <2>1. dlAcc[t].decisions + 1 \in Nat
    BY <1>1 DEF DlAccRow
  <2> QED BY <1>1, <2>1, Zenon DEF DlAccRow
<1>3. dlAcc' = [dlAcc EXCEPT ![t] = row]
  BY Zenon DEF DecideAgentTaskAcceptance
<1>4. dlAcc[t].state # "none"
  BY DEF DecideAgentTaskAcceptance, DlDecidable
<1>5. DlTasksKept
  <2>1. prepareAgentRepair(t, <<"acceptance", t, dlAcc[t].decisions + 1>>) \/ dlTask' = dlTask
    BY DEF DecideAgentTaskAcceptance
  <2> QED BY <2>1, RepairKeeps, TasksSame
<1>6. DlMonKept /\ dlHead' \in Nat /\ dlDraft' \in {"open", "closed"}
  BY MonSame DEF DlInv, DlTyped, DecideAgentTaskAcceptance
<1>7. AcceptedIsNewest
  <2> HIDE DEF row
  <2>1. ASSUME NEW v \in DlTasks, dlAcc'[v].decision = "accepted", dlAcc[v].decision # "accepted"
        PROVE  v = t
    BY <1>1, <1>3, <2>1
  <2>2. ASSUME dlAcc'[t].decision = "accepted"
        PROVE  d = "accepted"
    <3>1. dlAcc'[t] = row /\ row.decision = d
      BY <1>1, <1>3 DEF row, DlAccRow
    <3> QED BY <2>2, <3>1
  <2>3. ASSUME d = "accepted" PROVE dlReview[t] = "success"
    BY <2>3 DEF DecideAgentTaskAcceptance, DlDecidable
  <2>4. \A u \in DlTasks : u > t => dlAcc[u].state = "none"
    <3>1. ~DlNewer(t)
      BY DEF DecideAgentTaskAcceptance
    <3> QED BY <3>1, TaskAndAcc DEF DlNewer, DlLive
  <2> QED BY <2>1, <2>2, <2>3, <2>4 DEF AcceptedIsNewest
<1>8. \A u \in DlTasks : dlAcc'[u].state # "none" =>
          dlAcc[u].state # "none" \/ dlTask'[u].state = "completed"
  <2> HIDE DEF row
  <2> QED BY <1>1, <1>3, <1>4
<1>9. dlAcc' \in [DlTasks -> DlAccRow]
  <2> HIDE DEF row
  <2> QED BY <1>1, <1>2, <1>3
<1> QED BY <1>5, <1>6, <1>7, <1>8, <1>9, DeliveryFrom DEF DlMonKept

LEMMA DeliveryStep == DlInv /\ [DlNext]_dlVars => DlInv' /\ AcceptedIsNewest
<1> SUFFICES ASSUME DlInv, [DlNext]_dlVars PROVE DlInv' /\ AcceptedIsNewest
  OBVIOUS
<1>1. ASSUME NEW t \in DlTasks, DlPush(t) \/ DlDelivered(t) \/ DlNotDelivered(t)
      PROVE  DlInv' /\ AcceptedIsNewest
  BY <1>1, DeliveryTasks
<1>2. ASSUME NEW t \in DlTasks, DlLeaseLapses(t) PROVE DlInv' /\ AcceptedIsNewest
  BY <1>2, DeliveryLapses
<1>3. ASSUME NEW t \in DlTasks, NEW d \in {"accepted", "changes_requested"},
             DecideAgentTaskAcceptance(t, d)
      PROVE  DlInv' /\ AcceptedIsNewest
  BY <1>3, DeliveryDecides
<1>4. CASE \/ DlOutside \/ ProcessAgentTaskFeedback
           \/ \E t \in DlTasks, o \in {"success", "blocked"} : DlReviewed(t, o)
  BY <1>4, DeliveryOutside
<1>5. ASSUME NEW w \in Monitors, DlObserve(w) PROVE DlInv' /\ AcceptedIsNewest
  BY <1>5, DeliveryClaims, DeliveryReads, DeliveryObserved, DeliveryRecovered DEF DlObserve
<1>6. CASE UNCHANGED dlVars
  <2>1. UNCHANGED <<dlTask, dlAcc, dlMonitor, dlHead, dlDraft>>
    BY <1>6 DEF dlVars
  <2>2. DlTasksKept /\ DlAccKept /\ DlMonKept
    BY <2>1, TasksSame, AccSame, MonSame
  <2>3. dlHead' \in Nat /\ dlDraft' \in {"open", "closed"}
    BY <2>1 DEF DlInv, DlTyped
  <2> QED BY <2>2, <2>3, DeliveryUndecided
<1> QED BY <1>1, <1>2, <1>3, <1>4, <1>5, <1>6 DEF DlNext

-----------------------------------------------------------------------------
(* AgentSource: only the version the task has now is shown, and a version  *)
(* of the task is never taken back.                                        *)

SrTaskRow == [state : {"received", "needs_attention", "awaiting_approval", "cancelled"},
              rev : Nat, source : {"pending", "ready", "failed"}]
SrInv == srTask \in SrTaskRow /\ srShown \in Nat /\ srShown <= srTask.rev

LEMMA SourceInit == SrInit => SrInv
BY DEF SrInit, SrInv, SrTaskRow

LEMMA SourceStep == SrInv /\ [SrNext]_srVars => SrInv' /\ StatusNeverGoesBack
<1> SUFFICES ASSUME SrInv, [SrNext]_srVars PROVE SrInv' /\ StatusNeverGoesBack
  OBVIOUS
<1> DEFINE Moves == srTask' \in SrTaskRow /\ srTask'.rev = srTask.rev + 1
<1>a. srTask \in SrTaskRow /\ srTask.rev \in Nat
  BY DEF SrInv, SrTaskRow
<1>1. ASSUME srTask' = srTask \/ Moves, srShown' = srShown
      PROVE  SrInv' /\ StatusNeverGoesBack
  BY <1>a, <1>1 DEF SrInv, StatusNeverGoesBack
<1>2. ASSUME NEW state \in {"received", "needs_attention", "awaiting_approval", "cancelled"},
             NEW source \in {"pending", "ready", "failed"},
             srTask' = [state |-> state, rev |-> srTask.rev + 1, source |-> source]
      PROVE  Moves
  BY <1>a, <1>2 DEF SrTaskRow
<1>3. ASSUME NEW w \in Admitters, NEW m \in srMail, BeginSource(w, m) \/ DropStaleSource(w, m)
      PROVE  SrInv' /\ StatusNeverGoesBack
  BY <1>1, <1>3 DEF BeginSource, DropStaleSource
<1>4. ASSUME NEW w \in Admitters, ScheduleAgentTaskSourceRetry(w)
      PROVE  SrInv' /\ StatusNeverGoesBack
  BY <1>1, <1>4 DEF ScheduleAgentTaskSourceRetry
<1>5. ASSUME NEW w \in Admitters, NEW source \in {"ready", "failed"}, SourceOutcome(w, source)
      PROVE  SrInv' /\ StatusNeverGoesBack
  <2>1. (srTask' = srTask \/ SrMoved(IF source = "ready" THEN "received" ELSE "needs_attention", source))
        /\ srShown' = srShown
    BY <1>5 DEF SourceOutcome
  <2>2. (IF source = "ready" THEN "received" ELSE "needs_attention") \in {"received", "needs_attention"}
    OBVIOUS
  <2> HIDE DEF Moves
  <2> QED BY <1>1, <1>2, <2>1, <2>2 DEF SrMoved
<1>6. CASE SrRetryAgentTaskSource
  BY <1>1, <1>2, <1>6 DEF SrRetryAgentTaskSource
<1>7. CASE SrPlanned
  BY <1>1, <1>2, <1>7 DEF SrPlanned, SrMoved
<1>8. CASE SrCancelled
  <2>1. srTask' = [srTask EXCEPT !.state = "cancelled", !.rev = srTask.rev + 1] /\ srShown' = srShown
    BY <1>8 DEF SrCancelled
  <2>2. srTask' = [state |-> "cancelled", rev |-> srTask.rev + 1, source |-> srTask.source]
        /\ srTask.source \in {"pending", "ready", "failed"}
    BY <1>a, <2>1 DEF SrTaskRow
  <2> QED BY <1>1, <1>2, <2>1, <2>2
<1>9. ASSUME NEW version \in srStatus, WithAgentTaskSourcePublicationFence(version)
      PROVE  SrInv' /\ StatusNeverGoesBack
  <2>1. version = srTask.rev /\ srShown' = version /\ srTask' = srTask
    BY <1>9, Zenon DEF WithAgentTaskSourcePublicationFence
  <2> QED BY <1>a, <2>1 DEF SrInv, StatusNeverGoesBack
<1>10. CASE UNCHANGED srVars
  BY <1>1, <1>10 DEF srVars
<1> QED BY <1>3, <1>4, <1>5, <1>6, <1>7, <1>8, <1>9, <1>10 DEF SrNext

-----------------------------------------------------------------------------
(* ReviewEntries.                                                          *)

ReRunRow == [head : Nat, state : {"active", "failed", "superseded", "completed", "cancelled"}]
ReHookRow == [state : {"none", "queued", "running", "skipped", "admitted", "failed"},
              received : Nat, attempt : Nat, worker : ReWorkers \cup {ReNobody}, live : BOOLEAN]
ReWorkerRow == [hook : Nat, attempt : Nat, step : {"idle", "claimed", "read"}]
ReScheduleRow == [state : {"none", "scheduled", "blocked", "cancelled", "coalesced", "admitted"},
                  head : Nat]

ReTyped ==
    /\ reHead \in Nat /\ reRuns \in Seq(ReRunRow)
    /\ reHook \in [ReHeads -> ReHookRow] /\ reWorker \in [ReWorkers -> ReWorkerRow]
    /\ reSchedule \in ReScheduleRow

\* Only the newest run is active, and no run has a head nobody pushed.
ReNewestActive == \A r \in DOMAIN reRuns :
    reRuns[r].head <= reHead /\ (reRuns[r].state = "active" => r = Len(reRuns))
ReReceived == \A h \in ReHeads :
    reHook[h].received <= Len(reRuns) /\ (reHook[h].state # "none" => h <= reHead)
ReAsked == \A w \in ReWorkers : reWorker[w].step # "idle" =>
    reWorker[w].hook \in ReHeads /\ reHook[reWorker[w].hook].state # "none"

\* Since the provider said that the head of the webhook is the newest, a run of
\* a newer head can only have been created after the webhook came in.
ReReadNewest == \A w \in ReWorkers : reWorker[w].step = "read" =>
    \A r \in DOMAIN reRuns :
        reRuns[r].head > reWorker[w].hook => r > reHook[reWorker[w].hook].received
ReScheduled == reSchedule.head <= reHead

ReInv == ReTyped /\ ReNewestActive /\ ReReceived /\ ReAsked /\ ReReadNewest /\ ReScheduled

LEMMA EntriesInit == ReInit => ReInv
<1> SUFFICES ASSUME ReInit PROVE ReInv
  OBVIOUS
<1>1. ReTyped
  <2>1. reHook \in [ReHeads -> ReHookRow]
    BY DEF ReInit, ReNoHook, ReHookRow
  <2>2. reWorker \in [ReWorkers -> ReWorkerRow]
    BY DEF ReInit, ReNoTask, ReWorkerRow
  <2>3. reHead \in Nat /\ reRuns \in Seq(ReRunRow) /\ reSchedule \in ReScheduleRow
    BY DEF ReInit, ReScheduleRow
  <2> QED BY <2>1, <2>2, <2>3 DEF ReTyped
<1>2. ReNewestActive /\ ReReceived
  BY DEF ReInit, ReNewestActive, ReReceived, ReNoHook
<1>3. ReAsked /\ ReReadNewest
  BY DEF ReInit, ReAsked, ReReadNewest, ReNoTask
<1>4. ReScheduled
  BY DEF ReInit, ReScheduled
<1> QED BY <1>1, <1>2, <1>3, <1>4 DEF ReInv

\* What a step may do to the runs.
ReRunsKept ==
    /\ reRuns' \in Seq(ReRunRow) /\ Len(reRuns') >= Len(reRuns)
    /\ \A r \in DOMAIN reRuns : reRuns'[r].head = reRuns[r].head
    /\ \A r \in DOMAIN reRuns' :
          reRuns'[r].head <= reHead /\ (reRuns'[r].state = "active" => r = Len(reRuns'))

LEMMA RunsSame == ASSUME ReInv, reRuns' = reRuns PROVE ReRunsKept
<1>1. Len(reRuns) \in Nat
  BY DEF ReInv, ReTyped
<1> QED BY <1>1 DEF ReInv, ReTyped, ReNewestActive, ReRunsKept

LEMMA RunEnds ==
    ASSUME ReInv, NEW r, NEW state \in {"completed", "cancelled"},
           reRuns' = [reRuns EXCEPT ![r].state = state]
    PROVE  ReRunsKept
<1>1. reRuns \in Seq(ReRunRow) /\ Len(reRuns) \in Nat /\ DOMAIN reRuns = 1..Len(reRuns)
  BY DEF ReInv, ReTyped
<1>2. \A q \in DOMAIN reRuns : reRuns[q] \in ReRunRow
  BY <1>1
<1> DEFINE row == [reRuns[r] EXCEPT !.state = state]
<1>3. reRuns' = [reRuns EXCEPT ![r] = row]
  BY Zenon
<1>4. CASE r \in DOMAIN reRuns
  <2>1. row \in ReRunRow
    BY <1>2, <1>4, Zenon DEF ReRunRow
  <2>2. row.state = state /\ row.head = reRuns[r].head
    BY <1>2, <1>4 DEF ReRunRow
  <2> HIDE DEF row
  <2>3. reRuns' \in Seq(ReRunRow) /\ Len(reRuns') = Len(reRuns)
    BY <1>1, <1>3, <1>4, <2>1, SequenceUpdate
  <2>4. \A q \in DOMAIN reRuns : reRuns'[q] = IF q = r THEN row ELSE reRuns[q]
    BY <1>3, <1>4
  <2> QED BY <1>1, <2>2, <2>3, <2>4 DEF ReInv, ReNewestActive, ReRunsKept
<1>5. CASE r \notin DOMAIN reRuns
  <2> HIDE DEF row
  <2>1. reRuns' = reRuns
    BY <1>1, <1>3, <1>5
  <2> QED BY <2>1, RunsSame
<1> QED BY <1>4, <1>5

LEMMA RunsSuperseded ==
    ASSUME ReInv, NEW h
    PROVE  /\ ReSuperseded(h) \in Seq(ReRunRow) /\ Len(ReSuperseded(h)) = Len(reRuns)
           /\ \A r \in DOMAIN reRuns :
                 /\ ReSuperseded(h)[r].head = reRuns[r].head
                 /\ ReSuperseded(h)[r].state = "active" =>
                       reRuns[r].state = "active" /\ reRuns[r].head = h
<1>1. reRuns \in Seq(ReRunRow) /\ Len(reRuns) \in Nat /\ DOMAIN reRuns = 1..Len(reRuns)
  BY DEF ReInv, ReTyped
<1>2. \A r \in DOMAIN reRuns : reRuns[r] \in ReRunRow
  BY <1>1
<1> DEFINE gone(r) == [reRuns[r] EXCEPT !.state = "superseded"]
           replaced(r) == reRuns[r].state = "active" /\ reRuns[r].head # h
<1>3. ASSUME NEW r \in DOMAIN reRuns
      PROVE  gone(r) \in ReRunRow /\ gone(r).head = reRuns[r].head /\ gone(r).state = "superseded"
  <2>1. reRuns[r] \in ReRunRow
    BY <1>2
  <2>2. gone(r) \in ReRunRow
    BY <2>1, Zenon DEF ReRunRow
  <2> QED BY <2>1, <2>2 DEF ReRunRow
<1>4. ReSuperseded(h) = [r \in DOMAIN reRuns |-> IF replaced(r) THEN gone(r) ELSE reRuns[r]]
  BY Zenon DEF ReSuperseded
<1> DEFINE s == ReSuperseded(h)
<1>5. \A r \in DOMAIN reRuns : s[r] = IF replaced(r) THEN gone(r) ELSE reRuns[r]
  BY <1>4
<1> HIDE DEF gone
<1>6. \A r \in DOMAIN reRuns : s[r] \in ReRunRow
  BY <1>2, <1>3, <1>5
<1>7. s \in [1..Len(reRuns) -> ReRunRow]
  BY <1>1, <1>4, <1>6
<1>8. s \in Seq(ReRunRow) /\ Len(s) = Len(reRuns)
  <2> HIDE DEF s
  <2> QED BY <1>1, <1>7
<1>9. \A r \in DOMAIN reRuns : s[r].head = reRuns[r].head /\
          (s[r].state = "active" => (reRuns[r].state = "active" /\ reRuns[r].head = h))
  BY <1>3, <1>5
<1> QED BY <1>8, <1>9

LEMMA RunCreated ==
    ASSUME ReInv, NEW h \in Nat, h <= reHead, createWorkflowRun(h)
    PROVE  ReRunsKept
<1>1. reRuns \in Seq(ReRunRow) /\ Len(reRuns) \in Nat /\ DOMAIN reRuns = 1..Len(reRuns)
      /\ ReNewestActive
  BY DEF ReInv, ReTyped
<1> DEFINE s == ReSuperseded(h)
<1>2. s \in Seq(ReRunRow) /\ Len(s) = Len(reRuns) /\ DOMAIN s = 1..Len(reRuns)
  BY RunsSuperseded
<1>3. \A r \in DOMAIN reRuns : s[r].head = reRuns[r].head /\ s[r].head <= reHead /\
          (s[r].state = "active" => (reRuns[r].state = "active" /\ reRuns[r].head = h))
  BY <1>1, RunsSuperseded DEF ReNewestActive
<1>4. CASE ReActive(h) # {}
  <2>1. reRuns' = s
    BY <1>4 DEF createWorkflowRun
  <2> HIDE DEF s
  <2> QED BY <1>1, <1>2, <1>3, <2>1 DEF ReRunsKept, ReNewestActive
<1>5. CASE ReActive(h) = {}
  <2>1. PICK state \in {"active", "failed"} : reRuns' = Append(s, [head |-> h, state |-> state])
    BY <1>5 DEF createWorkflowRun
  <2>2. \A r \in DOMAIN reRuns : s[r].state # "active"
    BY <1>3, <1>5 DEF ReActive
  <2> DEFINE row == [head |-> h, state |-> state]
  <2>3. row \in ReRunRow /\ row.head = h
    BY DEF ReRunRow
  <2> HIDE DEF s, row
  <2>4. reRuns' \in Seq(ReRunRow) /\ Len(reRuns') = Len(reRuns) + 1
        /\ (\A r \in DOMAIN reRuns : reRuns'[r] = s[r]) /\ reRuns'[Len(reRuns) + 1] = row
    BY <1>1, <1>2, <2>1, <2>3 DEF row
  <2>5. DOMAIN reRuns' = 1..(Len(reRuns) + 1)
    BY <2>4
  <2>6. ASSUME NEW r \in DOMAIN reRuns'
        PROVE  reRuns'[r].head <= reHead /\ (reRuns'[r].state = "active" => r = Len(reRuns'))
    <3>1. CASE r = Len(reRuns) + 1
      BY <2>3, <2>4, <3>1
    <3>2. CASE r \in DOMAIN reRuns
      BY <1>3, <2>2, <2>4, <3>2
    <3> QED BY <1>1, <2>5, <2>6, <3>1, <3>2
  <2> QED BY <1>1, <1>3, <2>4, <2>6 DEF ReRunsKept
<1> QED BY <1>4, <1>5

\* The invariant from what a step did to heads, runs, webhooks and workers.
ReHooksKept ==
    /\ reHook' \in [ReHeads -> ReHookRow]
    /\ \A h \in ReHeads :
          /\ reHook[h].state # "none" =>
                reHook'[h].state # "none" /\ reHook'[h].received = reHook[h].received
          /\ reHook'[h].received \in {reHook[h].received, Len(reRuns)}
          /\ reHook'[h].state # "none" => reHook[h].state # "none" \/ h <= reHead
ReWorkersKept ==
    /\ reWorker' \in [ReWorkers -> ReWorkerRow]
    /\ \A w \in ReWorkers :
          \/ reWorker'[w] = reWorker[w]
          \/ reWorker'[w].step = "idle"
          \/ /\ reWorker'[w].step = "claimed"
             /\ reWorker'[w].hook \in ReHeads /\ reHook'[reWorker'[w].hook].state # "none"
          \/ /\ reWorker[w].step = "claimed" /\ reWorker'[w].hook = reWorker[w].hook
             /\ reHead = reWorker[w].hook

LEMMA EntriesFrom ==
    ASSUME ReInv, ReRunsKept, ReHooksKept, ReWorkersKept, reHead' \in Nat, reHead' >= reHead,
           reSchedule' \in ReScheduleRow, reSchedule'.head <= reHead
    PROVE  ReInv'
<1>1. /\ reHead \in Nat /\ Len(reRuns) \in Nat /\ DOMAIN reRuns = 1..Len(reRuns)
      /\ \A r \in DOMAIN reRuns : reRuns[r] \in ReRunRow
      /\ reHook \in [ReHeads -> ReHookRow] /\ reWorker \in [ReWorkers -> ReWorkerRow]
  BY DEF ReInv, ReTyped
<1>2. ReTyped'
  BY DEF ReRunsKept, ReHooksKept, ReWorkersKept, ReTyped
<1>3. /\ Len(reRuns') \in Nat /\ DOMAIN reRuns' = 1..Len(reRuns')
      /\ \A r \in DOMAIN reRuns' : reRuns'[r].head \in Nat
  <2>1. reRuns' \in Seq(ReRunRow)
    BY DEF ReRunsKept
  <2>2. \A r \in DOMAIN reRuns' : reRuns'[r] \in ReRunRow
    BY <2>1
  <2> QED BY <2>1, <2>2 DEF ReRunRow
<1>4. ReNewestActive'
  BY <1>1, <1>3 DEF ReRunsKept, ReNewestActive
<1>5. ReReceived'
  <2>1. ASSUME NEW h \in ReHeads
        PROVE  reHook'[h].received <= Len(reRuns') /\ (reHook'[h].state # "none" => h <= reHead')
    <3>1. reHook[h].received \in Nat /\ reHook[h].received <= Len(reRuns)
          /\ (reHook[h].state # "none" => h <= reHead)
      BY <1>1 DEF ReInv, ReReceived, ReHookRow
    <3>2. h \in Nat
      BY EntriesAssumption DEF ReHeads
    <3> QED BY <1>1, <1>3, <3>1, <3>2 DEF ReHooksKept, ReRunsKept
  <2> QED BY <2>1 DEF ReReceived
<1>6. ReAsked'
  <2>1. ASSUME NEW w \in ReWorkers, reWorker'[w].step # "idle"
        PROVE  reWorker'[w].hook \in ReHeads /\ reHook'[reWorker'[w].hook].state # "none"
    <3>1. reWorker[w].step # "idle" =>
              reWorker[w].hook \in ReHeads /\ reHook[reWorker[w].hook].state # "none"
      BY DEF ReInv, ReAsked
    <3> QED BY <2>1, <3>1 DEF ReWorkersKept, ReHooksKept
  <2> QED BY <2>1 DEF ReAsked
<1>7. ReReadNewest'
  <2>1. ASSUME NEW w \in ReWorkers, reWorker'[w].step = "read", NEW r \in DOMAIN reRuns',
               reRuns'[r].head > reWorker'[w].hook
        PROVE  r > reHook'[reWorker'[w].hook].received
    <3> DEFINE h == reWorker[w].hook
    <3>1. /\ reWorker'[w].hook = h /\ reWorker[w].step # "idle"
          /\ reWorker[w].step = "read" \/ reHead = h
      BY <2>1 DEF ReWorkersKept
    <3>2. h \in ReHeads /\ reHook[h].state # "none"
      BY <3>1 DEF ReInv, ReAsked
    <3>3. reHook'[h].received = reHook[h].received /\ reHook[h].received <= Len(reRuns)
          /\ reHook[h].received \in Nat
      BY <1>1, <3>2 DEF ReHooksKept, ReInv, ReReceived, ReHookRow
    <3>4. CASE r \in DOMAIN reRuns
      <4>1. reRuns[r].head > h /\ reRuns[r].head <= reHead
        BY <2>1, <3>1, <3>4 DEF ReRunsKept, ReInv, ReNewestActive
      <4>2. reRuns[r].head \in Nat /\ h \in Nat
        BY <1>1, <3>2, <3>4, EntriesAssumption DEF ReRunRow, ReHeads
      <4>3. reWorker[w].step = "read"
        BY <1>1, <3>1, <4>1, <4>2
      <4> QED BY <3>1, <3>3, <3>4, <4>1, <4>3 DEF ReInv, ReReadNewest
    <3>5. CASE r \notin DOMAIN reRuns
      BY <1>1, <1>3, <3>1, <3>3, <3>5
    <3> QED BY <3>4, <3>5
  <2> QED BY <2>1 DEF ReReadNewest
<1>8. ReScheduled'
  <2>1. reSchedule'.head \in Nat
    BY DEF ReScheduleRow
  <2> QED BY <1>1, <2>1 DEF ReScheduled
<1> QED BY <1>2, <1>4, <1>5, <1>6, <1>7, <1>8 DEF ReInv

LEMMA HooksSame == ASSUME ReInv, reHook' = reHook PROVE ReHooksKept
BY DEF ReInv, ReTyped, ReHooksKept

LEMMA HookMoves ==
    ASSUME ReInv, NEW h \in ReHeads, NEW row \in ReHookRow, reHook' = [reHook EXCEPT ![h] = row],
           row.state # "none", reHook[h].state # "none" \/ h <= reHead,
           \/ row.received = reHook[h].received
           \/ reHook[h].state = "none" /\ row.received = Len(reRuns)
    PROVE  ReHooksKept
<1>1. reHook \in [ReHeads -> ReHookRow]
  BY DEF ReInv, ReTyped
<1>2. /\ reHook' \in [ReHeads -> ReHookRow] /\ reHook'[h] = row
      /\ \A k \in ReHeads : k # h => reHook'[k] = reHook[k]
  BY <1>1
<1> QED BY <1>2 DEF ReHooksKept

\* A webhook that is not new changes the state of its admission.
LEMMA HookTurns ==
    ASSUME ReInv, NEW h \in ReHeads, reHook[h].state # "none",
           NEW state \in {"queued", "running", "skipped", "admitted", "failed"},
           NEW attempt \in Nat, NEW worker \in ReWorkers \cup {ReNobody}, NEW live \in BOOLEAN,
           reHook' = [reHook EXCEPT ![h] = [reHook[h] EXCEPT !.state = state,
                         !.attempt = attempt, !.worker = worker, !.live = live]]
    PROVE  ReHooksKept
<1> DEFINE row == [reHook[h] EXCEPT !.state = state, !.attempt = attempt,
                                    !.worker = worker, !.live = live]
<1>1. reHook[h] \in ReHookRow
  BY DEF ReInv, ReTyped
<1>2. row \in ReHookRow
  BY <1>1, Zenon DEF ReHookRow
<1>3. row.state = state /\ row.received = reHook[h].received
  BY <1>1, <1>2 DEF ReHookRow
<1>4. reHook' = [reHook EXCEPT ![h] = row]
  BY Zenon
<1> HIDE DEF row
<1> QED BY <1>2, <1>3, <1>4, HookMoves

LEMMA HookSettles ==
    ASSUME ReInv, NEW w \in ReWorkers, reWorker[w].step # "idle",
           NEW state \in {"queued", "skipped", "admitted", "failed"},
           ReSettled(reWorker[w].hook, state)
    PROVE  ReHooksKept
<1> DEFINE h == reWorker[w].hook
<1>1. h \in ReHeads /\ reHook[h].state # "none"
  BY DEF ReInv, ReAsked
<1>2. reHook[h] \in ReHookRow /\ reHook \in [ReHeads -> ReHookRow]
  BY <1>1 DEF ReInv, ReTyped
<1> DEFINE row == [reHook[h] EXCEPT !.state = state, !.worker = ReNobody, !.live = FALSE]
<1>3. reHook' = [reHook EXCEPT ![h] = row]
  BY Zenon DEF ReSettled
<1>4. row \in ReHookRow
  <2> HIDE DEF h
  <2>1. ReNobody \in ReWorkers \cup {ReNobody}
    OBVIOUS
  <2> QED BY <1>2, <2>1, Zenon DEF ReHookRow
<1>5. row.state = state /\ row.received = reHook[h].received
  BY <1>2, <1>4 DEF ReHookRow
<1> HIDE DEF row, h
<1> QED BY <1>1, <1>3, <1>4, <1>5, HookMoves

LEMMA WorkersSame == ASSUME ReInv, reWorker' = reWorker PROVE ReWorkersKept
BY DEF ReInv, ReTyped, ReWorkersKept

LEMMA WorkerReleased ==
    ASSUME ReInv, NEW w \in ReWorkers, ReReleases(w)
    PROVE  ReWorkersKept
<1>1. ReNoTask \in ReWorkerRow /\ ReNoTask.step = "idle"
  BY DEF ReNoTask, ReWorkerRow
<1>2. reWorker \in [ReWorkers -> ReWorkerRow]
  BY DEF ReInv, ReTyped
<1>3. /\ reWorker' \in [ReWorkers -> ReWorkerRow] /\ reWorker'[w] = ReNoTask
      /\ \A v \in ReWorkers : v # w => reWorker'[v] = reWorker[v]
  BY <1>1, <1>2 DEF ReReleases
<1> QED BY <1>1, <1>3 DEF ReWorkersKept

\* Nobody who has read lets go of the admission in this step.
ReNobodyCompletes ==
    \A w \in ReWorkers : reWorker[w].step = "read" => reWorker'[w] = reWorker[w]

LEMMA NobodyCompletes == ReNobodyCompletes => LookupKeepsNewerRun
BY DEF ReNobodyCompletes, LookupKeepsNewerRun, ReNoTask

LEMMA ScheduleKept ==
    ASSUME ReInv, reSchedule' = reSchedule
    PROVE  reSchedule' \in ReScheduleRow /\ reSchedule'.head <= reHead
BY DEF ReInv, ReTyped, ReScheduled

LEMMA ScheduleTurns ==
    ASSUME ReInv, NEW state \in {"blocked", "cancelled", "coalesced", "admitted"},
           reSchedule' = [reSchedule EXCEPT !.state = state]
    PROVE  reSchedule' \in ReScheduleRow /\ reSchedule'.head <= reHead
<1>1. reSchedule \in ReScheduleRow
  BY DEF ReInv, ReTyped
<1>2. reSchedule' \in ReScheduleRow
  BY <1>1, Zenon DEF ReScheduleRow
<1>3. reSchedule'.head = reSchedule.head
  BY <1>1 DEF ReScheduleRow
<1> QED BY <1>2, <1>3 DEF ReInv, ReScheduled

LEMMA HeadStays == ASSUME ReInv, reHead' = reHead PROVE reHead' \in Nat /\ reHead' >= reHead
BY DEF ReInv, ReTyped

LEMMA EntriesRuns ==
    ASSUME ReInv, \/ RePush \/ \E r \in DOMAIN reRuns : ReFinish(r) \/ CreateReviewSchedule(r)
                  \/ CancelReviewSchedule
                  \/ \E allowed \in BOOLEAN : AdmitDueReviewSchedule(allowed)
    PROVE  ReInv' /\ LookupKeepsNewerRun
<1>1. reHook' = reHook /\ reWorker' = reWorker
  BY DEF RePush, ReFinish, CreateReviewSchedule, CancelReviewSchedule, AdmitDueReviewSchedule
<1>2. ReHooksKept /\ ReWorkersKept /\ LookupKeepsNewerRun
  <2>1. ReNobodyCompletes
    BY <1>1 DEF ReNobodyCompletes
  <2> QED BY <1>1, <2>1, HooksSame, WorkersSame, NobodyCompletes
<1>3. CASE RePush
  <2>1. reHead' \in Nat /\ reHead' >= reHead
    BY <1>3 DEF RePush, ReInv, ReTyped
  <2>2. ReRunsKept /\ reSchedule' \in ReScheduleRow /\ reSchedule'.head <= reHead
    BY <1>3, RunsSame, ScheduleKept DEF RePush
  <2> QED BY <1>2, <2>1, <2>2, EntriesFrom
<1>4. ASSUME NEW r \in DOMAIN reRuns, ReFinish(r) PROVE ReInv'
  <2>1. reRuns' = [reRuns EXCEPT ![r].state = "completed"] /\ reSchedule' = reSchedule
        /\ reHead' = reHead
    BY <1>4, Zenon DEF ReFinish
  <2>2. ReRunsKept
    BY <2>1, RunEnds, Zenon
  <2> QED BY <1>2, <2>1, <2>2, ScheduleKept, HeadStays, EntriesFrom
<1>5. ASSUME NEW r \in DOMAIN reRuns, CreateReviewSchedule(r) PROVE ReInv'
  <2>1. reRuns' = reRuns /\ reHead' = reHead
        /\ reSchedule' = [state |-> "scheduled", head |-> reRuns[r].head]
    BY <1>5 DEF CreateReviewSchedule
  <2>2. reRuns[r].head <= reHead /\ reRuns[r].head \in Nat
    <3>1. reRuns[r] \in ReRunRow
      BY DEF ReInv, ReTyped
    <3> QED BY <3>1 DEF ReInv, ReNewestActive, ReRunRow
  <2>3. reSchedule' \in ReScheduleRow /\ reSchedule'.head <= reHead
    BY <2>1, <2>2 DEF ReScheduleRow
  <2> QED BY <1>2, <2>1, <2>3, RunsSame, HeadStays, EntriesFrom
<1>6. CASE CancelReviewSchedule
  <2>1. reRuns' = reRuns /\ reHead' = reHead /\ reSchedule' = [reSchedule EXCEPT !.state = "cancelled"]
    BY <1>6 DEF CancelReviewSchedule
  <2>2. reSchedule' \in ReScheduleRow /\ reSchedule'.head <= reHead
    BY <2>1, ScheduleTurns
  <2> QED BY <1>2, <2>1, <2>2, RunsSame, HeadStays, EntriesFrom
<1>7. ASSUME NEW allowed \in BOOLEAN, AdmitDueReviewSchedule(allowed) PROVE ReInv'
  <2>1. reSchedule.head \in Nat /\ reSchedule.head <= reHead
    BY DEF ReInv, ReTyped, ReScheduleRow, ReScheduled
  <2>2. reRuns' = reRuns \/ createWorkflowRun(reSchedule.head)
    BY <1>7 DEF AdmitDueReviewSchedule
  <2>3. ReRunsKept
    BY <2>1, <2>2, RunsSame, RunCreated
  <2>4. PICK state \in {"blocked", "coalesced", "admitted"} :
            reSchedule' = [reSchedule EXCEPT !.state = state]
    BY <1>7 DEF AdmitDueReviewSchedule
  <2>5. reSchedule' \in ReScheduleRow /\ reSchedule'.head <= reHead
    BY <2>4, ScheduleTurns
  <2>6. reHead' = reHead
    BY <1>7 DEF AdmitDueReviewSchedule
  <2> QED BY <1>2, <2>3, <2>5, <2>6, HeadStays, EntriesFrom
<1> QED BY <1>2, <1>3, <1>4, <1>5, <1>6, <1>7

LEMMA EntriesWebhook ==
    ASSUME ReInv, NEW h \in ReHeads, NEW policy \in {"skip", "admit", "author"},
           EnqueueWebhook(h, policy)
    PROVE  ReInv' /\ LookupKeepsNewerRun
<1>1. reWorker' = reWorker /\ reHead' = reHead /\ reSchedule' = reSchedule
      /\ h <= reHead /\ reHook[h].state = "none"
  BY DEF EnqueueWebhook
<1>2. reHook[h] \in ReHookRow /\ h \in Nat /\ Len(reRuns) \in Nat /\ reHook[h].received \in Nat
  <2>1. reHook[h] \in ReHookRow /\ Len(reRuns) \in Nat
    BY DEF ReInv, ReTyped
  <2> QED BY <2>1, EntriesAssumption DEF ReHeads, ReHookRow
<1>3. ReRunsKept
  <2>1. reRuns' = reRuns \/ createWorkflowRun(h)
    BY DEF EnqueueWebhook
  <2> QED BY <1>1, <1>2, <2>1, RunsSame, RunCreated
<1>4. ReHooksKept
  <2>1. ASSUME NEW state \in {"skipped", "admitted"},
               reHook' = [reHook EXCEPT ![h].state = state]
        PROVE  ReHooksKept
    <3> DEFINE row == [reHook[h] EXCEPT !.state = state]
    <3>1. row \in ReHookRow
      BY <1>2, Zenon DEF ReHookRow
    <3>2. row.state = state /\ row.received = reHook[h].received
      BY <1>2 DEF ReHookRow
    <3>3. reHook' = [reHook EXCEPT ![h] = row]
      BY <2>1, Zenon
    <3> HIDE DEF row
    <3> QED BY <1>1, <3>1, <3>2, <3>3, HookMoves
  <2>2. ASSUME reHook' = [reHook EXCEPT ![h].state = "queued", ![h].received = Len(reRuns)]
        PROVE  ReHooksKept
    <3> DEFINE row == [reHook[h] EXCEPT !.state = "queued", !.received = Len(reRuns)]
    <3>1. row \in ReHookRow
      BY <1>2, Zenon DEF ReHookRow
    <3>2. row.state = "queued" /\ row.received = Len(reRuns)
      BY <1>2 DEF ReHookRow
    <3>3. reHook' = [reHook EXCEPT ![h] = row]
      <4>1. reHook' = [[reHook EXCEPT ![h].state = "queued"] EXCEPT ![h].received = Len(reRuns)]
        BY <2>2, Zenon
      <4>2. reHook \in [ReHeads -> ReHookRow]
        BY DEF ReInv, ReTyped
      <4> DEFINE first == [reHook[h] EXCEPT !.state = "queued"]
                 mid == [reHook EXCEPT ![h] = first]
      <4>3. mid[h] = first
        <5> HIDE DEF first
        <5> QED BY <4>2
      <4>4. reHook' = [mid EXCEPT ![h] = [first EXCEPT !.received = Len(reRuns)]]
        <5>1. reHook' = [mid EXCEPT ![h] = [mid[h] EXCEPT !.received = Len(reRuns)]]
          BY <4>1, Zenon
        <5> QED BY <4>3, <5>1, Zenon
      <4>5. row = [first EXCEPT !.received = Len(reRuns)]
        BY Zenon
      <4> HIDE DEF first, row
      <4> QED BY <4>2, <4>4, <4>5
    <3> HIDE DEF row
    <3> QED BY <1>1, <3>1, <3>2, <3>3, HookMoves
  <2> QED BY <2>1, <2>2, Zenon DEF EnqueueWebhook
<1>5. LookupKeepsNewerRun
  BY <1>1, NobodyCompletes DEF ReNobodyCompletes
<1> QED BY <1>1, <1>3, <1>4, <1>5, WorkersSame, ScheduleKept, HeadStays, EntriesFrom

LEMMA EntriesSubmission ==
    ASSUME ReInv, NEW k \in CliKeys,
           \/ \E h \in ReHeads : SubmitCLIReview(k, h)
           \/ resolveCLIReviewSubmission(k) \/ RequestCLIReviewCancellation(k)
    PROVE  ReInv' /\ LookupKeepsNewerRun
<1>1. reWorker' = reWorker /\ reHead' = reHead /\ reSchedule' = reSchedule /\ reHook' = reHook
  BY DEF SubmitCLIReview, resolveCLIReviewSubmission, RequestCLIReviewCancellation
<1>2. ReRunsKept
  <2>1. ASSUME NEW h \in ReHeads, SubmitCLIReview(k, h) PROVE ReRunsKept
    <3>1. h \in Nat /\ h <= reHead /\ (reRuns' = reRuns \/ createWorkflowRun(h))
      BY <2>1, EntriesAssumption DEF SubmitCLIReview, ReHeads
    <3> QED BY <3>1, RunsSame, RunCreated
  <2>2. CASE resolveCLIReviewSubmission(k)
    BY <2>2, RunsSame DEF resolveCLIReviewSubmission
  <2>3. CASE RequestCLIReviewCancellation(k)
    <3>1. reRuns' = [reRuns EXCEPT ![reCli[k].run].state = "cancelled"]
      BY <2>3, Zenon DEF RequestCLIReviewCancellation
    <3> QED BY <3>1, RunEnds, Zenon
  <2> QED BY <2>1, <2>2, <2>3
<1>3. LookupKeepsNewerRun
  BY <1>1, NobodyCompletes DEF ReNobodyCompletes
<1> QED BY <1>1, <1>2, <1>3, HooksSame, WorkersSame, ScheduleKept, HeadStays, EntriesFrom

LEMMA EntriesClaimed ==
    ASSUME ReInv, NEW w \in ReWorkers, NEW h \in ReHeads, ClaimGitLabAuthorAdmission(w, h)
    PROVE  ReInv' /\ LookupKeepsNewerRun
<1>1. reRuns' = reRuns /\ reHead' = reHead /\ reSchedule' = reSchedule
      /\ reWorker[w] = ReNoTask /\ reHook[h].state # "none"
  BY DEF ClaimGitLabAuthorAdmission
<1>2. reHook \in [ReHeads -> ReHookRow] /\ reWorker \in [ReWorkers -> ReWorkerRow]
  BY DEF ReInv, ReTyped
<1>3. reHook[h].attempt + 1 \in Nat /\ h \in Nat
  BY <1>2, EntriesAssumption DEF ReHookRow, ReHeads
<1>4. reHook' = [reHook EXCEPT ![h] = [reHook[h] EXCEPT !.state = "running",
                    !.attempt = reHook[h].attempt + 1, !.worker = w, !.live = TRUE]]
  BY Zenon DEF ClaimGitLabAuthorAdmission
<1>5. ReHooksKept
  <2>1. w \in ReWorkers \cup {ReNobody} /\ TRUE \in BOOLEAN
    OBVIOUS
  <2> QED BY <1>1, <1>3, <1>4, <2>1, HookTurns
<1> DEFINE row == [hook |-> h, attempt |-> reHook[h].attempt + 1, step |-> "claimed"]
<1>6. reWorker' = [reWorker EXCEPT ![w] = row]
  BY DEF ClaimGitLabAuthorAdmission
<1>7. row \in ReWorkerRow /\ row.step = "claimed" /\ row.hook = h
  BY <1>3 DEF ReWorkerRow
<1> HIDE DEF row
<1>8. /\ reWorker' \in [ReWorkers -> ReWorkerRow] /\ reWorker'[w] = row
      /\ \A v \in ReWorkers : v # w => reWorker'[v] = reWorker[v]
  BY <1>2, <1>6, <1>7
<1>9. ReWorkersKept
  BY <1>1, <1>5, <1>7, <1>8 DEF ReWorkersKept, ReHooksKept
<1>10. LookupKeepsNewerRun
  BY <1>1, <1>8, NobodyCompletes DEF ReNobodyCompletes, ReNoTask
<1> QED BY <1>1, <1>5, <1>9, <1>10, RunsSame, ScheduleKept, HeadStays, EntriesFrom

LEMMA EntriesLookup ==
    ASSUME ReInv, NEW w \in ReWorkers, ResolveAuthor(w) \/ RetryGitLabAuthorAdmission(w)
    PROVE  ReInv' /\ LookupKeepsNewerRun
<1>1. reRuns' = reRuns /\ reHead' = reHead /\ reSchedule' = reSchedule
      /\ reWorker[w].step = "claimed"
  BY DEF ResolveAuthor, RetryGitLabAuthorAdmission
<1>2. reWorker \in [ReWorkers -> ReWorkerRow]
  BY DEF ReInv, ReTyped
<1>3. CASE ReReleases(w) /\ \/ reHook' = reHook
                            \/ \E state \in {"queued", "skipped", "failed"} :
                                  ReSettled(reWorker[w].hook, state)
  <2>1. ReWorkersKept
    BY <1>3, WorkerReleased
  <2>2. ReHooksKept
    BY <1>1, <1>3, HooksSame, HookSettles
  <2>3. \A v \in ReWorkers : v # w => reWorker'[v] = reWorker[v]
    BY <1>2, <1>3 DEF ReReleases
  <2>4. LookupKeepsNewerRun
    BY <1>1, <2>3, NobodyCompletes DEF ReNobodyCompletes
  <2> QED BY <1>1, <2>1, <2>2, <2>4, RunsSame, ScheduleKept, HeadStays, EntriesFrom
<1>4. CASE /\ reHead = reWorker[w].hook /\ reHook' = reHook
           /\ reWorker' = [reWorker EXCEPT ![w].step = "read"]
  <2> DEFINE row == [reWorker[w] EXCEPT !.step = "read"]
  <2>1. row \in ReWorkerRow
    BY <1>2, Zenon DEF ReWorkerRow
  <2>2. row.hook = reWorker[w].hook
    BY <1>2 DEF ReWorkerRow
  <2>3. reWorker' = [reWorker EXCEPT ![w] = row]
    BY <1>4, Zenon
  <2> HIDE DEF row
  <2>4. /\ reWorker' \in [ReWorkers -> ReWorkerRow] /\ reWorker'[w] = row
        /\ \A v \in ReWorkers : v # w => reWorker'[v] = reWorker[v]
    BY <1>2, <2>1, <2>3
  <2>5. ReWorkersKept
    BY <1>1, <1>4, <2>2, <2>4 DEF ReWorkersKept
  <2>6. LookupKeepsNewerRun
    BY <1>1, <2>4, NobodyCompletes DEF ReNobodyCompletes
  <2> QED BY <1>1, <1>4, <2>5, <2>6, HooksSame, RunsSame, ScheduleKept, HeadStays, EntriesFrom
<1>5. CASE ResolveAuthor(w)
  <2>1. CASE reHead = reWorker[w].hook
    BY <1>4, <1>5, <2>1, Zenon DEF ResolveAuthor
  <2>2. CASE reHead # reWorker[w].hook
    <3>1. ReReleases(w) /\ (reHook' = reHook \/ ReSettled(reWorker[w].hook, "skipped"))
      BY <1>5, <2>2, Zenon DEF ResolveAuthor
    <3> QED BY <1>3, <3>1
  <2> QED BY <2>1, <2>2
<1>6. CASE RetryGitLabAuthorAdmission(w)
  <2>1. PICK state \in {"queued", "failed"} :
            ReReleases(w) /\ (reHook' = reHook \/ ReSettled(reWorker[w].hook, state))
    <3>1. (IF reWorker[w].attempt >= MaxLookups THEN "failed" ELSE "queued") \in {"queued", "failed"}
      OBVIOUS
    <3> QED BY <1>6, <3>1, Zenon DEF RetryGitLabAuthorAdmission
  <2> QED BY <1>3, <2>1
<1> QED BY <1>5, <1>6

\* The read and the admission together: a run of a newer head is the newest run
\* and came in after the webhook, so the admission refuses.
LEMMA EntriesCompleted ==
    ASSUME ReInv, NEW w \in ReWorkers, NEW policy \in {"skip", "admit"},
           CompleteGitLabAuthorAdmission(w, policy)
    PROVE  ReInv' /\ LookupKeepsNewerRun
<1> DEFINE h == reWorker[w].hook
<1>1. reHead' = reHead /\ reSchedule' = reSchedule /\ reWorker[w].step = "read" /\ ReReleases(w)
  BY DEF CompleteGitLabAuthorAdmission
<1>2. h \in ReHeads /\ reHook[h].state # "none" /\ h \in Nat /\ h <= reHead
  <2>1. h \in ReHeads /\ reHook[h].state # "none"
    BY <1>1 DEF ReInv, ReAsked
  <2> QED BY <2>1, EntriesAssumption DEF ReInv, ReReceived, ReHeads
<1>3. \/ reHook' = reHook /\ reRuns' = reRuns
      \/ ReSettled(h, "skipped") /\ reRuns' = reRuns
      \/ ~ReNewer(h) /\ ReSettled(h, "admitted") /\ createWorkflowRun(h)
  BY Zenon DEF CompleteGitLabAuthorAdmission
<1>4. ReRunsKept
  BY <1>2, <1>3, RunsSame, RunCreated
<1>5. ReHooksKept
  BY <1>1, <1>3, HooksSame, HookSettles
<1>6. ReWorkersKept
  BY <1>1, WorkerReleased
<1>7. ReInv'
  BY <1>1, <1>4, <1>5, <1>6, ScheduleKept, HeadStays, EntriesFrom
<1>8. reWorker \in [ReWorkers -> ReWorkerRow]
  BY DEF ReInv, ReTyped
<1>9. LookupKeepsNewerRun
  <2> SUFFICES ASSUME NEW v \in ReWorkers, NEW r \in DOMAIN reRuns,
                      reWorker[v].step = "read", reWorker'[v] = ReNoTask,
                      reRuns[r].state = "active", reRuns[r].head > reWorker[v].hook
               PROVE  reRuns'[r].state = "active"
    BY DEF LookupKeepsNewerRun
  <2>1. v = w
    BY <1>1, <1>8 DEF ReReleases, ReNoTask
  <2>2. r = Len(reRuns) /\ r > reHook[h].received /\ Len(reRuns) \in Nat /\ r \in Nat
    BY <1>1, <2>1 DEF ReInv, ReTyped, ReNewestActive, ReReadNewest
  <2>3. r > 0 /\ reRuns[r].head # h
    <3>1. reRuns[r] \in ReRunRow
      BY DEF ReInv, ReTyped
    <3> QED BY <1>2, <2>1, <2>2, <3>1 DEF ReInv, ReTyped, ReRunRow
  <2>4. ReNewer(h)
    BY <2>2, <2>3 DEF ReNewer
  <2> QED BY <1>3, <2>4
<1> QED BY <1>7, <1>9

LEMMA EntriesStep == ReInv /\ [ReNext]_reVars => ReInv' /\ LookupKeepsNewerRun
<1> SUFFICES ASSUME ReInv, [ReNext]_reVars PROVE ReInv' /\ LookupKeepsNewerRun
  OBVIOUS
<1>1. CASE \/ RePush \/ \E r \in DOMAIN reRuns : ReFinish(r) \/ CreateReviewSchedule(r)
           \/ CancelReviewSchedule
           \/ \E allowed \in BOOLEAN : AdmitDueReviewSchedule(allowed)
  BY <1>1, EntriesRuns
<1>2. ASSUME NEW h \in ReHeads, NEW policy \in {"skip", "admit", "author"},
             EnqueueWebhook(h, policy)
      PROVE  ReInv' /\ LookupKeepsNewerRun
  BY <1>2, EntriesWebhook
<1>3. ASSUME NEW w \in ReWorkers, NEW h \in ReHeads, ClaimGitLabAuthorAdmission(w, h)
      PROVE  ReInv' /\ LookupKeepsNewerRun
  BY <1>3, EntriesClaimed
<1>4. ASSUME NEW w \in ReWorkers, ResolveAuthor(w) \/ RetryGitLabAuthorAdmission(w)
      PROVE  ReInv' /\ LookupKeepsNewerRun
  BY <1>4, EntriesLookup
<1>5. CASE ReCompletes
  BY <1>5, EntriesCompleted DEF ReCompletes
<1>6. ASSUME NEW h \in ReHeads, ReLeaseLapses(h) PROVE ReInv' /\ LookupKeepsNewerRun
  <2>1. UNCHANGED <<reHead, reRuns, reWorker, reSchedule>> /\ reHook[h].state # "none"
    BY <1>6 DEF ReLeaseLapses
  <2> DEFINE row == [reHook[h] EXCEPT !.live = FALSE]
  <2>2. reHook[h] \in ReHookRow
    BY DEF ReInv, ReTyped
  <2>3. row \in ReHookRow
    BY <2>2, Zenon DEF ReHookRow
  <2>4. row.state = reHook[h].state /\ row.received = reHook[h].received
    BY <2>2 DEF ReHookRow
  <2>5. reHook' = [reHook EXCEPT ![h] = row]
    BY <1>6, Zenon DEF ReLeaseLapses
  <2> HIDE DEF row
  <2>6. ReHooksKept
    BY <2>1, <2>3, <2>4, <2>5, HookMoves
  <2>7. LookupKeepsNewerRun
    BY <2>1, NobodyCompletes DEF ReNobodyCompletes
  <2> QED BY <2>1, <2>6, <2>7, RunsSame, WorkersSame, ScheduleKept, HeadStays, EntriesFrom
<1>7. ASSUME NEW k \in CliKeys,
             \/ \E h \in ReHeads : SubmitCLIReview(k, h)
             \/ resolveCLIReviewSubmission(k) \/ RequestCLIReviewCancellation(k)
      PROVE  ReInv' /\ LookupKeepsNewerRun
  BY <1>7, EntriesSubmission
<1>8. CASE UNCHANGED reVars
  <2>1. UNCHANGED <<reHead, reRuns, reHook, reWorker, reSchedule>>
    BY <1>8 DEF reVars
  <2>2. LookupKeepsNewerRun
    BY <2>1, NobodyCompletes DEF ReNobodyCompletes
  <2> QED BY <2>1, <2>2, RunsSame, HooksSame, WorkersSame, ScheduleKept, HeadStays, EntriesFrom
<1> QED BY <1>1, <1>2, <1>3, <1>4, <1>5, <1>6, <1>7, <1>8 DEF ReNext

\* Nobody accepts a commit that a recorded delivery of its branch replaced, the
\* status comment of a task never goes back, and a delayed author lookup never
\* replaces the run of a newer push.
THEOREM NewestWinsHolds == Spec => NewestWins
<1>1. Init => DlInv /\ SrInv /\ ReInv
  BY DeliveryInit, SourceInit, EntriesInit DEF Init
<1>2. DlInv /\ SrInv /\ ReInv /\ [Next]_vars =>
        /\ (DlInv /\ SrInv /\ ReInv)'
        /\ AcceptedIsNewest /\ StatusNeverGoesBack /\ LookupKeepsNewerRun
  BY DeliveryStep, SourceStep, EntriesStep, PartsMove
<1>3. DlInv /\ SrInv /\ ReInv /\ [Next]_vars =>
        [AcceptedIsNewest /\ StatusNeverGoesBack /\ LookupKeepsNewerRun]_vars
  BY <1>2
<1> QED BY <1>1, <1>2, <1>3, PTL DEF Spec, NewestWins

-----------------------------------------------------------------------------
(* Publication.                                                            *)

PbOpen == {"none", "in_progress"}
PbWriters == {"runner", "reporter"}
PbTexts == PbReported \cup {"none", "running", "completed"}
PbReporterRow == [pc : {"idle", "check", "write"}, attempt : Nat, state : PbTexts]

PbTyped ==
    /\ pbRun \in PbTexts /\ pbReporter \in PbReporterRow /\ pbMail \subseteq Nat
    /\ pbFound \in [PbWriters -> BOOLEAN] /\ pbComments \in Seq(PbTexts)

\* A comment that was found is still there, and the reporter writes its comment
\* only once the check is closed.
PbInv ==
    /\ PbTyped
    /\ \A w \in PbWriters : pbFound[w] => pbComments # <<>>
    /\ pbReporter.pc = "write" => pbCheck \notin PbOpen
    /\ NoEndIsSilent

LEMMA PublicationInit == PbInit => PbInv
<1> SUFFICES ASSUME PbInit PROVE PbInv
  OBVIOUS
<1>1. PbTyped
  <2>1. pbRun \in PbTexts /\ pbReporter \in PbReporterRow /\ pbMail \subseteq Nat
    BY DEF PbInit, PbIdle, PbReporterRow, PbTexts
  <2>2. pbFound \in [PbWriters -> BOOLEAN]
    BY DEF PbInit, PbWriters
  <2>3. pbComments \in Seq(PbTexts)
    BY DEF PbInit
  <2> QED BY <2>1, <2>2, <2>3 DEF PbTyped
<1>2. \A w \in PbWriters : pbFound[w] => pbComments # <<>>
  BY DEF PbInit, PbWriters
<1>3. pbReporter.pc = "idle" /\ pbRun = "running"
  BY DEF PbInit, PbIdle
<1> QED BY <1>1, <1>2, <1>3 DEF PbInv, NoEndIsSilent, PbReported

\* What every call leaves at the provider: comments stay, a closed check stays
\* closed.
PbKept ==
    /\ pbComments' \in Seq(PbTexts) /\ pbFound' \in [PbWriters -> BOOLEAN]
    /\ \A w \in PbWriters : pbFound'[w] => pbComments' # <<>>
    /\ pbComments # <<>> => pbComments' # <<>>
    /\ pbCheck \notin PbOpen => pbCheck' \notin PbOpen

LEMMA PublicationFrom ==
    ASSUME PbInv, PbKept, pbRun' \in PbTexts, pbReporter' \in PbReporterRow, pbMail' \subseteq Nat,
           pbReporter'.pc = "write" => (pbReporter.pc = "write" \/ pbCheck' \notin PbOpen),
           pbGaveUp => pbGaveUp',
           \/ pbRun' \notin PbReported \/ pbMail' # {} \/ pbGaveUp'
           \/ pbRun' = pbRun /\ pbMail' = pbMail
           \/ pbComments' # <<>> /\ pbCheck' \notin PbOpen
    PROVE  PbInv'
<1>1. PbTyped'
  BY DEF PbKept, PbTyped
<1>2. (\A w \in PbWriters : pbFound[w] => pbComments # <<>>)'
  BY DEF PbKept
<1>3. pbReporter'.pc = "write" => pbCheck' \notin PbOpen
  BY DEF PbKept, PbInv
<1>4. NoEndIsSilent'
  BY DEF PbKept, PbInv, NoEndIsSilent, PbOpen
<1> QED BY <1>1, <1>2, <1>3, <1>4 DEF PbInv

LEMMA CheckCalled ==
    ASSUME NEW value, value \notin PbOpen \/ (value = pbCheck \/ pbCheck \in PbOpen),
           NEW ok \in BOOLEAN, PbCheckCall(value, ok)
    PROVE  /\ pbCheck \notin PbOpen => pbCheck' \notin PbOpen
           /\ ok => pbCheck' = value
BY DEF PbCheckCall

LEMMA Upserted ==
    ASSUME PbInv, NEW w \in PbWriters, NEW text \in PbTexts, NEW ok \in BOOLEAN,
           PbUpsert(w, text, ok)
    PROVE  /\ pbComments' \in Seq(PbTexts)
           /\ pbComments # <<>> => pbComments' # <<>>
           /\ ok => pbComments' # <<>>
<1> DEFINE new == [pbComments EXCEPT ![1] = text]
           more == Append(pbComments, text)
<1>1. pbComments \in Seq(PbTexts) /\ (pbFound[w] => pbComments # <<>>)
  BY DEF PbInv, PbTyped
<1>2. more \in Seq(PbTexts) /\ more # <<>>
  BY <1>1
<1>3. new \in Seq(PbTexts) /\ (pbComments # <<>> => new # <<>>)
  <2>1. new \in Seq(PbTexts) /\ Len(new) = Len(pbComments)
    BY <1>1, SequenceUpdate
  <2> HIDE DEF new
  <2> QED BY <1>1, <2>1
<1>4. \/ pbComments' = pbComments /\ ~ok
      \/ pbComments' = new /\ pbFound[w]
      \/ pbComments' = more
  BY DEF PbUpsert
<1> HIDE DEF new, more
<1> QED BY <1>1, <1>2, <1>3, <1>4

LEMMA Found ==
    ASSUME PbInv, NEW w \in PbWriters, PbFind(w), pbComments' = pbComments
    PROVE  /\ pbFound' \in [PbWriters -> BOOLEAN]
           /\ \A v \in PbWriters : pbFound'[v] => pbComments' # <<>>
<1>1. pbFound \in [PbWriters -> BOOLEAN] /\ \A v \in PbWriters : pbFound[v] => pbComments # <<>>
  BY DEF PbInv, PbTyped
<1> DEFINE there == pbComments # <<>>
<1>2. pbFound' = [pbFound EXCEPT ![w] = there] /\ there \in BOOLEAN
  BY DEF PbFind
<1>3. \A v \in PbWriters : pbFound'[v] = IF v = w THEN there ELSE pbFound[v]
  BY <1>1, <1>2
<1>4. pbFound' \in [PbWriters -> BOOLEAN]
  <2> HIDE DEF there
  <2> QED BY <1>1, <1>2, Zenon
<1> QED BY <1>1, <1>3, <1>4

LEMMA TerminalIsClosed == \A state : terminalStatus(state) \notin PbOpen
BY DEF terminalStatus, PbOpen

LEMMA ProviderSame ==
    ASSUME PbInv, pbCheck' = pbCheck \/ (pbCheck \notin PbOpen => pbCheck' \notin PbOpen),
           pbComments' = pbComments, pbFound' = pbFound
    PROVE  PbKept
BY DEF PbInv, PbTyped, PbKept

LEMMA PublicationStops ==
    ASSUME PbInv, \/ \E state \in {"cancelled", "superseded"} : StopFromOutside(state)
                  \/ BeginPublish \/ CompleteRun \/ ProcessingError \/ RunnerDies
    PROVE  PbInv'
<1>1. pbReporter' = pbReporter /\ pbGaveUp' = pbGaveUp
      /\ pbCheck' = pbCheck /\ pbComments' = pbComments
  BY DEF StopFromOutside, BeginPublish, CompleteRun, ProcessingError, RunnerDies
<1>2. pbReporter \in PbReporterRow /\ pbRun \in PbTexts /\ pbMail \subseteq Nat
  BY DEF PbInv, PbTyped
<1>3. PbKept
  <2>1. CASE pbFound' = pbFound
    BY <1>1, <2>1, ProviderSame
  <2>2. CASE PbFind("runner")
    <3>1. "runner" \in PbWriters
      BY DEF PbWriters
    <3>2. pbFound' \in [PbWriters -> BOOLEAN] /\ \A v \in PbWriters : pbFound'[v] => pbComments' # <<>>
      BY <1>1, <2>2, <3>1, Found
    <3> QED BY <1>1, <3>2 DEF PbKept, PbInv, PbTyped
  <2> QED BY <2>1, <2>2 DEF StopFromOutside, BeginPublish, CompleteRun, ProcessingError, RunnerDies
<1>4. /\ pbRun' \in PbTexts /\ pbMail' \subseteq Nat
      /\ pbRun' \notin PbReported \/ pbMail' # {} \/ (pbRun' = pbRun /\ pbMail' = pbMail)
  <2>1. ASSUME NEW state \in PbReported, PbEnds(state)
        PROVE  pbRun' \in PbTexts /\ pbMail' # {} /\ pbMail' \subseteq Nat
    BY <1>2, <2>1 DEF PbEnds, PbTexts
  <2>2. {"cancelled", "superseded", "failed"} \subseteq PbReported
    BY DEF PbReported
  <2>3. CASE \E state \in {"cancelled", "superseded"} : StopFromOutside(state)
    BY <1>2, <2>1, <2>2, <2>3 DEF StopFromOutside
  <2>4. CASE BeginPublish
    BY <1>2, <2>4 DEF BeginPublish
  <2>5. CASE CompleteRun
    <3>1. CASE pbRun = "running"
      BY <1>2, <2>5, <3>1 DEF CompleteRun, PbTexts, PbReported
    <3>2. CASE pbRun # "running"
      BY <1>2, <2>5, <3>2 DEF CompleteRun
    <3> QED BY <3>1, <3>2
  <2>6. CASE ProcessingError
    BY <1>2, <2>1, <2>2, <2>6 DEF ProcessingError
  <2>7. CASE RunnerDies
    BY <1>2, <2>1, <2>2, <2>7 DEF RunnerDies
  <2> QED BY <2>3, <2>4, <2>5, <2>6, <2>7
<1> QED BY <1>1, <1>2, <1>3, <1>4, PublicationFrom

LEMMA PublicationRunner ==
    ASSUME PbInv, NEW ok \in BOOLEAN,
           \/ StartCheck(ok) \/ PublishResult(ok) \/ CompleteGate(ok)
           \/ RunnerCheck(ok) \/ RunnerSummary(ok)
    PROVE  PbInv'
<1>1. UNCHANGED <<pbReporter, pbGaveUp, pbRun, pbMail>>
  BY DEF StartCheck, PublishResult, CompleteGate, RunnerCheck, RunnerSummary
<1>2. pbReporter \in PbReporterRow /\ pbRun \in PbTexts /\ pbMail \subseteq Nat /\ "runner" \in PbWriters
  BY DEF PbInv, PbTyped, PbWriters
<1>3. ASSUME pbComments' = pbComments, pbFound' = pbFound,
             pbCheck \notin PbOpen => pbCheck' \notin PbOpen
      PROVE  PbKept
  BY <1>3, ProviderSame
<1>4. ASSUME NEW text \in PbTexts, PbUpsert("runner", text, ok), pbFound' = pbFound, pbCheck' = pbCheck
      PROVE  PbKept
  <2>1. pbComments' \in Seq(PbTexts) /\ (pbComments # <<>> => pbComments' # <<>>)
    BY <1>2, <1>4, Upserted
  <2> QED BY <1>4, <2>1 DEF PbKept, PbInv, PbTyped
<1>5. CASE StartCheck(ok)
  <2> DEFINE value == IF pbCheck \in {"none", "in_progress"} THEN "in_progress" ELSE pbCheck
  <2>1. PbCheckCall(value, ok) /\ pbComments' = pbComments /\ pbFound' = pbFound
    BY <1>5, Zenon DEF StartCheck
  <2>2. value \notin PbOpen \/ value = pbCheck \/ pbCheck \in PbOpen
    BY DEF PbOpen
  <2>3. pbCheck \notin PbOpen => pbCheck' \notin PbOpen
    <3> HIDE DEF value
    <3> QED BY <2>1, <2>2, CheckCalled
  <2> QED BY <1>3, <2>1, <2>3, <1>1, <1>2, PublicationFrom
<1>6. CASE PublishResult(ok)
  <2>1. PbUpsert("runner", "completed", ok) /\ pbFound' = pbFound /\ pbCheck' = pbCheck
    BY <1>6 DEF PublishResult
  <2>2. PbKept
    BY <1>4, <2>1 DEF PbTexts
  <2> QED BY <1>1, <1>2, <2>2, PublicationFrom
<1>7. CASE CompleteGate(ok)
  <2>1. PICK conclusion \in {"success", "failure"} : PbCheckCall(conclusion, ok)
    BY <1>7 DEF CompleteGate
  <2>2. pbCheck \notin PbOpen => pbCheck' \notin PbOpen
    BY <2>1, CheckCalled DEF PbOpen
  <2>3. pbComments' = pbComments /\ pbFound' = pbFound
    BY <1>7 DEF CompleteGate
  <2> QED BY <1>1, <1>2, <1>3, <2>2, <2>3, PublicationFrom
<1>8. CASE RunnerCheck(ok)
  <2>1. PbCheckCall(terminalStatus(PbRunnerState), ok) /\ PbFind("runner") /\ pbComments' = pbComments
    BY <1>8 DEF RunnerCheck
  <2>2. pbCheck \notin PbOpen => pbCheck' \notin PbOpen
    BY <2>1, CheckCalled, TerminalIsClosed
  <2>3. pbFound' \in [PbWriters -> BOOLEAN] /\ \A v \in PbWriters : pbFound'[v] => pbComments' # <<>>
    BY <1>2, <2>1, Found
  <2>4. PbKept
    BY <2>1, <2>2, <2>3 DEF PbKept, PbInv, PbTyped
  <2> QED BY <1>1, <1>2, <2>4, PublicationFrom
<1>9. CASE RunnerSummary(ok)
  <2>1. PbUpsert("runner", PbRunnerState, ok) /\ pbFound' = pbFound /\ pbCheck' = pbCheck
    BY <1>9 DEF RunnerSummary
  <2>2. PbRunnerState \in PbTexts
    BY <1>2 DEF PbRunnerState, PbTexts, PbReported
  <2>3. PbKept
    BY <1>4, <2>1, <2>2
  <2> QED BY <1>1, <1>2, <2>3, PublicationFrom
<1> QED BY <1>5, <1>6, <1>7, <1>8, <1>9

LEMMA PublicationReporter ==
    ASSUME PbInv, \/ \E n \in pbMail : BeginReport(n)
                  \/ ReportCheck \/ ReportSummary \/ ReporterDies
                  \/ \E final \in BOOLEAN : ReportFails(final)
    PROVE  PbInv'
<1>1. pbReporter \in PbReporterRow /\ pbRun \in PbTexts /\ "reporter" \in PbWriters
      /\ pbMail \subseteq Nat
  BY DEF PbInv, PbTyped, PbWriters
<1>2. PbIdle \in PbReporterRow /\ PbIdle.pc = "idle"
  BY DEF PbIdle, PbReporterRow, PbTexts
<1>3. pbRun' = pbRun
  BY DEF BeginReport, ReportCheck, ReportSummary, ReporterDies, ReportFails
<1>4. ASSUME NEW n \in pbMail, BeginReport(n) PROVE PbInv'
  <2>1. UNCHANGED <<pbMail, pbGaveUp, pbFound, pbComments, pbCheck>>
    BY <1>4 DEF BeginReport
  <2>2. pbReporter' = [pc |-> "check", attempt |-> n, state |-> pbRun]
    BY <1>4 DEF BeginReport
  <2>3. PbKept
    BY <2>1, ProviderSame
  <2>4. pbReporter' \in PbReporterRow /\ pbReporter'.pc = "check"
    BY <1>1, <2>2 DEF PbReporterRow
  <2> QED BY <1>1, <1>3, <2>1, <2>3, <2>4, PublicationFrom
<1>5. CASE ReportCheck
  <2>1. PbCheckCall(terminalStatus(pbReporter.state), TRUE) /\ PbFind("reporter")
        /\ UNCHANGED <<pbMail, pbGaveUp, pbComments>>
        /\ pbReporter' = [pbReporter EXCEPT !.pc = "write"]
    BY <1>5 DEF ReportCheck
  <2>2. pbCheck' \notin PbOpen
    <3>1. pbCheck' = terminalStatus(pbReporter.state)
      BY <2>1 DEF PbCheckCall
    <3> QED BY <3>1, TerminalIsClosed
  <2>3. pbFound' \in [PbWriters -> BOOLEAN] /\ \A v \in PbWriters : pbFound'[v] => pbComments' # <<>>
    BY <1>1, <2>1, Found
  <2>4. PbKept
    BY <2>1, <2>2, <2>3 DEF PbKept, PbInv, PbTyped
  <2>5. pbReporter' \in PbReporterRow
    BY <1>1, <2>1, Zenon DEF PbReporterRow
  <2> QED BY <1>1, <1>3, <2>1, <2>2, <2>4, <2>5, PublicationFrom
<1>6. CASE ReportSummary
  <2>1. /\ PbUpsert("reporter", pbReporter.state, TRUE) /\ pbReporter.pc = "write"
        /\ UNCHANGED <<pbGaveUp, pbCheck, pbFound>> /\ pbReporter' = PbIdle
        /\ pbMail' \subseteq pbMail
    BY <1>6 DEF ReportSummary
  <2>2. pbReporter.state \in PbTexts
    BY <1>1 DEF PbReporterRow
  <2>3. pbComments' \in Seq(PbTexts) /\ pbComments' # <<>>
    BY <1>1, <2>1, <2>2, Upserted
  <2>4. PbKept
    BY <2>1, <2>3 DEF PbKept, PbInv, PbTyped
  <2>5. pbCheck' \notin PbOpen
    BY <2>1 DEF PbInv
  <2> QED BY <1>1, <1>2, <1>3, <2>1, <2>3, <2>4, <2>5, PublicationFrom
<1>7. CASE ReporterDies
  <2>1. UNCHANGED <<pbMail, pbGaveUp, pbFound, pbComments, pbCheck>> /\ pbReporter' = PbIdle
    BY <1>7 DEF ReporterDies
  <2>2. PbKept
    BY <2>1, ProviderSame
  <2> QED BY <1>1, <1>2, <1>3, <2>1, <2>2, PublicationFrom
<1>8. ASSUME NEW final \in BOOLEAN, ReportFails(final) PROVE PbInv'
  <2> DEFINE over == final \/ pbReporter.attempt >= maxTerminalPublicationAttempts
  <2>1. /\ pbReporter' = PbIdle /\ pbFound' = pbFound
        /\ pbGaveUp' = (pbGaveUp \/ over)
        /\ pbMail' = (pbMail \ {pbReporter.attempt})
                     \cup (IF over THEN {} ELSE {pbReporter.attempt + 1})
    BY <1>8 DEF ReportFails
  <2>2. pbReporter.attempt + 1 \in Nat /\ pbReporter.state \in PbTexts
    BY <1>1 DEF PbReporterRow
  <2>3. pbMail' \subseteq Nat /\ (pbMail' # {} \/ pbGaveUp') /\ (pbGaveUp => pbGaveUp')
    <3> HIDE DEF over
    <3>1. CASE over
      BY <1>1, <2>1, <3>1
    <3>2. CASE ~over
      BY <1>1, <2>1, <2>2, <3>2
    <3> QED BY <3>1, <3>2
  <2>4. PbKept
    <3>1. CASE pbReporter.pc = "check"
      <4>1. PbCheckCall(terminalStatus(pbReporter.state), FALSE) /\ pbComments' = pbComments
        BY <1>8, <3>1 DEF ReportFails
      <4>2. pbCheck \notin PbOpen => pbCheck' \notin PbOpen
        BY <4>1, CheckCalled, TerminalIsClosed
      <4> QED BY <2>1, <4>1, <4>2, ProviderSame
    <3>2. CASE pbReporter.pc # "check"
      <4>1. PbUpsert("reporter", pbReporter.state, FALSE) /\ pbCheck' = pbCheck
        BY <1>8, <3>2 DEF ReportFails
      <4>2. pbComments' \in Seq(PbTexts) /\ (pbComments # <<>> => pbComments' # <<>>)
        BY <1>1, <2>2, <4>1, Upserted
      <4> QED BY <2>1, <4>1, <4>2 DEF PbKept, PbInv, PbTyped
    <3> QED BY <3>1, <3>2
  <2> HIDE DEF over
  <2> QED BY <1>1, <1>2, <1>3, <2>1, <2>3, <2>4, PublicationFrom
<1> QED BY <1>4, <1>5, <1>6, <1>7, <1>8

LEMMA PublicationStep == PbInv /\ [PbNext]_pbVars => PbInv'
<1> SUFFICES ASSUME PbInv, [PbNext]_pbVars PROVE PbInv'
  OBVIOUS
<1>1. CASE UNCHANGED pbVars
  <2>1. UNCHANGED <<pbRun, pbReporter, pbMail, pbGaveUp, pbFound, pbComments, pbCheck>>
    BY <1>1 DEF pbVars
  <2>2. PbKept
    BY <2>1, ProviderSame
  <2> QED BY <2>1, <2>2, PublicationFrom DEF PbInv, PbTyped
<1> QED BY <1>1, PublicationStops, PublicationRunner, PublicationReporter DEF PbNext

-----------------------------------------------------------------------------
(* RiskPlan: the plan an attempt reviews with is the recorded one.  The     *)
(* planner's selection is not needed for that, only that a plan has a mode. *)

IsPlan(p) == p = [mode |-> p.mode, selected |-> p.selected, deferred |-> p.deferred]
RpModes == [requested : {"configured", "standard", "deep", "security"},
            configured : {"focused", "critical"}]
RpStages == {"analyzing", "planned", "filtered", "saved", "failed", "publishing", "published"}

RpTyped ==
    /\ rpMode \in RpModes
    /\ rpAttempt = [n |-> rpAttempt.n, stage |-> rpAttempt.stage, plan |-> rpAttempt.plan]
    /\ rpAttempt.stage \in RpStages

RpInv ==
    /\ RpTyped
    /\ rpAttempt.stage \in {"planned", "filtered"} =>
          IsPlan(rpAttempt.plan) /\ rpAttempt.plan.mode # "none"
    /\ rpAttempt.stage = "saved" => rpAttempt.plan = rpStored /\ rpStored # NoPlan
    /\ rpReviewed # {} => rpStored # NoPlan
    /\ ReviewedIsRecorded

LEMMA PlanInit == RpInit => RpInv
<1> SUFFICES ASSUME RpInit PROVE RpInv
  OBVIOUS
<1>1. rpMode \in RpModes
  BY DEF RpInit, RpModes
<1>2. rpAttempt = [n |-> 1, stage |-> "analyzing", plan |-> NoPlan] /\ rpReviewed = {}
  BY DEF RpInit
<1>3. rpAttempt.stage = "analyzing" /\ rpAttempt.n = 1 /\ rpAttempt.plan = NoPlan
  BY <1>2
<1> QED BY <1>1, <1>2, <1>3 DEF RpInv, RpTyped, RpStages, ReviewedIsRecorded

LEMMA StageIs ==
    ASSUME RpInv, NEW stage, NEW plan, Staged(stage, plan)
    PROVE  /\ rpAttempt' = [n |-> rpAttempt.n, stage |-> stage, plan |-> plan]
           /\ rpAttempt'.n = rpAttempt.n /\ rpAttempt'.stage = stage /\ rpAttempt'.plan = plan
<1>1. rpAttempt = [n |-> rpAttempt.n, stage |-> rpAttempt.stage, plan |-> rpAttempt.plan]
  BY DEF RpInv, RpTyped
<1>2. rpAttempt' = [rpAttempt EXCEPT !.stage = stage, !.plan = plan]
  BY DEF Staged
<1>3. rpAttempt' = [n |-> rpAttempt.n, stage |-> stage, plan |-> plan]
  BY <1>1, <1>2
<1> QED BY <1>3

LEMMA PlanNarrowed ==
    ASSUME NEW old, NEW kept, NEW late, IsPlan(old)
    PROVE  [old EXCEPT !.selected = kept, !.deferred = late]
             = [mode |-> old.mode, selected |-> kept, deferred |-> late]
<1>1. PICK m, s, d : old = [mode |-> m, selected |-> s, deferred |-> d]
  BY DEF IsPlan
<1>2. old \in [mode : {m}, selected : {s}, deferred : {d}] /\ old.mode = m
  BY <1>1
<1> DEFINE new == [old EXCEPT !.selected = kept, !.deferred = late]
<1>3. new \in [mode : {m}, selected : {kept}, deferred : {late}]
  BY <1>2, Zenon
<1> HIDE DEF new
<1>4. new = [mode |-> m, selected |-> kept, deferred |-> late]
  BY <1>3
<1> QED BY <1>2, <1>4 DEF new

LEMMA ModeIsNamed ==
    ASSUME RpInv
    PROVE  RiskMode(rpMode.requested, rpMode.configured) # "none"
<1>1. rpMode.requested \in {"configured", "standard", "deep", "security"}
      /\ rpMode.configured \in {"focused", "critical"}
  BY DEF RpInv, RpTyped, RpModes
<1> QED BY <1>1 DEF RiskMode

LEMMA PlanStep == RpInv /\ [RpNext]_rpVars => RpInv'
<1> SUFFICES ASSUME RpInv, [RpNext]_rpVars PROVE RpInv'
  OBVIOUS
<1>1. rpMode \in RpModes
  BY DEF RpInv, RpTyped
<1>2. CASE planRisk
  <2> DEFINE plan == PlanWithMode(RiskMode(rpMode.requested, rpMode.configured))
  <2>1. Staged("planned", plan) /\ UNCHANGED <<rpMode, rpStored, rpReviewed>>
    BY <1>2 DEF planRisk
  <2>2. IsPlan(plan) /\ plan.mode # "none"
    <3> DEFINE mode == RiskMode(rpMode.requested, rpMode.configured)
    <3>1. \E selected, deferred :
              plan = [mode |-> mode, selected |-> selected, deferred |-> deferred]
      BY Zenon DEF PlanWithMode
    <3>2. mode # "none"
      BY ModeIsNamed
    <3> HIDE DEF plan, mode
    <3> QED BY <3>1, <3>2 DEF IsPlan
  <2> HIDE DEF plan
  <2>3. rpAttempt'.stage = "planned" /\ rpAttempt'.plan = plan
        /\ rpAttempt' = [n |-> rpAttempt.n, stage |-> "planned", plan |-> plan]
        /\ rpAttempt'.n = rpAttempt.n
    BY <2>1, StageIs
  <2> QED BY <1>1, <2>1, <2>2, <2>3 DEF RpInv, RpTyped, RpStages, ReviewedIsRecorded
<1>3. CASE applyPathFilters
  <2> DEFINE old == rpAttempt.plan
             kept == {p \in old.selected : AllowsPath(p)}
             late == old.deferred \cup (old.selected \ kept)
             plan == [old EXCEPT !.selected = kept, !.deferred = late]
  <2>1. Staged("filtered", plan) /\ UNCHANGED <<rpMode, rpStored, rpReviewed>>
        /\ rpAttempt.stage = "planned"
    BY <1>3, Zenon DEF applyPathFilters
  <2>2. IsPlan(old) /\ old.mode # "none"
    BY <2>1 DEF RpInv
  <2>3. IsPlan(plan) /\ plan.mode # "none"
    <3> HIDE DEF kept, late
    <3>1. plan = [mode |-> old.mode, selected |-> kept, deferred |-> late]
      BY <2>2, PlanNarrowed
    <3> HIDE DEF old, plan
    <3> QED BY <2>2, <3>1 DEF IsPlan
  <2> HIDE DEF plan
  <2>4. rpAttempt'.stage = "filtered" /\ rpAttempt'.plan = plan
        /\ rpAttempt' = [n |-> rpAttempt.n, stage |-> "filtered", plan |-> plan]
        /\ rpAttempt'.n = rpAttempt.n
    BY <2>1, StageIs
  <2> QED BY <1>1, <2>1, <2>3, <2>4 DEF RpInv, RpTyped, RpStages, ReviewedIsRecorded
<1>4. CASE SaveReviewExecutionPlan
  <2> DEFINE plan == rpAttempt.plan
             stage == IF rpStored' = plan THEN "saved" ELSE "failed"
  <2>1. Staged(stage, plan) /\ UNCHANGED <<rpMode, rpReviewed>> /\ rpAttempt.stage = "filtered"
        /\ (rpStored' = rpStored \/ (rpStored = NoPlan /\ rpStored' = plan))
    BY <1>4 DEF SaveReviewExecutionPlan
  <2>2. plan # NoPlan
    BY <2>1 DEF RpInv, NoPlan
  <2>3. rpAttempt'.stage = stage /\ rpAttempt'.plan = plan
        /\ rpAttempt' = [n |-> rpAttempt.n, stage |-> stage, plan |-> plan]
        /\ rpAttempt'.n = rpAttempt.n
    BY <2>1, StageIs
  <2>4. rpReviewed' # {} => rpStored' # NoPlan /\ rpStored' = rpStored
    BY <2>1 DEF RpInv
  <2>5. ReviewedIsRecorded'
    BY <2>1, <2>4 DEF RpInv, ReviewedIsRecorded
  <2> QED BY <1>1, <2>1, <2>2, <2>3, <2>4, <2>5 DEF RpInv, RpTyped, RpStages
<1>5. CASE reviewWithSnapshot
  <2> DEFINE plan == rpAttempt.plan
  <2>1. PICK stage \in {"publishing", "failed"} : Staged(stage, plan)
    BY <1>5 DEF reviewWithSnapshot
  <2>2. rpAttempt'.stage = stage /\ rpAttempt'.plan = plan
        /\ rpAttempt' = [n |-> rpAttempt.n, stage |-> stage, plan |-> plan]
        /\ rpAttempt'.n = rpAttempt.n
    BY <2>1, StageIs
  <2>3. UNCHANGED <<rpMode, rpStored>> /\ rpAttempt.stage = "saved"
        /\ rpReviewed' \in {rpReviewed, rpReviewed \cup {plan.selected}}
    BY <1>5 DEF reviewWithSnapshot, reviewWithScope
  <2>4. plan = rpStored /\ rpStored # NoPlan
    BY <2>3 DEF RpInv
  <2>5. ReviewedIsRecorded'
    BY <2>3, <2>4 DEF RpInv, ReviewedIsRecorded
  <2> QED BY <1>1, <2>1, <2>2, <2>3, <2>4, <2>5 DEF RpInv, RpTyped, RpStages
<1>6. CASE resumePublication
  <2>1. Staged("published", rpStored) /\ UNCHANGED <<rpMode, rpStored, rpReviewed>>
    BY <1>6 DEF resumePublication
  <2>2. rpAttempt'.stage = "published" /\ rpAttempt'.plan = rpStored
        /\ rpAttempt' = [n |-> rpAttempt.n, stage |-> "published", plan |-> rpStored]
        /\ rpAttempt'.n = rpAttempt.n
    BY <2>1, StageIs
  <2> QED BY <1>1, <2>1, <2>2 DEF RpInv, RpTyped, RpStages, ReviewedIsRecorded
<1>7. CASE RpRetry
  <2>1. /\ rpAttempt' = [n |-> rpAttempt.n + 1, stage |-> "analyzing", plan |-> NoPlan]
        /\ UNCHANGED <<rpStored, rpReviewed>>
    BY <1>7 DEF RpRetry
  <2>2. PICK c \in {"focused", "critical"} : rpMode' = [rpMode EXCEPT !.configured = c]
    BY <1>7 DEF RpRetry
  <2>3. rpMode' \in RpModes
    BY <1>1, <2>2, Zenon DEF RpModes
  <2>4. rpAttempt'.stage = "analyzing" /\ rpAttempt'.n = rpAttempt.n + 1 /\ rpAttempt'.plan = NoPlan
    BY <2>1
  <2> QED BY <2>1, <2>3, <2>4 DEF RpInv, RpTyped, RpStages, ReviewedIsRecorded
<1>8. CASE UNCHANGED rpVars
  BY <1>8 DEF rpVars, RpInv, RpTyped, ReviewedIsRecorded
<1> QED BY <1>2, <1>3, <1>4, <1>5, <1>6, <1>7, <1>8 DEF RpNext

\* Whatever the attempts of a run gave the model is the scope of the plan
\* recorded for the run, under every default mode and base they ran with.
THEOREM ReviewedScopeHolds == Spec => []ReviewedIsRecorded
<1>1. Init => RpInv
  BY PlanInit DEF Init
<1>2. RpInv /\ [Next]_vars => RpInv'
  BY PlanStep, PartsMove
<1>3. RpInv => ReviewedIsRecorded
  BY DEF RpInv
<1> QED BY <1>1, <1>2, <1>3, PTL DEF Spec

\* What the platform shows is what was checked: a patch is allowed and, under the
\* complete workflow or a loaded profile, the one that was verified; the scope
\* of a review is the one the model was given.
THEOREM ShownWasCheckedHolds == Spec => []ShownWasChecked
<1>1. PublishedWasVerified /\ ReviewedIsRecorded => ShownWasChecked
  BY DEF ShownWasChecked
<1> QED BY <1>1, PublishedVerified, ReviewedScopeHolds, PTL

-----------------------------------------------------------------------------
(* Interaction.  What an answer is for does not depend on how far it is: the *)
(* pairs of a comment and what the answer to it releases.                    *)

InReplyRow == [comment : Comments, key : {"response", "retry", "failed", "admitted"},
               retry : Nat, release : Int, step : {"queued", "published", "done", "dead"}]
InRunRow == [head : InHeads, state : {"acknowledged", "running", "ended"}, released : BOOLEAN]
InCommentRow == [result : {InNone, "accepted", "rejected"}, run : Nat]
InAdmitting == {"queued", "linking"}

InTyped ==
    /\ inComment \in [Comments -> InCommentRow] /\ inRuns \in Seq(InRunRow)
    /\ inReply \subseteq InReplyRow /\ IsFiniteSet(inReply)
    /\ inAdmission \in [Comments -> {InNone, "queued", "linking", "done"}]
    /\ inMade \in [Comments -> Nat]

InAnswers == {<<m.comment, m.release>> : m \in inReply}

\* An answer that releases a run is the answer to the one comment that started
\* the run, whether it retried the run or had it admitted.
InAnswersFit ==
    \A c \in Comments, r \in Int : <<c, r>> \in InAnswers =>
        /\ inComment[c].result # InNone
        /\ r \notin {InNothing, InAdmit} =>
              /\ r \in DOMAIN inRuns /\ inComment[c].run = r
              /\ \A d \in Comments : <<d, r>> \in InAnswers \/ inMade[d] = r => d = c
InMadeFit ==
    \A c \in Comments :
        /\ inMade[c] \in 0..Len(inRuns)
        /\ \A d \in Comments : inMade[d] = inMade[c] /\ inMade[c] # 0 => d = c
InAdmissionFit ==
    \A c \in Comments :
        /\ inAdmission[c] # InNone => inComment[c].result # InNone
        /\ inAdmission[c] \in InAdmitting =>
              inComment[c].result = "accepted" /\ inComment[c].run = 0
        /\ inAdmission[c] = "linking" => inMade[c] # 0

\* A held run has an answer, however far, or an admission that will queue one.
InHeldHasAnswer ==
    \A r \in DOMAIN inRuns :
        inRuns[r].state = "acknowledged" /\ ~inRuns[r].released /\ r \notin inBroken =>
            \E c \in Comments :
                <<c, r>> \in InAnswers \/ (inMade[c] = r /\ inAdmission[c] \in InAdmitting)
InReleasedReacted ==
    \A r \in DOMAIN inRuns : inRuns[r].released =>
        \E c \in Comments : c \in inReacted /\ <<c, r>> \in InAnswers

\* How far the answers are.
InSteps ==
    /\ \A m \in inReply : m.step = "done" /\ m.release \in DOMAIN inRuns =>
          inRuns[m.release].released \/ inRuns[m.release].state # "acknowledged"
    /\ \A m \in inReply : m.step = "published" => m.comment \in inReacted
    /\ \A m \in inReply : m.key = "admitted" => inAdmission[m.comment] = "done"
    /\ \A c \in Comments : Cardinality(InRetries(c)) <= maxManualInteractionResponseRetries

InInv ==
    /\ InTyped /\ InAnswersFit /\ InMadeFit /\ InAdmissionFit
    /\ InHeldHasAnswer /\ InReleasedReacted /\ InSteps

LEMMA InteractionInit == InInit => InInv
<1> SUFFICES ASSUME InInit PROVE InInv
  OBVIOUS
<1>1. inReply = {} /\ inRuns = <<>> /\ DOMAIN inRuns = {} /\ Len(inRuns) = 0
  BY DEF InInit
<1>2. InTyped
  <2>1. inComment \in [Comments -> InCommentRow]
    BY DEF InInit, InCommentRow
  <2>2. inAdmission \in [Comments -> {InNone, "queued", "linking", "done"}]
    BY DEF InInit
  <2>3. inMade \in [Comments -> Nat]
    BY DEF InInit
  <2>4. IsFiniteSet(inReply)
    BY <1>1, FS_EmptySet
  <2> QED BY <1>1, <2>1, <2>2, <2>3, <2>4 DEF InTyped
<1>3. InAnswers = {}
  BY <1>1 DEF InAnswers
<1>4. InAnswersFit /\ InMadeFit /\ InAdmissionFit
  BY <1>1, <1>3 DEF InInit, InAnswersFit, InMadeFit, InAdmissionFit, InNone, InAdmitting
<1>5. InHeldHasAnswer /\ InReleasedReacted
  BY <1>1 DEF InHeldHasAnswer, InReleasedReacted
<1>6. InSteps
  <2>1. ASSUME NEW c \in Comments
        PROVE  Cardinality(InRetries(c)) <= maxManualInteractionResponseRetries
    <3>1. InRetries(c) = {}
      BY <1>1 DEF InRetries
    <3> QED BY <3>1, FS_EmptySet, InteractionAssumption
  <2> QED BY <1>1, <2>1 DEF InSteps
<1> QED BY <1>2, <1>4, <1>5, <1>6 DEF InInv

\* What the invariant says of the properties.
LEMMA InteractionHolds == InInv => HeldRunHasAWayOut /\ StartedWasAnswered
<1> SUFFICES ASSUME InInv PROVE HeldRunHasAWayOut /\ StartedWasAnswered
  OBVIOUS
<1>1. inReply \subseteq InReplyRow /\ inRuns \in Seq(InRunRow)
      /\ inComment \in [Comments -> InCommentRow] /\ DOMAIN inRuns = 1..Len(inRuns)
  BY DEF InInv, InTyped
<1>2. \A r \in DOMAIN inRuns : r \in Int /\ r # InNothing /\ r # InAdmit
  BY <1>1 DEF InNothing, InAdmit
<1>3. ASSUME NEW r \in DOMAIN inRuns, inRuns[r].state = "acknowledged", r \notin inBroken,
             ~inRuns[r].released, NEW c \in Comments, <<c, r>> \in InAnswers
      PROVE  \/ \E m \in inReply : m.release = r /\ m.step \in {"queued", "published"}
             \/ \E m \in inReply : InRecoverable(m) /\ m.release = r
             \/ \E d \in Comments :
                   Cardinality(InRetries(d)) = maxManualInteractionResponseRetries
  <2>1. PICK m \in inReply : m.comment = c /\ m.release = r
    BY <1>3 DEF InAnswers
  <2>2. \A n \in inReply : n.release = r => n.step # "done"
    BY <1>3 DEF InInv, InSteps
  <2>3. \A n \in inReply : n.step \in {"queued", "published", "done", "dead"}
    BY <1>1 DEF InReplyRow
  <2>4. inComment[c].run = r
    BY <1>2, <1>3 DEF InInv, InAnswersFit
  <2>5. CASE \E n \in inReply : n.release = r /\ n.step # "dead"
    BY <2>2, <2>3, <2>5
  <2>6. CASE ~\E n \in inReply : n.release = r /\ n.step # "dead"
    <3>1. CASE Cardinality(InRetries(c)) < maxManualInteractionResponseRetries
      <4>1. InRecoverable(m)
        BY <1>3, <2>1, <2>4, <2>6, <3>1 DEF InRecoverable
      <4> QED BY <2>1, <4>1
    <3>2. CASE ~(Cardinality(InRetries(c)) < maxManualInteractionResponseRetries)
      <4>1. Cardinality(InRetries(c)) <= maxManualInteractionResponseRetries
            /\ IsFiniteSet(InRetries(c))
        <5>1. InRetries(c) \subseteq inReply
          BY DEF InRetries
        <5> QED BY <5>1, FS_Subset DEF InInv, InSteps, InTyped
      <4>2. Cardinality(InRetries(c)) \in Nat
        BY <4>1, FS_CardinalityType
      <4> QED BY <3>2, <4>1, <4>2, InteractionAssumption
    <3> QED BY <3>1, <3>2
  <2> QED BY <2>5, <2>6
<1>4. HeldRunHasAWayOut
  <2> SUFFICES ASSUME NEW r \in DOMAIN inRuns, inRuns[r].state = "acknowledged", r \notin inBroken,
                      ~inRuns[r].released
               PROVE  \/ \E m \in inReply : m.release = r /\ m.step \in {"queued", "published"}
                      \/ \E c \in Comments : inMade[c] = r /\ inAdmission[c] \in {"queued", "linking"}
                      \/ \E m \in inReply : InRecoverable(m) /\ m.release = r
                      \/ \E c \in Comments :
                            Cardinality(InRetries(c)) = maxManualInteractionResponseRetries
    BY DEF HeldRunHasAWayOut
  <2>1. PICK c \in Comments :
            <<c, r>> \in InAnswers \/ (inMade[c] = r /\ inAdmission[c] \in InAdmitting)
    BY DEF InInv, InHeldHasAnswer
  <2>2. CASE <<c, r>> \in InAnswers
    BY <1>3, <2>2
  <2>3. CASE inMade[c] = r /\ inAdmission[c] \in InAdmitting
    BY <2>3 DEF InAdmitting
  <2> QED BY <2>1, <2>2, <2>3
<1>5. StartedWasAnswered
  <2> SUFFICES ASSUME NEW c \in Comments, inComment[c].run # 0, inRuns[inComment[c].run].released,
                      NEW m \in inReply, m.comment = c, m.release = inComment[c].run
               PROVE  c \in inReacted
    BY DEF StartedWasAnswered
  <2> DEFINE r == inComment[c].run
  <2>1. r \in Nat /\ r # InNothing /\ r # InAdmit /\ <<c, r>> \in InAnswers
    <3>1. r \in Nat
      BY <1>1 DEF InCommentRow
    <3>2. <<c, r>> \in InAnswers
      BY DEF InAnswers
    <3> QED BY <3>1, <3>2 DEF InNothing, InAdmit
  <2>2. r \in DOMAIN inRuns /\ \A d \in Comments : <<d, r>> \in InAnswers => d = c
    BY <2>1 DEF InInv, InAnswersFit
  <2>3. PICK d \in Comments : d \in inReacted /\ <<d, r>> \in InAnswers
    BY <2>2 DEF InInv, InReleasedReacted
  <2> QED BY <2>2, <2>3
<1> QED BY <1>4, <1>5

\* Runs, reactions and admissions only move on.
InRunsForward ==
    /\ inRuns' \in Seq(InRunRow)
    /\ \A r \in DOMAIN inRuns :
          /\ r \in DOMAIN inRuns'
          /\ inRuns'[r].state = "acknowledged" => inRuns[r].state = "acknowledged"
          /\ inRuns[r].released => inRuns'[r].released
InForward ==
    /\ InRunsForward /\ inReacted \subseteq inReacted'
    /\ \A c \in Comments : inAdmission[c] = "done" => inAdmission'[c] = "done"

LEMMA StepsFrom ==
    ASSUME InInv, InForward,
           \A n \in inReply' : \/ n \in inReply
                               \/ /\ n.step = "done" /\ n.release \in DOMAIN inRuns' =>
                                        \/ inRuns'[n.release].released
                                        \/ inRuns'[n.release].state # "acknowledged"
                                  /\ n.step = "published" => n.comment \in inReacted'
                                  /\ n.key = "admitted" => inAdmission'[n.comment] = "done",
           \A c \in Comments : Cardinality(InRetries(c)') <= maxManualInteractionResponseRetries
    PROVE  InSteps'
<1>1. ASSUME NEW n \in inReply
      PROVE  n.comment \in Comments /\ n.release \in Int /\ <<n.comment, n.release>> \in InAnswers
  <2>1. n \in InReplyRow
    BY DEF InInv, InTyped
  <2> QED BY <2>1 DEF InReplyRow, InAnswers
<1>2. ASSUME NEW n \in inReply, n.release \in DOMAIN inRuns'
      PROVE  n.release \in DOMAIN inRuns
  <2>1. n.release \notin {InNothing, InAdmit}
    BY <1>2 DEF InForward, InRunsForward, InNothing, InAdmit
  <2> QED BY <1>1, <2>1 DEF InInv, InAnswersFit
<1>3. \A n \in inReply' : n.step = "done" /\ n.release \in DOMAIN inRuns' =>
          inRuns'[n.release].released \/ inRuns'[n.release].state # "acknowledged"
  BY <1>2 DEF InInv, InSteps, InForward, InRunsForward
<1>4. \A n \in inReply' : n.step = "published" => n.comment \in inReacted'
  BY DEF InInv, InSteps, InForward
<1>5. \A n \in inReply' : n.key = "admitted" => inAdmission'[n.comment] = "done"
  BY <1>1 DEF InInv, InSteps, InForward
<1> QED BY <1>3, <1>4, <1>5 DEF InSteps

\* The answer keeps what it is for when it gets further.
LEMMA AnswerSteps ==
    ASSUME InInv, InForward, NEW m \in inReply,
           NEW step \in {"queued", "published", "done", "dead"}, InStep(m, step),
           step = "done" /\ m.release \in DOMAIN inRuns' =>
               \/ inRuns'[m.release].released
               \/ inRuns'[m.release].state # "acknowledged",
           step = "published" => m.comment \in inReacted'
    PROVE  /\ inReply' \subseteq InReplyRow /\ IsFiniteSet(inReply')
           /\ InAnswers' = InAnswers /\ InSteps'
<1>1. inReply \subseteq InReplyRow /\ IsFiniteSet(inReply) /\ m \in InReplyRow
  BY DEF InInv, InTyped
<1> DEFINE new == [m EXCEPT !.step = step]
<1>2. new \in InReplyRow
  BY <1>1, Zenon DEF InReplyRow
<1>3. /\ new.comment = m.comment /\ new.key = m.key /\ new.release = m.release
      /\ new.step = step
  BY <1>1 DEF InReplyRow
<1>4. inReply' = (inReply \ {m}) \cup {new}
  BY DEF InStep
<1> HIDE DEF new
<1>5. inReply' \subseteq InReplyRow
  BY <1>1, <1>2, <1>4
<1>6. IsFiniteSet(inReply')
  BY <1>1, <1>4, FS_RemoveElement, FS_AddElement
<1>7. InAnswers' = InAnswers
  <2>1. InAnswers' = {<<n.comment, n.release>> : n \in inReply'}
    BY DEF InAnswers
  <2> QED BY <1>3, <1>4, <2>1 DEF InAnswers
<1>8. ASSUME NEW c \in Comments
      PROVE  Cardinality(InRetries(c)') <= maxManualInteractionResponseRetries
  <2>1. InRetries(c)' = {n \in inReply' : n.comment = c /\ n.key = "retry"}
    BY DEF InRetries
  <2>2. InRetries(c) \subseteq inReply /\ IsFiniteSet(InRetries(c))
    BY <1>1, FS_Subset DEF InRetries
  <2>3. Cardinality(InRetries(c)) \in Nat
        /\ Cardinality(InRetries(c)) <= maxManualInteractionResponseRetries
    BY <2>2, FS_CardinalityType DEF InInv, InSteps
  <2>4. CASE m \in InRetries(c)
    <3> DEFINE rest == InRetries(c) \ {m}
    <3>1. InRetries(c)' = rest \cup {new}
      BY <1>3, <1>4, <2>1, <2>4 DEF InRetries
    <3>2. IsFiniteSet(rest) /\ Cardinality(rest) = Cardinality(InRetries(c)) - 1
      BY <2>2, <2>4, FS_RemoveElement
    <3>3. Cardinality(rest \cup {new}) <= Cardinality(rest) + 1
      <4> HIDE DEF rest
      <4>1. Cardinality(rest) \in Nat
        BY <3>2, FS_CardinalityType
      <4>2. Cardinality(rest \cup {new}) = IF new \in rest THEN Cardinality(rest)
                                           ELSE Cardinality(rest) + 1
        BY <3>2, FS_AddElement
      <4> QED BY <4>1, <4>2
    <3>4. Cardinality(rest) + 1 = Cardinality(InRetries(c))
      BY <2>3, <3>2
    <3>5. Cardinality(InRetries(c)') = Cardinality(rest \cup {new})
      BY <3>1
    <3> HIDE DEF rest
    <3>6. Cardinality(rest \cup {new}) <= Cardinality(InRetries(c))
      BY <3>3, <3>4
    <3>7. Cardinality(rest \cup {new}) \in Nat
      BY <3>2, FS_AddElement, FS_CardinalityType
    <3> QED BY <2>3, <3>5, <3>6, <3>7, InteractionAssumption
  <2>5. CASE m \notin InRetries(c)
    <3>1. InRetries(c)' = InRetries(c)
      BY <1>3, <1>4, <2>1, <2>5 DEF InRetries
    <3> QED BY <2>3, <3>1
  <2> QED BY <2>4, <2>5
<1>9. \A n \in inReply' : n \in inReply \/ n = new
  BY <1>4
<1>10. /\ new.step = "done" /\ new.release \in DOMAIN inRuns' =>
             inRuns'[new.release].released \/ inRuns'[new.release].state # "acknowledged"
       /\ new.step = "published" => new.comment \in inReacted'
       /\ new.key = "admitted" => inAdmission'[new.comment] = "done"
  <2>1. new.key = "admitted" => inAdmission'[new.comment] = "done"
    <3>1. m.comment \in Comments
      BY <1>1 DEF InReplyRow
    <3> QED BY <1>3, <3>1 DEF InInv, InSteps, InForward
  <2> QED BY <1>3, <2>1
<1>11. InSteps'
  BY <1>8, <1>9, <1>10, StepsFrom
<1> QED BY <1>5, <1>6, <1>7, <1>11

LEMMA AnswersSame ==
    ASSUME InInv, InForward, inReply' = inReply
    PROVE  /\ inReply' \subseteq InReplyRow /\ IsFiniteSet(inReply')
           /\ InAnswers' = InAnswers /\ InSteps'
<1>1. \A c \in Comments : Cardinality(InRetries(c)') <= maxManualInteractionResponseRetries
  <2>1. ASSUME NEW c \in Comments PROVE InRetries(c)' = InRetries(c)
    BY DEF InRetries
  <2> QED BY <2>1 DEF InInv, InSteps
<1>2. InSteps'
  BY <1>1, StepsFrom
<1> QED BY <1>2 DEF InInv, InTyped, InAnswers

\* A new answer is queued, unless the comment has one under its key.
LEMMA AnswerQueued ==
    ASSUME InInv, InForward, NEW c \in Comments, NEW key \in {"response", "failed", "admitted"},
           NEW release \in Int, inReply' = InQueued(InReply(c, key, release)),
           key = "admitted" => inAdmission'[c] = "done"
    PROVE  /\ inReply' \subseteq InReplyRow /\ IsFiniteSet(inReply') /\ InSteps'
           /\ InAnswers' \in {InAnswers, InAnswers \cup {<<c, release>>}}
           /\ (\A m \in inReply : m.comment = c => m.key # key) =>
                 InAnswers' = InAnswers \cup {<<c, release>>}
<1> DEFINE new == InReply(c, key, release)
<1>1. /\ new \in InReplyRow /\ new.comment = c /\ new.key = key /\ new.release = release
      /\ new.step = "queued"
  BY DEF InReply, InReplyRow
<1>2. \/ inReply' = inReply /\ \E m \in inReply : m.comment = c /\ m.key = key
      \/ inReply' = inReply \cup {new}
  BY <1>1 DEF InQueued
<1> HIDE DEF new
<1>3. CASE inReply' = inReply /\ \E m \in inReply : m.comment = c /\ m.key = key
  BY <1>3, AnswersSame
<1>4. CASE inReply' = inReply \cup {new}
  <2>1. inReply' \subseteq InReplyRow /\ IsFiniteSet(inReply')
    <3>1. inReply \subseteq InReplyRow /\ IsFiniteSet(inReply)
      BY DEF InInv, InTyped
    <3>2. IsFiniteSet(inReply \cup {new})
      BY <3>1, FS_AddElement
    <3> QED BY <1>1, <1>4, <3>1, <3>2
  <2>2. InAnswers' = InAnswers \cup {<<c, release>>}
    <3>1. InAnswers' = {<<n.comment, n.release>> : n \in inReply'}
      BY DEF InAnswers
    <3> QED BY <1>1, <1>4, <3>1 DEF InAnswers
  <2>3. ASSUME NEW d \in Comments
        PROVE  Cardinality(InRetries(d)') <= maxManualInteractionResponseRetries
    <3>1. InRetries(d)' = {n \in inReply' : n.comment = d /\ n.key = "retry"}
      BY DEF InRetries
    <3>2. InRetries(d)' = InRetries(d)
      BY <1>1, <1>4, <3>1 DEF InRetries
    <3> QED BY <3>2 DEF InInv, InSteps
  <2>4. InSteps'
    BY <1>1, <1>4, <2>3, StepsFrom
  <2> QED BY <2>1, <2>2, <2>4
<1> QED BY <1>2, <1>3, <1>4

\* An administrator publishes an answer again.
LEMMA AnswerRetried ==
    ASSUME InInv, InForward, NEW m \in inReply, RetryInteractionResponse(m)
    PROVE  /\ inReply' \subseteq InReplyRow /\ IsFiniteSet(inReply')
           /\ InAnswers' = InAnswers /\ InSteps'
<1>1. inReply \subseteq InReplyRow /\ IsFiniteSet(inReply) /\ m \in InReplyRow
  BY DEF InInv, InTyped
<1> DEFINE n == Cardinality(InRetries(m.comment)) + 1
           new == [InReply(m.comment, "retry", m.release) EXCEPT !.retry = n]
<1>2. \A c \in Comments : IsFiniteSet(InRetries(c)) /\ Cardinality(InRetries(c)) \in Nat
  <2>1. \A c \in Comments : InRetries(c) \subseteq inReply
    BY DEF InRetries
  <2> QED BY <1>1, <2>1, FS_Subset, FS_CardinalityType
<1>3. m.comment \in Comments /\ m.release \in Int /\ n \in Nat
  BY <1>1, <1>2 DEF InReplyRow
<1>4. /\ new \in InReplyRow /\ new.comment = m.comment /\ new.release = m.release
      /\ new.key = "retry" /\ new.step = "queued"
  <2> HIDE DEF n
  <2>1. new = [comment |-> m.comment, key |-> "retry", retry |-> n, release |-> m.release,
               step |-> "queued"]
    BY DEF InReply
  <2> HIDE DEF new
  <2> QED BY <1>3, <2>1 DEF InReplyRow
<1>5. inReply' = inReply \cup {new}
      /\ Cardinality(InRetries(m.comment)) < maxManualInteractionResponseRetries
  BY DEF RetryInteractionResponse, InRecoverable
<1> HIDE DEF new, n
<1>6. inReply' \subseteq InReplyRow /\ IsFiniteSet(inReply')
  BY <1>1, <1>4, <1>5, FS_AddElement
<1>7. InAnswers' = InAnswers
  <2>1. InAnswers' = {<<k.comment, k.release>> : k \in inReply'}
    BY DEF InAnswers
  <2> QED BY <1>4, <1>5, <2>1 DEF InAnswers
<1>8. ASSUME NEW c \in Comments
      PROVE  Cardinality(InRetries(c)') <= maxManualInteractionResponseRetries
  <2>1. InRetries(c)' = {k \in inReply' : k.comment = c /\ k.key = "retry"}
    BY DEF InRetries
  <2>2. CASE c = m.comment
    <3>1. InRetries(c)' = InRetries(c) \cup {new}
      BY <1>4, <1>5, <2>1, <2>2 DEF InRetries
    <3>2. Cardinality(InRetries(c) \cup {new}) \in {Cardinality(InRetries(c)),
                                                   Cardinality(InRetries(c)) + 1}
      BY <1>2, FS_AddElement
    <3>3. Cardinality(InRetries(c)') = Cardinality(InRetries(c) \cup {new})
      BY <3>1
    <3> QED BY <1>2, <1>5, <2>2, <3>2, <3>3, InteractionAssumption
  <2>3. CASE c # m.comment
    <3>1. InRetries(c)' = InRetries(c)
      BY <1>4, <1>5, <2>1, <2>3 DEF InRetries
    <3> QED BY <3>1 DEF InInv, InSteps
  <2> QED BY <2>2, <2>3
<1>9. InSteps'
  BY <1>4, <1>5, <1>8, StepsFrom
<1> QED BY <1>6, <1>7, <1>9

\* The parts of the invariant from what a step did.
LEMMA FitFrom ==
    ASSUME InInv, InForward,
           \A c \in Comments, r \in Int : <<c, r>> \in InAnswers =>
               /\ inComment'[c].result # InNone
               /\ r \notin {InNothing, InAdmit} => inComment'[c].run = inComment[c].run,
           \A c \in Comments, r \in Int : <<c, r>> \in InAnswers' => <<c, r>> \in InAnswers \/
               /\ inComment'[c].result # InNone
               /\ r \notin {InNothing, InAdmit} =>
                     /\ r \in DOMAIN inRuns' /\ inComment'[c].run = r
                     /\ \A d \in Comments : <<d, r>> \in InAnswers' \/ inMade'[d] = r => d = c,
           \A d \in Comments : inMade'[d] = inMade[d] \/ inMade'[d] \notin DOMAIN inRuns
    PROVE  InAnswersFit'
<1>1. ASSUME NEW c \in Comments, NEW r \in Int, <<c, r>> \in InAnswers'
      PROVE  /\ inComment'[c].result # InNone
             /\ r \notin {InNothing, InAdmit} =>
                   /\ r \in DOMAIN inRuns' /\ inComment'[c].run = r
                   /\ \A d \in Comments : <<d, r>> \in InAnswers' \/ inMade'[d] = r => d = c
  <2>1. CASE <<c, r>> \notin InAnswers
    BY <1>1, <2>1
  <2>2. CASE <<c, r>> \in InAnswers /\ r \in {InNothing, InAdmit}
    BY <2>2
  <2>3. CASE <<c, r>> \in InAnswers /\ r \notin {InNothing, InAdmit}
    <3>1. /\ r \in DOMAIN inRuns /\ inComment[c].run = r
          /\ \A d \in Comments : <<d, r>> \in InAnswers \/ inMade[d] = r => d = c
      BY <2>3 DEF InInv, InAnswersFit
    <3>2. r \in DOMAIN inRuns' /\ inComment'[c].run = r /\ inComment'[c].result # InNone
      BY <2>3, <3>1 DEF InForward, InRunsForward
    <3>3. ASSUME NEW d \in Comments, <<d, r>> \in InAnswers'
          PROVE  d = c
      <4>1. CASE <<d, r>> \in InAnswers
        BY <3>1, <4>1
      <4>2. CASE <<d, r>> \notin InAnswers
        BY <1>1, <2>3, <3>3, <4>2
      <4> QED BY <4>1, <4>2
    <3>4. ASSUME NEW d \in Comments, inMade'[d] = r
          PROVE  d = c
      <4>1. inMade'[d] = inMade[d] \/ inMade'[d] \notin DOMAIN inRuns
        OBVIOUS
      <4>2. inMade[d] = r
        BY <3>1, <3>4, <4>1
      <4>3. \A e \in Comments : inMade[e] = r => e = c
        BY <3>1
      <4> QED BY <4>2, <4>3
    <3> QED BY <3>2, <3>3, <3>4
  <2> QED BY <2>1, <2>2, <2>3
<1> QED BY <1>1 DEF InAnswersFit

LEMMA HeldFrom ==
    ASSUME InInv, InForward, InAnswers \subseteq InAnswers', inBroken \subseteq inBroken',
           \A r \in DOMAIN inRuns' : r \notin DOMAIN inRuns /\ inRuns'[r].state = "acknowledged" =>
               \E c \in Comments : \/ <<c, r>> \in InAnswers'
                                   \/ inMade'[c] = r /\ inAdmission'[c] \in InAdmitting,
           \A r \in DOMAIN inRuns, c \in Comments :
               /\ inMade[c] = r /\ inAdmission[c] \in InAdmitting
               /\ inRuns'[r].state = "acknowledged" /\ r \notin inBroken'
               => \/ <<c, r>> \in InAnswers'
                  \/ inMade'[c] = r /\ inAdmission'[c] \in InAdmitting
    PROVE  InHeldHasAnswer'
<1> SUFFICES ASSUME NEW r \in DOMAIN inRuns', inRuns'[r].state = "acknowledged",
                    ~inRuns'[r].released, r \notin inBroken'
             PROVE  \E c \in Comments : \/ <<c, r>> \in InAnswers'
                                        \/ inMade'[c] = r /\ inAdmission'[c] \in InAdmitting
  BY DEF InHeldHasAnswer
<1>1. CASE r \notin DOMAIN inRuns
  BY <1>1
<1>2. CASE r \in DOMAIN inRuns
  <2>1. inRuns[r].state = "acknowledged" /\ ~inRuns[r].released /\ r \notin inBroken
    BY <1>2 DEF InForward, InRunsForward
  <2>2. PICK c \in Comments :
            <<c, r>> \in InAnswers \/ (inMade[c] = r /\ inAdmission[c] \in InAdmitting)
    BY <1>2, <2>1 DEF InInv, InHeldHasAnswer
  <2> QED BY <1>2, <2>2
<1> QED BY <1>1, <1>2

LEMMA ReleasedFrom ==
    ASSUME InInv, InForward, InAnswers \subseteq InAnswers',
           \A r \in DOMAIN inRuns' : inRuns'[r].released =>
               \/ r \in DOMAIN inRuns /\ inRuns[r].released
               \/ \E c \in Comments : c \in inReacted' /\ <<c, r>> \in InAnswers'
    PROVE  InReleasedReacted'
<1> SUFFICES ASSUME NEW r \in DOMAIN inRuns', inRuns'[r].released
             PROVE  \E c \in Comments : c \in inReacted' /\ <<c, r>> \in InAnswers'
  BY DEF InReleasedReacted
<1>1. CASE r \in DOMAIN inRuns /\ inRuns[r].released
  <2>1. PICK c \in Comments : c \in inReacted /\ <<c, r>> \in InAnswers
    BY <1>1 DEF InInv, InReleasedReacted
  <2> QED BY <2>1 DEF InForward
<1> QED BY <1>1

LEMMA RunsFacts ==
    ASSUME InInv
    PROVE  /\ inRuns \in Seq(InRunRow) /\ Len(inRuns) \in Nat /\ DOMAIN inRuns = 1..Len(inRuns)
           /\ \A r \in DOMAIN inRuns : inRuns[r] \in InRunRow
           /\ InNothing \notin DOMAIN inRuns /\ InAdmit \notin DOMAIN inRuns
<1>1. inRuns \in Seq(InRunRow) /\ Len(inRuns) \in Nat /\ DOMAIN inRuns = 1..Len(inRuns)
  BY DEF InInv, InTyped
<1>2. \A r \in DOMAIN inRuns : inRuns[r] \in InRunRow
  BY <1>1
<1> QED BY <1>1, <1>2 DEF InNothing, InAdmit

LEMMA RunsUnchanged == ASSUME InInv, inRuns' = inRuns PROVE InRunsForward
BY RunsFacts DEF InRunsForward

\* A run of the list gets a new state, and may be released.
LEMMA RunMoves ==
    ASSUME InInv, NEW r \in DOMAIN inRuns, NEW row \in InRunRow, inRuns' = [inRuns EXCEPT ![r] = row],
           row.state = "acknowledged" => inRuns[r].state = "acknowledged",
           inRuns[r].released => row.released
    PROVE  /\ InRunsForward /\ Len(inRuns') = Len(inRuns) /\ DOMAIN inRuns' = DOMAIN inRuns
           /\ inRuns'[r] = row /\ \A q \in DOMAIN inRuns : q # r => inRuns'[q] = inRuns[q]
<1>1. inRuns \in Seq(InRunRow) /\ DOMAIN inRuns = 1..Len(inRuns)
  BY RunsFacts
<1>2. inRuns' \in Seq(InRunRow) /\ Len(inRuns') = Len(inRuns)
  BY <1>1, SequenceUpdate
<1>3. DOMAIN inRuns' = DOMAIN inRuns /\ inRuns'[r] = row
      /\ \A q \in DOMAIN inRuns : q # r => inRuns'[q] = inRuns[q]
  BY <1>1
<1>4. ASSUME NEW q \in DOMAIN inRuns
      PROVE  /\ q \in DOMAIN inRuns'
             /\ inRuns'[q].state = "acknowledged" => inRuns[q].state = "acknowledged"
             /\ inRuns[q].released => inRuns'[q].released
  BY <1>3
<1> QED BY <1>2, <1>3, <1>4 DEF InRunsForward

LEMMA MadeSame == ASSUME InInv, inMade' = inMade, InRunsForward PROVE InMadeFit'
<1>1. DOMAIN inRuns' = 1..Len(inRuns') /\ Len(inRuns') \in Nat
  BY DEF InRunsForward
<1>2. ASSUME NEW c \in Comments
      PROVE  /\ inMade'[c] \in 0..Len(inRuns')
             /\ \A d \in Comments : inMade'[d] = inMade'[c] /\ inMade'[c] # 0 => d = c
  <2>1. /\ inMade[c] \in 0..Len(inRuns)
        /\ \A d \in Comments : inMade[d] = inMade[c] /\ inMade[c] # 0 => d = c
    BY DEF InInv, InMadeFit
  <2>2. inMade[c] = 0 \/ inMade[c] \in DOMAIN inRuns
    BY <2>1, RunsFacts
  <2>3. inMade[c] = 0 \/ inMade[c] \in DOMAIN inRuns'
    BY <2>2 DEF InRunsForward
  <2> QED BY <1>1, <2>1, <2>3
<1> QED BY <1>2 DEF InMadeFit

\* A step that answers nothing new and starts no run.
LEMMA NothingNew ==
    ASSUME InInv, InForward, InAnswers' = InAnswers, inReply' \subseteq InReplyRow,
           IsFiniteSet(inReply'), InSteps', UNCHANGED <<inComment, inMade, inBroken>>,
           DOMAIN inRuns' = DOMAIN inRuns, InAdmissionFit',
           inAdmission' \in [Comments -> {InNone, "queued", "linking", "done"}],
           \A c \in Comments : inAdmission[c] \in InAdmitting => inAdmission'[c] \in InAdmitting,
           \A r \in DOMAIN inRuns : inRuns'[r].released =>
               inRuns[r].released \/ \E c \in Comments : c \in inReacted' /\ <<c, r>> \in InAnswers
    PROVE  InInv'
<1>1. InTyped'
  BY DEF InInv, InTyped, InForward, InRunsForward
<1>2. InAnswersFit'
  <2>1. \A c \in Comments, r \in Int : <<c, r>> \in InAnswers =>
               /\ inComment'[c].result # InNone
               /\ r \notin {InNothing, InAdmit} => inComment'[c].run = inComment[c].run
    BY DEF InInv, InAnswersFit
  <2> QED BY <2>1, FitFrom
<1>3. InMadeFit'
  BY MadeSame DEF InForward
<1>4. InHeldHasAnswer'
  BY HeldFrom
<1>5. InReleasedReacted'
  BY ReleasedFrom
<1> QED BY <1>1, <1>2, <1>3, <1>4, <1>5 DEF InInv

LEMMA AdmissionSame ==
    ASSUME InInv, UNCHANGED <<inAdmission, inComment, inMade>>
    PROVE  /\ InAdmissionFit'
           /\ inAdmission' \in [Comments -> {InNone, "queued", "linking", "done"}]
BY DEF InInv, InTyped, InAdmissionFit

\* The responder publishes an answer, fails or dies; an administrator publishes
\* a dead answer again.
LEMMA AnswerMoves ==
    ASSUME InInv, NEW m \in inReply,
           \/ PublishInteractionResponse(m)
           \/ \E exhausted \in BOOLEAN : ResponderFails(m, exhausted)
           \/ RetryInteractionResponse(m)
    PROVE  InInv'
<1>1. /\ UNCHANGED <<inComment, inRuns, inAdmission, inMade, inBroken>>
      /\ inReacted \subseteq inReacted'
  BY DEF PublishInteractionResponse, ResponderFails, RetryInteractionResponse
<1>2. InForward
  BY <1>1, RunsUnchanged DEF InForward
<1>3. inReply' \subseteq InReplyRow /\ IsFiniteSet(inReply') /\ InAnswers' = InAnswers /\ InSteps'
  <2>1. CASE PublishInteractionResponse(m)
    <3>1. InStep(m, "published") /\ m.comment \in inReacted'
      BY <2>1 DEF PublishInteractionResponse
    <3> QED BY <1>2, <3>1, AnswerSteps
  <2>2. ASSUME NEW exhausted \in BOOLEAN, ResponderFails(m, exhausted)
        PROVE  inReply' \subseteq InReplyRow /\ IsFiniteSet(inReply') /\ InAnswers' = InAnswers
               /\ InSteps'
    <3>1. InStep(m, "dead") \/ InStep(m, "queued")
      BY <2>2 DEF ResponderFails
    <3> QED BY <1>2, <3>1, AnswerSteps
  <2>3. CASE RetryInteractionResponse(m)
    BY <1>2, <2>3, AnswerRetried
  <2> QED BY <2>1, <2>2, <2>3
<1>4. \A r \in DOMAIN inRuns : inRuns'[r].released => inRuns[r].released
  BY <1>1
<1> QED BY <1>1, <1>2, <1>3, <1>4, AdmissionSame, NothingNew

\* The acknowledger takes a released run; a run ends; the admitter dies.
LEMMA RunTurns == ASSUME InInv, NEW r \in DOMAIN inRuns, InExecute(r) \/ InEnd(r) PROVE InInv'
<1>1. PICK state \in {"running", "ended"} : inRuns' = [inRuns EXCEPT ![r].state = state]
  BY DEF InExecute, InEnd
<1> DEFINE row == [inRuns[r] EXCEPT !.state = state]
<1>2. inRuns[r] \in InRunRow
  BY RunsFacts
<1>3. row \in InRunRow
  BY <1>2, Zenon DEF InRunRow
<1>4. row.state = state /\ row.released = inRuns[r].released
  BY <1>2 DEF InRunRow
<1>5. inRuns' = [inRuns EXCEPT ![r] = row]
  BY <1>1, Zenon
<1> HIDE DEF row
<1>6. /\ InRunsForward /\ DOMAIN inRuns' = DOMAIN inRuns
      /\ inRuns'[r] = row /\ \A q \in DOMAIN inRuns : q # r => inRuns'[q] = inRuns[q]
  BY <1>3, <1>4, <1>5, RunMoves
<1>7. UNCHANGED <<inComment, inReply, inAdmission, inMade, inReacted, inBroken>>
  BY DEF InExecute, InEnd
<1>8. InForward
  BY <1>6, <1>7 DEF InForward
<1>9. inReply' \subseteq InReplyRow /\ IsFiniteSet(inReply') /\ InAnswers' = InAnswers /\ InSteps'
  BY <1>7, <1>8, AnswersSame
<1>10. \A q \in DOMAIN inRuns : inRuns'[q].released => inRuns[q].released
  BY <1>4, <1>6
<1> QED BY <1>6, <1>7, <1>8, <1>9, <1>10, AdmissionSame, NothingNew

LEMMA AdmitterRestarts == ASSUME InInv, NEW c \in Comments, AdmitterDies(c) PROVE InInv'
<1>1. /\ inAdmission[c] = "linking" /\ inAdmission' = [inAdmission EXCEPT ![c] = "queued"]
      /\ UNCHANGED <<inComment, inRuns, inReply, inMade, inReacted, inBroken>>
  BY DEF AdmitterDies
<1>2. inAdmission \in [Comments -> {InNone, "queued", "linking", "done"}]
  BY DEF InInv, InTyped
<1>3. inAdmission'[c] = "queued" /\ \A d \in Comments : d # c => inAdmission'[d] = inAdmission[d]
  BY <1>1, <1>2
<1>4. InForward
  BY <1>1, <1>3, RunsUnchanged DEF InForward
<1>5. inReply' \subseteq InReplyRow /\ IsFiniteSet(inReply') /\ InAnswers' = InAnswers /\ InSteps'
  BY <1>1, <1>4, AnswersSame
<1>6. InAdmissionFit'
  BY <1>1, <1>3 DEF InInv, InAdmissionFit, InAdmitting, InNone
<1>7. inAdmission' \in [Comments -> {InNone, "queued", "linking", "done"}]
  BY <1>1, <1>2
<1>8. \A d \in Comments : inAdmission[d] \in InAdmitting => inAdmission'[d] \in InAdmitting
  BY <1>3 DEF InAdmitting
<1>9. \A r \in DOMAIN inRuns : inRuns'[r].released => inRuns[r].released
  BY <1>1
<1> QED BY <1>1, <1>4, <1>5, <1>6, <1>7, <1>8, <1>9, NothingNew

\* The answer is out and what waits for it is released.
LEMMA AnswerReleases == ASSUME InInv, NEW m \in inReply, ReleaseInteraction(m) PROVE InInv'
<1> DEFINE c == m.comment
<1>1. /\ m.step = "published" /\ InStep(m, "done")
      /\ UNCHANGED <<inComment, inMade, inReacted, inBroken>>
  BY DEF ReleaseInteraction
<1>2. m \in InReplyRow /\ c \in Comments /\ m.release \in Int /\ <<c, m.release>> \in InAnswers
  <2>1. m \in InReplyRow
    BY DEF InInv, InTyped
  <2> QED BY <2>1 DEF InReplyRow, InAnswers
<1>3. inAdmission \in [Comments -> {InNone, "queued", "linking", "done"}]
  BY DEF InInv, InTyped
<1>4. CASE m.release = InAdmit
  <2>1. /\ inAdmission' = [inAdmission EXCEPT ![c] =
              IF @ = InNone /\ inComment[c] = [result |-> "accepted", run |-> 0]
              THEN "queued" ELSE @]
        /\ UNCHANGED inRuns
    BY <1>4 DEF ReleaseInteraction, InAdmit, InNothing
  <2>2. /\ inAdmission'[c] = IF inAdmission[c] = InNone
                                /\ inComment[c] = [result |-> "accepted", run |-> 0]
                             THEN "queued" ELSE inAdmission[c]
        /\ \A d \in Comments : d # c => inAdmission'[d] = inAdmission[d]
        /\ inAdmission' \in [Comments -> {InNone, "queued", "linking", "done"}]
    BY <1>2, <1>3, <2>1
  <2>3. InForward
    BY <1>1, <2>1, <2>2, RunsUnchanged DEF InForward, InNone
  <2>4. m.release \notin DOMAIN inRuns'
    BY <1>4, <2>1, RunsFacts
  <2>5. inReply' \subseteq InReplyRow /\ IsFiniteSet(inReply') /\ InAnswers' = InAnswers /\ InSteps'
    BY <1>1, <2>3, <2>4, AnswerSteps
  <2>6. \A d \in Comments : inAdmission[d] \in InAdmitting => inAdmission'[d] \in InAdmitting
    BY <2>2 DEF InAdmitting, InNone
  <2>7. InAdmissionFit'
    <3> SUFFICES ASSUME NEW d \in Comments
                 PROVE  /\ inAdmission'[d] # InNone => inComment'[d].result # InNone
                        /\ inAdmission'[d] \in InAdmitting =>
                              inComment'[d].result = "accepted" /\ inComment'[d].run = 0
                        /\ inAdmission'[d] = "linking" => inMade'[d] # 0
      BY DEF InAdmissionFit
    <3>1. CASE inAdmission'[d] = inAdmission[d]
      BY <1>1, <3>1 DEF InInv, InAdmissionFit
    <3>2. CASE inAdmission'[d] = "queued" /\ inComment[d] = [result |-> "accepted", run |-> 0]
      BY <1>1, <3>2 DEF InNone, InAdmitting
    <3> QED BY <2>2, <3>1, <3>2
  <2>8. \A r \in DOMAIN inRuns : inRuns'[r].released => inRuns[r].released
    BY <2>1
  <2> QED BY <1>1, <2>1, <2>2, <2>3, <2>5, <2>6, <2>7, <2>8, NothingNew
<1>5. CASE m.release = InNothing
  <2>1. UNCHANGED <<inAdmission, inRuns>>
    BY <1>5 DEF ReleaseInteraction, InAdmit, InNothing
  <2>2. InForward
    BY <1>1, <2>1, RunsUnchanged DEF InForward
  <2>3. m.release \notin DOMAIN inRuns'
    BY <1>5, <2>1, RunsFacts
  <2>4. inReply' \subseteq InReplyRow /\ IsFiniteSet(inReply') /\ InAnswers' = InAnswers /\ InSteps'
    BY <1>1, <2>2, <2>3, AnswerSteps
  <2>5. \A r \in DOMAIN inRuns : inRuns'[r].released => inRuns[r].released
    BY <2>1
  <2> QED BY <1>1, <2>1, <2>2, <2>4, <2>5, AdmissionSame, NothingNew
<1>6. CASE m.release \notin {InAdmit, InNothing}
  <2> DEFINE r == m.release
  <2>1. /\ inRuns' = IF inRuns[r].state = "acknowledged"
                     THEN [inRuns EXCEPT ![r].released = TRUE] ELSE inRuns
        /\ UNCHANGED inAdmission
    BY <1>6 DEF ReleaseInteraction, InAdmit, InNothing
  <2>2. r \in DOMAIN inRuns
    BY <1>2, <1>6 DEF InInv, InAnswersFit
  <2>3. /\ InRunsForward /\ DOMAIN inRuns' = DOMAIN inRuns
        /\ \A q \in DOMAIN inRuns : inRuns'[q].released => inRuns[q].released \/ q = r
        /\ inRuns'[r].released \/ inRuns'[r].state # "acknowledged"
    <3>1. CASE inRuns[r].state # "acknowledged"
      BY <2>1, <3>1, RunsUnchanged
    <3>2. CASE inRuns[r].state = "acknowledged"
      <4> DEFINE row == [inRuns[r] EXCEPT !.released = TRUE]
      <4>1. inRuns[r] \in InRunRow
        BY <2>2, RunsFacts
      <4>2. row \in InRunRow
        BY <4>1, Zenon DEF InRunRow
      <4>3. row.state = inRuns[r].state /\ row.released
        BY <4>1 DEF InRunRow
      <4>4. inRuns' = [inRuns EXCEPT ![r] = row]
        BY <2>1, <3>2, Zenon
      <4> HIDE DEF row
      <4>5. /\ InRunsForward /\ DOMAIN inRuns' = DOMAIN inRuns
            /\ inRuns'[r] = row /\ \A q \in DOMAIN inRuns : q # r => inRuns'[q] = inRuns[q]
        BY <2>2, <4>2, <4>3, <4>4, RunMoves
      <4> QED BY <4>3, <4>5
    <3> QED BY <3>1, <3>2
  <2>4. InForward
    BY <1>1, <2>1, <2>3 DEF InForward
  <2>5. inReply' \subseteq InReplyRow /\ IsFiniteSet(inReply') /\ InAnswers' = InAnswers /\ InSteps'
    BY <1>1, <2>3, <2>4, AnswerSteps
  <2>6. c \in inReacted'
    BY <1>1 DEF InInv, InSteps
  <2>7. \A q \in DOMAIN inRuns : inRuns'[q].released =>
            inRuns[q].released \/ \E d \in Comments : d \in inReacted' /\ <<d, q>> \in InAnswers
    BY <1>2, <2>3, <2>6
  <2> QED BY <1>1, <2>1, <2>3, <2>4, <2>5, <2>7, AdmissionSame, NothingNew
<1> QED BY <1>4, <1>5, <1>6

\* A new command is decided and its answer queued; the answer releases at most
\* the run that the command started.
LEMMA CommandDecided ==
    ASSUME InInv, NEW c \in Comments, InFresh(c), NEW row \in InCommentRow, row.result # InNone,
           NEW release \in Int, inComment' = [inComment EXCEPT ![c] = row],
           inReply' = InQueued(InReply(c, "response", release)),
           UNCHANGED <<inAdmission, inMade, inReacted, inBroken>>, InRunsForward,
           release \notin {InNothing, InAdmit} =>
               release \in DOMAIN inRuns' /\ release \notin DOMAIN inRuns /\ row.run = release,
           \A r \in DOMAIN inRuns : inRuns'[r].released => inRuns[r].released,
           \A r \in DOMAIN inRuns' : r \notin DOMAIN inRuns =>
               ~inRuns'[r].released /\ (inRuns'[r].state = "acknowledged" => r = release)
    PROVE  InInv'
<1>1. /\ inComment \in [Comments -> InCommentRow] /\ inReply \subseteq InReplyRow
      /\ inComment[c].result = InNone
  BY DEF InInv, InTyped, InFresh
<1>2. inComment'[c] = row /\ \A d \in Comments : d # c => inComment'[d] = inComment[d]
  BY <1>1
<1>3. InForward
  BY DEF InForward
<1>4. \A r \in Int : <<c, r>> \notin InAnswers
  BY <1>1 DEF InInv, InAnswersFit
<1>5. \A m \in inReply : m.comment # c
  <2> SUFFICES ASSUME NEW m \in inReply, m.comment = c PROVE FALSE
    OBVIOUS
  <2>1. m.release \in Int /\ <<c, m.release>> \in InAnswers
    <3>1. m \in InReplyRow
      BY <1>1
    <3> QED BY <3>1 DEF InReplyRow, InAnswers
  <2> QED BY <1>4, <2>1
<1>6. /\ inReply' \subseteq InReplyRow /\ IsFiniteSet(inReply') /\ InSteps'
      /\ InAnswers' = InAnswers \cup {<<c, release>>}
  BY <1>3, <1>5, AnswerQueued
<1>7. inAdmission[c] = InNone
  BY <1>1 DEF InInv, InAdmissionFit
<1>8. InTyped'
  <2>1. inComment' \in [Comments -> InCommentRow]
    BY <1>1
  <2> QED BY <1>3, <1>6, <2>1 DEF InInv, InTyped, InForward, InRunsForward
<1>9. InAnswersFit'
  <2>1. ASSUME NEW d \in Comments, NEW r \in Int, <<d, r>> \in InAnswers
        PROVE  /\ inComment'[d].result # InNone
               /\ r \notin {InNothing, InAdmit} => inComment'[d].run = inComment[d].run
    <3>1. d # c
      BY <1>4, <2>1
    <3> QED BY <1>2, <2>1, <3>1 DEF InInv, InAnswersFit
  <2>2. ASSUME NEW d \in Comments, NEW r \in Int, <<d, r>> \in InAnswers', <<d, r>> \notin InAnswers
        PROVE  /\ inComment'[d].result # InNone
               /\ r \notin {InNothing, InAdmit} =>
                     /\ r \in DOMAIN inRuns' /\ inComment'[d].run = r
                     /\ \A e \in Comments : <<e, r>> \in InAnswers' \/ inMade'[e] = r => e = d
    <3>1. d = c /\ r = release
      BY <1>6, <2>2
    <3>2. ASSUME r \notin {InNothing, InAdmit}, NEW e \in Comments,
                 <<e, r>> \in InAnswers' \/ inMade'[e] = r
          PROVE  e = d
      <4>1. <<e, r>> \notin InAnswers
        <5>1. <<e, r>> \in InAnswers => r \in DOMAIN inRuns
          BY <3>2 DEF InInv, InAnswersFit
        <5> QED BY <3>1, <3>2, <5>1
      <4>2. inMade[e] # r
        <5>1. inMade[e] = 0 \/ inMade[e] \in DOMAIN inRuns
          BY RunsFacts DEF InInv, InMadeFit
        <5> QED BY <3>1, <3>2, <5>1 DEF InNothing
      <4>3. inMade'[e] # r
        BY <4>2
      <4> QED BY <1>6, <3>1, <3>2, <4>1, <4>3
    <3> QED BY <1>2, <3>1, <3>2
  <2>3. \A d \in Comments : inMade'[d] = inMade[d]
    OBVIOUS
  <2> QED BY <1>3, <2>1, <2>2, <2>3, FitFrom
<1>10. InMadeFit'
  BY MadeSame
<1>11. InAdmissionFit'
  <2> SUFFICES ASSUME NEW d \in Comments
               PROVE  /\ inAdmission'[d] # InNone => inComment'[d].result # InNone
                      /\ inAdmission'[d] \in InAdmitting =>
                            inComment'[d].result = "accepted" /\ inComment'[d].run = 0
                      /\ inAdmission'[d] = "linking" => inMade'[d] # 0
    BY DEF InAdmissionFit
  <2>1. CASE d = c
    BY <1>7, <2>1 DEF InNone, InAdmitting
  <2>2. CASE d # c
    BY <1>2, <2>2 DEF InInv, InAdmissionFit
  <2> QED BY <2>1, <2>2
<1>12. InHeldHasAnswer'
  <2>1. InAnswers \subseteq InAnswers' /\ inBroken \subseteq inBroken'
    BY <1>6
  <2>2. ASSUME NEW r \in DOMAIN inRuns', r \notin DOMAIN inRuns, inRuns'[r].state = "acknowledged"
        PROVE  \E d \in Comments : <<d, r>> \in InAnswers'
    <3>1. <<c, r>> \in InAnswers'
      BY <1>6, <2>2
    <3> QED BY <3>1
  <2>3. ASSUME NEW r \in DOMAIN inRuns, NEW d \in Comments,
               inMade[d] = r, inAdmission[d] \in InAdmitting
        PROVE  inMade'[d] = r /\ inAdmission'[d] \in InAdmitting
    BY <2>3
  <2> QED BY <1>3, <2>1, <2>2, <2>3, HeldFrom
<1>13. InReleasedReacted'
  <2>1. InAnswers \subseteq InAnswers'
    BY <1>6
  <2>2. \A r \in DOMAIN inRuns' : inRuns'[r].released => r \in DOMAIN inRuns /\ inRuns[r].released
    OBVIOUS
  <2> QED BY <1>3, <2>1, <2>2, ReleasedFrom
<1> QED BY <1>6, <1>8, <1>9, <1>10, <1>11, <1>12, <1>13 DEF InInv

\* A rejected command keeps its run; an accepted one shows it.
LEMMA CommentRows ==
    ASSUME InInv, NEW c \in Comments
    PROVE  /\ \A run \in Nat : [result |-> "accepted", run |-> run] \in InCommentRow
           /\ [inComment[c] EXCEPT !.result = "rejected"] \in InCommentRow
           /\ [inComment[c] EXCEPT !.result = "rejected"].result = "rejected"
           /\ [inComment[c] EXCEPT !.result = "rejected"].run = inComment[c].run
<1>1. inComment[c] \in InCommentRow
  BY DEF InInv, InTyped
<1>2. [inComment[c] EXCEPT !.result = "rejected"] \in InCommentRow
  BY <1>1, Zenon DEF InCommentRow
<1> QED BY <1>1, <1>2 DEF InCommentRow

\* Commands that start no run.
LEMMA CommandOnly ==
    ASSUME InInv, NEW c \in Comments, InFresh(c), UNCHANGED <<inAdmission, inMade, inReacted, inBroken>>,
           InRunsForward, DOMAIN inRuns' = DOMAIN inRuns,
           \A r \in DOMAIN inRuns : inRuns'[r].released => inRuns[r].released,
           \/ rejectInteraction(c)
           \/ \E run \in Nat, release \in {InNothing, InAdmit} : acceptInteraction(c, run, release)
    PROVE  InInv'
<1> InNothing \in Int /\ InAdmit \in Int /\ "accepted" # InNone /\ "rejected" # InNone
  BY DEF InNothing, InAdmit, InNone
<1>1. CASE rejectInteraction(c)
  <2> DEFINE row == [inComment[c] EXCEPT !.result = "rejected"]
  <2>1. row \in InCommentRow /\ row.result # InNone
    BY CommentRows
  <2>2. inComment' = [inComment EXCEPT ![c] = row]
    BY <1>1, Zenon DEF rejectInteraction
  <2>3. inReply' = InQueued(InReply(c, "response", InNothing))
    BY <1>1 DEF rejectInteraction
  <2> HIDE DEF row
  <2> QED BY <2>1, <2>2, <2>3, CommandDecided
<1>2. ASSUME NEW run \in Nat, NEW release \in {InNothing, InAdmit}, acceptInteraction(c, run, release)
      PROVE  InInv'
  <2> DEFINE row == [result |-> "accepted", run |-> run]
  <2>1. row \in InCommentRow /\ row.result # InNone
    BY CommentRows
  <2>2. inComment' = [inComment EXCEPT ![c] = row]
        /\ inReply' = InQueued(InReply(c, "response", release))
    BY <1>2 DEF acceptInteraction
  <2> HIDE DEF row
  <2> QED BY <2>1, <2>2, CommandDecided
<1> QED BY <1>1, <1>2

LEMMA CommandStep ==
    ASSUME InInv, NEW c \in Comments,
           \/ RefuseCommand(c) \/ AnswerCommand(c) \/ ReviewCommand(c) \/ CancelCommand(c)
           \/ RetryCommand(c)
    PROVE  InInv'
<1>1. /\ InFresh(c) /\ UNCHANGED <<inAdmission, inMade, inReacted, inBroken>>
  BY DEF RefuseCommand, AnswerCommand, ReviewCommand, CancelCommand, RetryCommand
<1>2. /\ InCurrent \in Nat /\ DOMAIN inRuns = 1..InCurrent /\ InCurrent = Len(inRuns)
      /\ inRuns \in Seq(InRunRow) /\ \A r \in DOMAIN inRuns : inRuns[r] \in InRunRow
  BY RunsFacts DEF InCurrent
<1>3. ASSUME UNCHANGED inRuns,
             \/ rejectInteraction(c)
             \/ \E run \in Nat, release \in {InNothing, InAdmit} : acceptInteraction(c, run, release)
      PROVE  InInv'
  BY <1>1, <1>3, RunsUnchanged, CommandOnly
<1>4. CASE RefuseCommand(c)
  BY <1>3, <1>4 DEF RefuseCommand
<1>5. CASE AnswerCommand(c)
  BY <1>2, <1>3, <1>5 DEF AnswerCommand
<1>6. CASE ReviewCommand(c)
  BY <1>2, <1>3, <1>6 DEF ReviewCommand
<1>7. CASE CancelCommand(c)
  <2>1. CASE ~InActive
    BY <1>3, <1>7, <2>1 DEF CancelCommand
  <2>2. CASE InActive
    <3>1. /\ InCurrent \in DOMAIN inRuns /\ acceptInteraction(c, InCurrent, InNothing)
          /\ inRuns' = [inRuns EXCEPT ![InCurrent].state = "ended"]
      BY <1>2, <1>7, <2>2 DEF CancelCommand, InActive
    <3> DEFINE row == [inRuns[InCurrent] EXCEPT !.state = "ended"]
    <3>2. inRuns[InCurrent] \in InRunRow
      BY <1>2, <3>1
    <3>3. row \in InRunRow
      BY <3>2, Zenon DEF InRunRow
    <3>4. row.state = "ended" /\ row.released = inRuns[InCurrent].released
      BY <3>2 DEF InRunRow
    <3>5. inRuns' = [inRuns EXCEPT ![InCurrent] = row]
      BY <3>1, Zenon
    <3> HIDE DEF row
    <3>6. /\ InRunsForward /\ DOMAIN inRuns' = DOMAIN inRuns /\ inRuns'[InCurrent] = row
          /\ \A q \in DOMAIN inRuns : q # InCurrent => inRuns'[q] = inRuns[q]
      BY <3>1, <3>3, <3>4, <3>5, RunMoves
    <3>7. \A r \in DOMAIN inRuns : inRuns'[r].released => inRuns[r].released
      BY <3>4, <3>6
    <3> QED BY <1>1, <1>2, <3>1, <3>6, <3>7, CommandOnly
  <2> QED BY <2>1, <2>2
<1>8. CASE RetryCommand(c)
  <2>1. CASE InCurrent = 0 \/ InActive
    BY <1>3, <1>8, <2>1 DEF RetryCommand
  <2>2. CASE ~(InCurrent = 0 \/ InActive)
    <3>1. PICK state \in {"acknowledged", "ended"} :
              /\ inRuns' = Append(inRuns, [inRuns[InCurrent] EXCEPT !.state = state,
                                                                    !.released = FALSE])
              /\ acceptInteraction(c, InCurrent + 1,
                     IF state = "acknowledged" THEN InCurrent + 1 ELSE InNothing)
      BY <1>8, <2>2 DEF RetryCommand
    <3> DEFINE row == [inRuns[InCurrent] EXCEPT !.state = state, !.released = FALSE]
               release == IF state = "acknowledged" THEN InCurrent + 1 ELSE InNothing
    <3>2. inRuns[InCurrent] \in InRunRow
      BY <1>2, <2>2
    <3>3. row \in InRunRow
      BY <3>2, Zenon DEF InRunRow
    <3>4. row.state = state /\ ~row.released
      BY <3>2 DEF InRunRow
    <3>5. inRuns' = Append(inRuns, row)
      BY <3>1
    <3> HIDE DEF row
    <3>6. /\ inRuns' \in Seq(InRunRow) /\ DOMAIN inRuns' = 1..(InCurrent + 1)
          /\ inRuns'[InCurrent + 1] = row /\ \A q \in DOMAIN inRuns : inRuns'[q] = inRuns[q]
      BY <1>2, <3>3, <3>5
    <3>7. InRunsForward
      BY <1>2, <3>6 DEF InRunsForward
    <3>8. /\ release \in Int
          /\ release \notin {InNothing, InAdmit} =>
                release \in DOMAIN inRuns' /\ release \notin DOMAIN inRuns /\ InCurrent + 1 = release
      BY <1>2, <3>6 DEF InNothing, InAdmit
    <3>9. \A r \in DOMAIN inRuns' : r \notin DOMAIN inRuns =>
              ~inRuns'[r].released /\ (inRuns'[r].state = "acknowledged" => r = release)
      <4>1. \A r \in DOMAIN inRuns' : r \notin DOMAIN inRuns => r = InCurrent + 1
        BY <1>2, <3>6
      <4> QED BY <3>4, <3>6, <4>1
    <3> DEFINE link == [result |-> "accepted", run |-> InCurrent + 1]
    <3>10. link \in InCommentRow /\ link.result # InNone /\ link.run = InCurrent + 1
      BY <1>2 DEF InCommentRow, InNone
    <3>11. inComment' = [inComment EXCEPT ![c] = link]
           /\ inReply' = InQueued(InReply(c, "response", release))
      BY <3>1 DEF acceptInteraction
    <3>12. \A r \in DOMAIN inRuns : inRuns'[r].released => inRuns[r].released
      BY <3>6
    <3> HIDE DEF link, release
    <3> QED BY <1>1, <3>7, <3>8, <3>9, <3>10, <3>11, <3>12, CommandDecided
  <2> QED BY <2>1, <2>2
<1> QED BY <1>4, <1>5, <1>6, <1>7, <1>8

\* An admission ends: the command is answered as failed, or linked to the run
\* made for it, whose answer releases the run.
LEMMA AdmissionDecided ==
    ASSUME InInv, NEW c \in Comments, inAdmission[c] \in InAdmitting,
           NEW row \in InCommentRow, row.result # InNone,
           NEW key \in {"failed", "admitted"}, NEW release \in Int,
           inComment' = [inComment EXCEPT ![c] = row],
           inAdmission' = [inAdmission EXCEPT ![c] = "done"],
           inReply' = InQueued(InReply(c, key, release)),
           UNCHANGED <<inRuns, inMade, inReacted>>, inBroken \subseteq inBroken',
           release # InNothing => key = "admitted" /\ release = inMade[c] /\ row.run = release,
           inMade[c] # 0 /\ inRuns[inMade[c]].state = "acknowledged" =>
               (key = "admitted" /\ release = inMade[c]) \/ inMade[c] \in inBroken'
    PROVE  InInv'
<1>1. /\ inComment \in [Comments -> InCommentRow] /\ inReply \subseteq InReplyRow
      /\ inAdmission \in [Comments -> {InNone, "queued", "linking", "done"}]
      /\ inAdmission[c] # "done" /\ inAdmission[c] # InNone
  BY DEF InInv, InTyped, InAdmitting, InNone
<1>2. inComment'[c] = row /\ \A d \in Comments : d # c => inComment'[d] = inComment[d]
  BY <1>1
<1>3. inAdmission'[c] = "done" /\ \A d \in Comments : d # c => inAdmission'[d] = inAdmission[d]
  BY <1>1
<1>4. InForward
  BY <1>3, RunsUnchanged DEF InForward
<1>5. \A r \in Int : <<c, r>> \in InAnswers => r \in {InNothing, InAdmit}
  <2>1. inComment[c].run = 0
    BY DEF InInv, InAdmissionFit
  <2> QED BY <2>1, RunsFacts DEF InInv, InAnswersFit, InNothing
<1>6. /\ inReply' \subseteq InReplyRow /\ IsFiniteSet(inReply') /\ InSteps'
      /\ InAnswers' \in {InAnswers, InAnswers \cup {<<c, release>>}}
      /\ key = "admitted" => InAnswers' = InAnswers \cup {<<c, release>>}
  <2>1. \A m \in inReply : m.comment = c => m.key # "admitted"
    BY <1>1 DEF InInv, InSteps
  <2> QED BY <1>3, <1>4, <2>1, AnswerQueued
<1>7. InTyped'
  <2>1. inComment' \in [Comments -> InCommentRow]
    BY <1>1
  <2>2. inAdmission' \in [Comments -> {InNone, "queued", "linking", "done"}]
    BY <1>1
  <2> QED BY <1>6, <2>1, <2>2 DEF InInv, InTyped
<1>8. InAnswersFit'
  <2>1. ASSUME NEW d \in Comments, NEW r \in Int, <<d, r>> \in InAnswers
        PROVE  /\ inComment'[d].result # InNone
               /\ r \notin {InNothing, InAdmit} => inComment'[d].run = inComment[d].run
    <3>1. CASE d = c
      BY <1>2, <1>5, <2>1, <3>1
    <3>2. CASE d # c
      BY <1>2, <2>1, <3>2 DEF InInv, InAnswersFit
    <3> QED BY <3>1, <3>2
  <2>2. ASSUME NEW d \in Comments, NEW r \in Int, <<d, r>> \in InAnswers', <<d, r>> \notin InAnswers
        PROVE  /\ inComment'[d].result # InNone
               /\ r \notin {InNothing, InAdmit} =>
                     /\ r \in DOMAIN inRuns' /\ inComment'[d].run = r
                     /\ \A e \in Comments : <<e, r>> \in InAnswers' \/ inMade'[e] = r => e = d
    <3>1. d = c /\ r = release
      BY <1>6, <2>2
    <3>2. ASSUME r \notin {InNothing, InAdmit}
          PROVE  /\ r \in DOMAIN inRuns /\ row.run = r
                 /\ \A e \in Comments : <<e, r>> \in InAnswers \/ inMade[e] = r => e = c
      <4>1. r = inMade[c] /\ row.run = r
        BY <3>1, <3>2
      <4>2. r \in DOMAIN inRuns /\ \A e \in Comments : inMade[e] = r => e = c
        BY <3>2, <4>1, RunsFacts DEF InInv, InMadeFit, InNothing
      <4>3. ASSUME NEW e \in Comments, <<e, r>> \in InAnswers
            PROVE  e = c
        <5>1. \A f \in Comments : inMade[f] = r => f = e
          BY <3>2, <4>3 DEF InInv, InAnswersFit
        <5> QED BY <4>1, <5>1
      <4> QED BY <4>1, <4>2, <4>3
    <3>3. \A e \in Comments : <<e, r>> \in InAnswers' => <<e, r>> \in InAnswers \/ e = c
      BY <1>6
    <3> QED BY <1>2, <3>1, <3>2, <3>3
  <2>3. \A d \in Comments : inMade'[d] = inMade[d]
    OBVIOUS
  <2> QED BY <1>4, <2>1, <2>2, <2>3, FitFrom
<1>9. InMadeFit'
  BY <1>4, MadeSame DEF InForward
<1>10. InAdmissionFit'
  <2> SUFFICES ASSUME NEW d \in Comments
               PROVE  /\ inAdmission'[d] # InNone => inComment'[d].result # InNone
                      /\ inAdmission'[d] \in InAdmitting =>
                            inComment'[d].result = "accepted" /\ inComment'[d].run = 0
                      /\ inAdmission'[d] = "linking" => inMade'[d] # 0
    BY DEF InAdmissionFit
  <2>1. CASE d = c
    BY <1>2, <1>3, <2>1 DEF InNone, InAdmitting
  <2>2. CASE d # c
    BY <1>2, <1>3, <2>2 DEF InInv, InAdmissionFit
  <2> QED BY <2>1, <2>2
<1>11. InHeldHasAnswer'
  <2>1. InAnswers \subseteq InAnswers'
    BY <1>6
  <2>2. ASSUME NEW r \in DOMAIN inRuns, NEW d \in Comments, inMade[d] = r,
               inAdmission[d] \in InAdmitting, inRuns'[r].state = "acknowledged",
               r \notin inBroken'
        PROVE  \/ <<d, r>> \in InAnswers'
               \/ inMade'[d] = r /\ inAdmission'[d] \in InAdmitting
    <3>1. CASE d # c
      BY <1>3, <2>2, <3>1
    <3>2. CASE d = c
      <4>1. r # 0
        BY RunsFacts DEF InNothing
      <4>2. key = "admitted" /\ release = r
        BY <2>2, <3>2, <4>1
      <4> QED BY <1>6, <3>2, <4>2
    <3> QED BY <3>1, <3>2
  <2>3. \A r \in DOMAIN inRuns' : r \in DOMAIN inRuns
    OBVIOUS
  <2> QED BY <1>4, <2>1, <2>2, <2>3, HeldFrom
<1>12. InReleasedReacted'
  <2>1. InAnswers \subseteq InAnswers'
    BY <1>6
  <2> QED BY <1>4, <2>1, ReleasedFrom
<1> QED BY <1>6, <1>7, <1>8, <1>9, <1>10, <1>11, <1>12 DEF InInv

LEMMA AdmissionFails ==
    ASSUME InInv, NEW c \in Comments, inAdmission[c] \in InAdmitting, InFails(c),
           inAdmission' = [inAdmission EXCEPT ![c] = "done"],
           UNCHANGED <<inRuns, inMade, inReacted>>, inBroken \subseteq inBroken',
           inMade[c] = 0 \/ inMade[c] \in inBroken'
    PROVE  InInv'
<1>1. inComment[c] \in InCommentRow /\ inComment[c].result = "accepted" /\ inComment[c].run = 0
  BY DEF InInv, InTyped, InAdmissionFit
<1>2. inComment[c] = [result |-> "accepted", run |-> 0]
  BY <1>1 DEF InCommentRow
<1> DEFINE row == [inComment[c] EXCEPT !.result = "rejected"]
<1>3. row \in InCommentRow /\ row.result # InNone
  BY CommentRows DEF InNone
<1>4. inComment' = [inComment EXCEPT ![c] = row]
  BY <1>2, Zenon DEF InFails
<1>5. inReply' = InQueued(InReply(c, "failed", InNothing)) /\ InNothing \in Int
  BY <1>2 DEF InFails, InNothing
<1> HIDE DEF row
<1> QED BY <1>3, <1>4, <1>5, AdmissionDecided

LEMMA AdmissionLinks == ASSUME InInv, NEW c \in Comments, AdmitLink(c) PROVE InInv'
<1>1. /\ inAdmission[c] = "linking" /\ inAdmission[c] \in InAdmitting
      /\ inAdmission' = [inAdmission EXCEPT ![c] = "done"]
      /\ UNCHANGED <<inRuns, inMade, inReacted, inBroken>>
  BY DEF AdmitLink, InAdmitting
<1>2. inComment[c] \in InCommentRow /\ inComment[c].result = "accepted" /\ inMade[c] # 0
  BY <1>1 DEF InInv, InTyped, InAdmissionFit
<1>3. inMade[c] \in Nat /\ inMade[c] \in Int
  BY DEF InInv, InTyped
<1> DEFINE row == [inComment[c] EXCEPT !.run = inMade[c]]
           release == IF inRuns[inMade[c]].state = "acknowledged" THEN inMade[c] ELSE InNothing
<1>4. row \in InCommentRow
  BY <1>2, <1>3, Zenon DEF InCommentRow
<1>5. row.result # InNone /\ row.run = inMade[c]
  BY <1>2 DEF InCommentRow, InNone
<1>6. inComment' = [inComment EXCEPT ![c] = row]
  BY <1>2, Zenon DEF AdmitLink
<1>7. inReply' = InQueued(InReply(c, "admitted", release))
  BY <1>2 DEF AdmitLink
<1>8. release \in Int /\ (release # InNothing => release = inMade[c])
  BY <1>3 DEF InNothing
<1>9. inRuns[inMade[c]].state = "acknowledged" => release = inMade[c]
  OBVIOUS
<1> HIDE DEF row, release
<1> QED BY <1>1, <1>4, <1>5, <1>6, <1>7, <1>8, <1>9, AdmissionDecided

LEMMA AdmissionEnqueues ==
    ASSUME InInv, NEW c \in Comments, NEW h \in InHeads, AdmitEnqueue(c, h) PROVE InInv'
<1>1. /\ inAdmission[c] = "queued" /\ inAdmission[c] \in InAdmitting
      /\ inAdmission \in [Comments -> {InNone, "queued", "linking", "done"}]
      /\ UNCHANGED <<inReacted, inBroken>>
  BY DEF AdmitEnqueue, InAdmitting, InInv, InTyped
<1>2. /\ InCurrent \in Nat /\ DOMAIN inRuns = 1..InCurrent /\ InCurrent = Len(inRuns)
      /\ inRuns \in Seq(InRunRow) /\ \A r \in DOMAIN inRuns : inRuns[r] \in InRunRow
  BY RunsFacts DEF InCurrent
<1>3. CASE inMade[c] # 0
  <2>1. /\ inAdmission' = [inAdmission EXCEPT ![c] = "linking"]
        /\ UNCHANGED <<inComment, inRuns, inReply, inMade>>
    BY <1>3 DEF AdmitEnqueue
  <2>2. inAdmission'[c] = "linking" /\ \A d \in Comments : d # c => inAdmission'[d] = inAdmission[d]
    BY <1>1, <2>1
  <2>3. InForward
    BY <1>1, <2>1, <2>2, RunsUnchanged DEF InForward
  <2>4. inReply' \subseteq InReplyRow /\ IsFiniteSet(inReply') /\ InAnswers' = InAnswers /\ InSteps'
    BY <2>1, <2>3, AnswersSame
  <2>5. InAdmissionFit'
    BY <1>1, <1>3, <2>1, <2>2 DEF InInv, InAdmissionFit, InAdmitting, InNone
  <2>6. inAdmission' \in [Comments -> {InNone, "queued", "linking", "done"}]
    BY <1>1, <2>1
  <2>7. \A d \in Comments : inAdmission[d] \in InAdmitting => inAdmission'[d] \in InAdmitting
    BY <2>2 DEF InAdmitting
  <2>8. \A r \in DOMAIN inRuns : inRuns'[r].released => inRuns[r].released
    BY <2>1
  <2> QED BY <1>1, <2>1, <2>3, <2>4, <2>5, <2>6, <2>7, <2>8, NothingNew
<1>4. CASE inMade[c] = 0 /\ InActive /\ inRuns[InCurrent].head = h
  <2>1. /\ inAdmission' = [inAdmission EXCEPT ![c] = "done"] /\ InFails(c)
        /\ UNCHANGED <<inRuns, inMade>>
    BY <1>4 DEF AdmitEnqueue
  <2> QED BY <1>1, <1>4, <2>1, AdmissionFails
<1>5. CASE inMade[c] = 0 /\ ~(InActive /\ inRuns[InCurrent].head = h)
  <2> DEFINE ended == [r \in DOMAIN inRuns |-> [inRuns[r] EXCEPT !.state = "ended"]]
  <2>1. /\ inMade' = [inMade EXCEPT ![c] = InCurrent + 1]
        /\ inAdmission' = [inAdmission EXCEPT ![c] = "linking"]
        /\ UNCHANGED <<inComment, inReply>>
        /\ \E state \in {"acknowledged", "ended"} :
              inRuns' = Append(ended, [head |-> h, state |-> state, released |-> FALSE])
    BY <1>5 DEF AdmitEnqueue
  <2>2. PICK state \in {"acknowledged", "ended"} :
            inRuns' = Append(ended, [head |-> h, state |-> state, released |-> FALSE])
    BY <2>1
  <2> DEFINE row == [head |-> h, state |-> state, released |-> FALSE]
  <2>3. row \in InRunRow /\ ~row.released
    BY DEF InRunRow
  <2>4. ASSUME NEW r \in DOMAIN inRuns
        PROVE  /\ ended[r] \in InRunRow /\ ended[r].state = "ended"
               /\ ended[r].released = inRuns[r].released
    <3>1. inRuns[r] \in InRunRow
      BY <1>2
    <3>2. [inRuns[r] EXCEPT !.state = "ended"] \in InRunRow
      BY <3>1, Zenon DEF InRunRow
    <3>3. ended[r] = [inRuns[r] EXCEPT !.state = "ended"]
      OBVIOUS
    <3> HIDE DEF ended
    <3> QED BY <3>1, <3>2, <3>3 DEF InRunRow
  <2>5. ended \in Seq(InRunRow) /\ Len(ended) = InCurrent
    <3>1. ended \in [1..InCurrent -> InRunRow]
      BY <1>2, <2>4
    <3> HIDE DEF ended
    <3>2. ended \in Seq(InRunRow)
      BY <1>2, <3>1
    <3> QED BY <1>2, <3>1, <3>2
  <2>6. inRuns' = Append(ended, row)
    BY <2>2
  <2> HIDE DEF ended, row
  <2>7. /\ inRuns' \in Seq(InRunRow) /\ DOMAIN inRuns' = 1..(InCurrent + 1)
        /\ Len(inRuns') = InCurrent + 1 /\ inRuns'[InCurrent + 1] = row
        /\ \A r \in 1..InCurrent : inRuns'[r] = ended[r]
    BY <1>2, <2>3, <2>5, <2>6
  <2>8. \A r \in DOMAIN inRuns : /\ r \in DOMAIN inRuns' /\ inRuns'[r].state = "ended"
                                 /\ inRuns'[r].released = inRuns[r].released
    BY <1>2, <2>4, <2>7
  <2>9. inAdmission'[c] = "linking" /\ \A d \in Comments : d # c => inAdmission'[d] = inAdmission[d]
    BY <1>1, <2>1
  <2>10. InForward
    <3>1. InRunsForward
      BY <2>7, <2>8 DEF InRunsForward
    <3> QED BY <1>1, <2>9, <3>1 DEF InForward
  <2>11. inReply' \subseteq InReplyRow /\ IsFiniteSet(inReply') /\ InAnswers' = InAnswers /\ InSteps'
    BY <2>1, <2>10, AnswersSame
  <2>12. inMade \in [Comments -> Nat] /\ inMade'[c] = InCurrent + 1
         /\ \A d \in Comments : d # c => inMade'[d] = inMade[d]
    <3>1. inMade \in [Comments -> Nat]
      BY DEF InInv, InTyped
    <3> QED BY <2>1, <3>1
  <2>13. InTyped'
    <3>1. inMade' \in [Comments -> Nat] /\ inAdmission' \in [Comments -> {InNone, "queued", "linking", "done"}]
      BY <1>1, <1>2, <2>1, <2>12
    <3> QED BY <2>1, <2>7, <2>11, <3>1 DEF InInv, InTyped
  <2>14. InAnswersFit'
    <3>1. \A d \in Comments, r \in Int : <<d, r>> \in InAnswers =>
               /\ inComment'[d].result # InNone
               /\ r \notin {InNothing, InAdmit} => inComment'[d].run = inComment[d].run
      BY <2>1 DEF InInv, InAnswersFit
    <3>2. InCurrent + 1 \notin DOMAIN inRuns
      BY <1>2
    <3>3. \A d \in Comments : inMade'[d] = inMade[d] \/ inMade'[d] \notin DOMAIN inRuns
      BY <2>12, <3>2
    <3> QED BY <2>10, <2>11, <3>1, <3>3, FitFrom
  <2>15. InMadeFit'
    <3>1. \A d \in Comments : inMade[d] \in 0..InCurrent
      BY <1>2 DEF InInv, InMadeFit
    <3>2. ASSUME NEW d \in Comments
          PROVE  inMade'[d] \in 0..Len(inRuns')
      BY <1>2, <2>7, <2>12, <3>1
    <3>3. ASSUME NEW d \in Comments, NEW e \in Comments, inMade'[e] = inMade'[d], inMade'[d] # 0
          PROVE  e = d
      <4>1. CASE d = c \/ e = c
        BY <1>2, <2>12, <3>1, <3>3, <4>1
      <4>2. CASE d # c /\ e # c
        BY <2>12, <3>3, <4>2 DEF InInv, InMadeFit
      <4> QED BY <4>1, <4>2
    <3> QED BY <3>2, <3>3 DEF InMadeFit
  <2>16. InAdmissionFit'
    <3>1. InCurrent + 1 # 0
      BY <1>2
    <3> QED BY <1>1, <2>1, <2>9, <2>12, <3>1 DEF InInv, InAdmissionFit, InAdmitting, InNone
  <2>17. InHeldHasAnswer'
    <3>1. ASSUME NEW r \in DOMAIN inRuns', r \notin DOMAIN inRuns
          PROVE  inMade'[c] = r /\ inAdmission'[c] \in InAdmitting
      BY <1>2, <2>7, <2>9, <2>12, <3>1 DEF InAdmitting
    <3>2. InAnswers \subseteq InAnswers' /\ inBroken \subseteq inBroken'
      BY <1>1, <2>11
    <3>3. \A r \in DOMAIN inRuns : inRuns'[r].state # "acknowledged"
      BY <2>8
    <3> QED BY <2>10, <3>1, <3>2, <3>3, HeldFrom
  <2>18. InReleasedReacted'
    <3>1. \A r \in DOMAIN inRuns' : inRuns'[r].released => r \in DOMAIN inRuns /\ inRuns[r].released
      <4>1. \A r \in DOMAIN inRuns' : r \in DOMAIN inRuns \/ r = InCurrent + 1
        BY <1>2, <2>7
      <4> QED BY <2>3, <2>7, <2>8, <4>1
    <3> QED BY <2>10, <2>11, <3>1, ReleasedFrom
  <2> QED BY <2>11, <2>13, <2>14, <2>15, <2>16, <2>17, <2>18 DEF InInv
<1> QED BY <1>3, <1>4, <1>5

LEMMA InteractionStep == InInv /\ [InNext]_inVars => InInv'
<1> SUFFICES ASSUME InInv, [InNext]_inVars PROVE InInv'
  OBVIOUS
<1>1. ASSUME NEW c \in Comments,
             \/ RefuseCommand(c) \/ AnswerCommand(c) \/ ReviewCommand(c) \/ CancelCommand(c)
             \/ RetryCommand(c)
      PROVE  InInv'
  BY <1>1, CommandStep
<1>2. ASSUME NEW c \in Comments, FailInitialInteractionAdmission(c) \/ AdmitLinkFails(c)
      PROVE  InInv'
  <2>1. /\ inAdmission[c] \in InAdmitting /\ InFails(c)
        /\ inAdmission' = [inAdmission EXCEPT ![c] = "done"]
        /\ UNCHANGED <<inRuns, inMade, inReacted>>
        /\ inBroken \subseteq inBroken' /\ inMade[c] \in inBroken'
    BY <1>2 DEF FailInitialInteractionAdmission, AdmitLinkFails, InAdmitting
  <2> QED BY <2>1, AdmissionFails
<1>3. ASSUME NEW c \in Comments, NEW h \in InHeads, AdmitEnqueue(c, h) PROVE InInv'
  BY <1>3, AdmissionEnqueues
<1>4. ASSUME NEW c \in Comments, AdmitLink(c) PROVE InInv'
  BY <1>4, AdmissionLinks
<1>5. ASSUME NEW c \in Comments, AdmitterDies(c) PROVE InInv'
  BY <1>5, AdmitterRestarts
<1>6. ASSUME NEW m \in inReply, ReleaseInteraction(m) PROVE InInv'
  BY <1>6, AnswerReleases
<1>7. ASSUME NEW m \in inReply,
             \/ PublishInteractionResponse(m)
             \/ \E exhausted \in BOOLEAN : ResponderFails(m, exhausted)
             \/ RetryInteractionResponse(m)
      PROVE  InInv'
  BY <1>7, AnswerMoves
<1>8. ASSUME NEW r \in DOMAIN inRuns, InExecute(r) \/ InEnd(r) PROVE InInv'
  BY <1>8, RunTurns
<1>9. CASE UNCHANGED inVars
  <2>1. /\ UNCHANGED <<inComment, inRuns, inReply, inAdmission, inMade, inReacted, inBroken>>
        /\ InAnswers' = InAnswers
    BY <1>9 DEF inVars, InAnswers
  <2>2. InForward
    BY <2>1, RunsUnchanged DEF InForward
  <2>3. inReply' \subseteq InReplyRow /\ IsFiniteSet(inReply') /\ InSteps'
    BY <2>1, <2>2, AnswersSame
  <2>4. \A r \in DOMAIN inRuns : inRuns'[r].released => inRuns[r].released
    BY <2>1
  <2> QED BY <2>1, <2>2, <2>3, <2>4, AdmissionSame, NothingNew
<1> QED BY <1>1, <1>2, <1>3, <1>4, <1>5, <1>6, <1>7, <1>8, <1>9 DEF InNext

\* Nobody who asked for a review is left waiting: no end of a review is silent
\* at the provider, a held run has a way out, and a run that waited for the
\* reaction to its command starts only once that is there.
THEOREM NobodyWaits == Spec => []NobodyIsLeftWaiting
<1>1. Init => PbInv /\ InInv
  BY PublicationInit, InteractionInit DEF Init
<1>2. (PbInv /\ InInv) /\ [Next]_vars => (PbInv /\ InInv)'
  BY PublicationStep, InteractionStep, PartsMove
<1>3. PbInv /\ InInv => NobodyIsLeftWaiting
  BY InteractionHolds DEF PbInv, NobodyIsLeftWaiting
<1> QED BY <1>1, <1>2, <1>3, PTL DEF Spec
=============================================================================
