-------------------------- MODULE MCAgentPlatform ---------------------------
(* The parts of the agent platform and of a review's run outside ReviewRunner,
   instantiated together.  They share no variable, so a behaviour moves one of
   them, `area`, and leaves the others in an initial state: a run covers the
   behaviours of each part, and none of their product.                      *)
EXTENDS AgentDelivery, AgentIntake, AgentSource, AgentCampaign,
        AgentCredential, AgentSandbox, ModelBroker, Publication, ReviewEntries,
        Interaction, RiskPlan

CONSTANT Areas     \* the parts this run goes through

VARIABLE area      \* the part that moves

\* What the planner can see of a path: six sets of traits, weak to strong.
SixTraits == {{"artifact"}, {}, {"public"}, {"auth", "public"},
              {"public", "state"}, {"manifest"}}

vars == <<area, dlVars, aiVars, srVars, cmVars, crVars, sbVars, mbVars, pbVars,
          reVars, inVars, rpVars>>

\* A part that does not move needs only one of its initial states.
Init ==
    /\ area \in Areas
    /\ RpInit
    /\ \/ area = "plan"
       \/ /\ rpDiff = <<>> /\ rpFiltered = {} /\ rpPinned
          /\ rpMode = [requested |-> "deep", configured |-> "focused"]
    /\ AiInit /\ (area = "intake" \/ aiPolicy = "off")
    /\ MbInit /\ (area = "broker" \/ mbWire = "responses")
    /\ SbInit /\ (area = "sandbox" \/ (~sbProfiles /\ \A j \in SbJobs : sbKind[j] = "ordinary"))
    /\ DlInit /\ SrInit /\ CreateAgentCampaign /\ CrInit
    /\ PbInit /\ ReInit /\ InInit

Next ==
    \/ /\ area = "delivery" /\ DlNext
       /\ UNCHANGED <<area, aiVars, srVars, cmVars, crVars, sbVars, mbVars,
                       pbVars, reVars, inVars, rpVars>>
    \/ /\ area = "intake" /\ AiNext
       /\ UNCHANGED <<area, dlVars, srVars, cmVars, crVars, sbVars, mbVars,
                       pbVars, reVars, inVars, rpVars>>
    \/ /\ area = "source" /\ SrNext
       /\ UNCHANGED <<area, dlVars, aiVars, cmVars, crVars, sbVars, mbVars,
                       pbVars, reVars, inVars, rpVars>>
    \/ /\ area = "campaign" /\ CmNext
       /\ UNCHANGED <<area, dlVars, aiVars, srVars, crVars, sbVars, mbVars,
                       pbVars, reVars, inVars, rpVars>>
    \/ /\ area = "credential" /\ CrNext
       /\ UNCHANGED <<area, dlVars, aiVars, srVars, cmVars, sbVars, mbVars,
                       pbVars, reVars, inVars, rpVars>>
    \/ /\ area = "sandbox" /\ SbNext
       /\ UNCHANGED <<area, dlVars, aiVars, srVars, cmVars, crVars, mbVars,
                       pbVars, reVars, inVars, rpVars>>
    \/ /\ area = "broker" /\ MbNext
       /\ UNCHANGED <<area, dlVars, aiVars, srVars, cmVars, crVars, sbVars,
                       pbVars, reVars, inVars, rpVars>>
    \/ /\ area = "publication" /\ PbNext
       /\ UNCHANGED <<area, dlVars, aiVars, srVars, cmVars, crVars, sbVars,
                       mbVars, reVars, inVars, rpVars>>
    \/ /\ area = "entries" /\ ReNext
       /\ UNCHANGED <<area, dlVars, aiVars, srVars, cmVars, crVars, sbVars,
                       mbVars, pbVars, inVars, rpVars>>
    \/ /\ area = "interaction" /\ InNext
       /\ UNCHANGED <<area, dlVars, aiVars, srVars, cmVars, crVars, sbVars,
                       mbVars, pbVars, reVars, rpVars>>
    \/ /\ area = "plan" /\ RpNext
       /\ UNCHANGED <<area, dlVars, aiVars, srVars, cmVars, crVars, sbVars,
                       mbVars, pbVars, reVars, inVars>>

Spec == Init /\ [][Next]_vars

-----------------------------------------------------------------------------
\* What the platform shows is what was checked: the published patch is allowed
\* and, where the workflow or the deployment asks for a verification, the one
\* that ran on it; the scope a review reports is the one every attempt gave the
\* model.
ShownWasChecked == PublishedWasVerified /\ ReviewedIsRecorded

\* Repeated deliveries, repeated scans, several people and several calls: one
\* task for a snapshot, no more executions than the campaign allows and none
\* after its cancellation, no more model calls, bytes or tokens than a job has.
AgentWorkIsBounded ==
    /\ SameSnapshotSameTask
    /\ CampaignWithinLimits /\ CancelledCampaignIsQuiet
    /\ SpendWithinCeiling

\* A run that ended was reported or still will be, one that waits for a person
\* has a command that moves it, and one that a comment started was answered.
NobodyIsLeftWaiting == NoEndIsSilent /\ HeldRunHasAWayOut /\ StartedWasAnswered

\* What was read or sent earlier never replaces what is newer: the accepted
\* commit, the status comment of a task, the run of a pull request's head.
NewestWins ==
    [][AcceptedIsNewest /\ StatusNeverGoesBack /\ LookupKeepsNewerRun]_vars

\* Once a job used its credentials up, or its model calls were cut off, no
\* later step of a concurrent call spends more.
AgentSpendingStops == [][TokensStayBounded /\ LatchIsFinal]_vars
=============================================================================
