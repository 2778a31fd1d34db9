----------------------------- MODULE MCProgress -----------------------------
(* What the agent platform must eventually do: executions end, sources are
   resolved, approved campaign work starts.  The parts share no variable, so a
   behaviour moves one of them, `area`, and the others rest in an initial
   state.  In that state no fair action of AgentExecution is enabled; the
   fairness of the other two is stated for their own behaviours.            *)
EXTENDS AgentExecution, AgentSource, AgentCampaign

CONSTANT Areas     \* the parts this run goes through

VARIABLE area      \* the part that moves

allVars == <<area, vars, srVars, cmVars>>

\* A part that does not move needs only one of its initial states.
AllInit ==
    /\ area \in Areas
    /\ Init /\ (area = "execution" \/ SourceReleased)
    /\ SrInit /\ CreateAgentCampaign

AllNext ==
    \/ area = "execution" /\ Next /\ UNCHANGED <<area, srVars, cmVars>>
    \/ area = "source" /\ SrNext /\ UNCHANGED <<area, vars, cmVars>>
    \/ area = "campaign" /\ CmNext /\ UNCHANGED <<area, vars, srVars>>

\* The consumer delivers the sources, and a handler returns.
SourceFairness ==
    \A w \in Admitters :
        /\ WF_srVars(area = "source" /\ \E m \in srMail : BeginSource(w, m))
        /\ WF_srVars(area = "source" /\ SourceReturns(w))

\* The campaign processor's loop runs every few seconds, the consumer delivers
\* what is published, and an attempt ends at its deadline at the latest.
CampaignFairness ==
    /\ \A r \in Repos : /\ WF_cmVars(area = "campaign" /\ ClaimCampaignExecution(r))
                        /\ WF_cmVars(area = "campaign" /\ CmAttemptEnds(r))
    /\ WF_cmVars(area = "campaign" /\ ScheduleAgentCampaignExecutions)

AllSpec ==
    /\ AllInit /\ [][AllNext]_allVars
    /\ Fairness /\ SourceFairness /\ CampaignFairness

-----------------------------------------------------------------------------
\* A task that waits for its source stops waiting, and approved work of a
\* campaign that is not paused leaves the queue, although their messages are
\* acknowledged without effect.
AgentWorkSettles ==
    /\ area = "source" => SourceSettles
    /\ area = "campaign" => ApprovedWorkStarts
=============================================================================
