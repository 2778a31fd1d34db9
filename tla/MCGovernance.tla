---------------------------- MODULE MCGovernance ----------------------------
(* The parts of the control plane that people configure, instantiated together.
   They share no variable, so a behaviour moves one of them, `area`, and leaves
   the others in an initial state: a run covers the behaviours of each part,
   and none of their product.                                               *)
EXTENDS RuleRollout, ReviewIssues, Notification, ReviewPolicy, DataGovernance,
        IssueTriage, WorkspaceIdentity, SingleSignOn, ProviderAccess,
        WorkspaceSetup

CONSTANT Areas     \* the parts this run goes through

VARIABLE area      \* the part that moves

vars == <<area, rlVars, isVars, ntVars, rcVars, dgVars, tgVars, idVars, soVars,
          paVars, wsVars>>

\* A part that does not move needs only one of its initial states.
Init ==
    /\ area \in Areas
    /\ NtInit /\ (area = "notices" \/ Len(ntRoutes) = 1)
    /\ RcInit /\ (area = "policy" \/ ~rcRow["legacy"]["models"].active)
    /\ TgInit /\ (area = "triage" \/ ~tgReaction.pushed)
    /\ WsInit /\ (area = "setup" \/ ~wsOld)
    /\ RlInit /\ IsInit /\ DgInit /\ IdInit /\ SoInit /\ PaInit

Next ==
    \/ /\ area = "rollout" /\ RlNext
       /\ UNCHANGED <<area, isVars, ntVars, rcVars, dgVars, tgVars, idVars,
                       soVars, paVars, wsVars>>
    \/ /\ area = "issues" /\ IsNext
       /\ UNCHANGED <<area, rlVars, ntVars, rcVars, dgVars, tgVars, idVars,
                       soVars, paVars, wsVars>>
    \/ /\ area = "notices" /\ NtNext
       /\ UNCHANGED <<area, rlVars, isVars, rcVars, dgVars, tgVars, idVars,
                       soVars, paVars, wsVars>>
    \/ /\ area = "policy" /\ RcNext
       /\ UNCHANGED <<area, rlVars, isVars, ntVars, dgVars, tgVars, idVars,
                       soVars, paVars, wsVars>>
    \/ /\ area = "governance" /\ DgNext
       /\ UNCHANGED <<area, rlVars, isVars, ntVars, rcVars, tgVars, idVars,
                       soVars, paVars, wsVars>>
    \/ /\ area = "triage" /\ TgNext
       /\ UNCHANGED <<area, rlVars, isVars, ntVars, rcVars, dgVars, idVars,
                       soVars, paVars, wsVars>>
    \/ /\ area = "identity" /\ IdNext
       /\ UNCHANGED <<area, rlVars, isVars, ntVars, rcVars, dgVars, tgVars,
                       soVars, paVars, wsVars>>
    \/ /\ area = "signon" /\ SoNext
       /\ UNCHANGED <<area, rlVars, isVars, ntVars, rcVars, dgVars, tgVars,
                       idVars, paVars, wsVars>>
    \/ /\ area = "access" /\ PaNext
       /\ UNCHANGED <<area, rlVars, isVars, ntVars, rcVars, dgVars, tgVars,
                       idVars, soVars, wsVars>>
    \/ /\ area = "setup" /\ WsNext
       /\ UNCHANGED <<area, rlVars, isVars, ntVars, rcVars, dgVars, tgVars,
                       idVars, soVars, paVars>>

Spec == Init /\ [][Next]_vars

-----------------------------------------------------------------------------
\* A canary that was promoted had clean evidence, about a pair of bindings that
\* nobody changed under it; and a finding that blocks under the run's frozen
\* policy is among the published.  Nothing is said of a candidate that becomes
\* active without a canary.
ReviewPolicyHolds == PromotedWasClean /\ CanaryKeepsItsPair /\ BlockingFindingIsPublished

\* What people are told outside the platform follows the state inside: the
\* tracked issue, a notice to each destination, the triage comment.
NoticesTellTheTruth == IssueTellsTheTruth /\ NoticeSentOnce /\ CommentKeepsUp

\* Access that is on was tested in its current form: enforced sign-on, a
\* verified provider installation, an admitted workspace.  And an owner is left
\* to administer it, unless two edits of memberships overlapped.
AccessWasEarned ==
    EnforcedWasTested /\ VerifiedIsCurrent /\ AdmittedWasGoverned /\ AnOwnerRemains

\* Decisions of people hold against whatever was under way when they were
\* made: a legal hold on the tenant or on the very scope of a deletion, a
\* deactivation, a model route that takes two to change.
GovernanceHolds ==
    [][HeldScopeIsKept /\ DeactivatedStaysOut /\ RouteChangesByTwo]_vars
=============================================================================
