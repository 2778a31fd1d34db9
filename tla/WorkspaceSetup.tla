--------------------------- MODULE WorkspaceSetup ---------------------------
(***************************************************************************)
(* The governed setup of a workspace (store/workspace_setup.go): a         *)
(* checkpoint that starts with the first installation, advances one step   *)
(* at a time on what the workspace really has, and gates every admission.  *)
(*                                                                         *)
(* Two administrators work from the checkpoint each has read.  Meanwhile   *)
(* the installation is probed, deactivated and connected again, and the    *)
(* review policy saved.  A workspace older than checkpoints has an         *)
(* installation and no checkpoint.                                         *)
(***************************************************************************)
EXTENDS Integers, Sequences

CONSTANTS
    WsAdmins,       \* administrators, each with a browser
    MaxWsEvents     \* bound: probes, policy saves, (de)activations

ASSUME SetupAssumption == MaxWsEvents \in Nat

VARIABLES
    wsInst,     \* the installation: state, verification, repository covered
    wsPolicy,   \* whether an active tenant-wide review policy is recorded
    wsCheck,    \* the workspace_setup_checkpoints row (step "none" without)
    wsReady,    \* whether the readiness snapshot exists
    wsView,     \* the checkpoint each administrator's page shows
    wsProven,   \* what the workspace has had at some time
    wsAdmitted, \* whether a review has been admitted
    wsOld,      \* whether the workspace is older than checkpoints
    wsEvents

wsVars == <<wsInst, wsPolicy, wsCheck, wsReady, wsView, wsProven, wsAdmitted, wsOld, wsEvents>>

Steps == <<"connect", "review_scope", "learning", "severity", "rules", "complete">>
NoCheck == [step |-> "none", rev |-> 0]

\* Without a row, a page shows the first step.
Shown(check) == IF check = NoCheck THEN [step |-> "connect", rev |-> 0] ELSE check

WsInit ==
    /\ wsOld \in BOOLEAN
    /\ wsInst = IF wsOld THEN [active |-> TRUE, ver |-> "legacy", covered |-> FALSE]
                ELSE [active |-> FALSE, ver |-> "none", covered |-> FALSE]
    /\ wsPolicy = FALSE /\ wsCheck = NoCheck /\ wsReady = FALSE
    /\ wsView = [a \in WsAdmins |-> Shown(NoCheck)]
    /\ wsProven = {} /\ wsAdmitted = FALSE /\ wsEvents = 0

-----------------------------------------------------------------------------
(* What the workspace has.                                                 *)

Eligible == wsInst.active /\ wsInst.ver \in {"legacy", "verified"}
WsEvent == wsEvents < MaxWsEvents /\ wsEvents' = wsEvents + 1

\* A mutated form: starting the setup is left to the browser.
ConnectOnly ==
    /\ ~wsInst.active /\ WsEvent
    /\ wsInst' = [active |-> TRUE, ver |-> "pending", covered |-> FALSE]
    /\ UNCHANGED <<wsPolicy, wsCheck, wsReady, wsView, wsProven, wsAdmitted, wsOld>>

\* The first active installation starts the checkpoint, unless there is one.
StartCheckpoint ==
    /\ ~wsInst.active /\ WsEvent
    /\ wsInst' = [active |-> TRUE, ver |-> "pending", covered |-> FALSE]
    /\ wsCheck' = IF wsCheck = NoCheck THEN [step |-> "review_scope", rev |-> 1] ELSE wsCheck
    /\ UNCHANGED <<wsPolicy, wsReady, wsView, wsProven, wsAdmitted, wsOld>>

WsDeactivated ==
    /\ wsInst.active /\ WsEvent /\ wsInst' = [wsInst EXCEPT !.active = FALSE]
    /\ UNCHANGED <<wsPolicy, wsCheck, wsReady, wsView, wsProven, wsAdmitted, wsOld>>

\* The inventory that counts is the newest probe's, under the current scope;
\* an installation older than verification keeps its state.
WsProbed ==
    /\ wsInst.active /\ WsEvent
    /\ \E ver \in {"verified", "failed"}, covered \in BOOLEAN :
          /\ ver = "verified" => covered
          /\ wsInst' = [wsInst EXCEPT !.ver = IF @ = "legacy" THEN @ ELSE ver, !.covered = covered]
          /\ wsProven' = IF covered THEN wsProven \cup {"repository"} ELSE wsProven
    /\ UNCHANGED <<wsPolicy, wsCheck, wsReady, wsView, wsAdmitted, wsOld>>

\* The tenant-wide general policy is saved; nothing in the code retires it.
PolicySaved ==
    /\ ~wsPolicy /\ WsEvent /\ wsPolicy' = TRUE /\ wsProven' = wsProven \cup {"policy"}
    /\ UNCHANGED <<wsInst, wsCheck, wsReady, wsView, wsAdmitted, wsOld>>

-----------------------------------------------------------------------------
(* The checkpoint.                                                         *)

CanAdvanceWorkspaceSetup(step, next) ==
    \E n \in 1 .. Len(Steps) - 1 : Steps[n] = step /\ Steps[n + 1] = next

GetWorkspaceSetupCheckpoint(a) ==
    /\ wsView' = [wsView EXCEPT ![a] = IF wsCheck = NoCheck /\ Eligible THEN [step |-> "complete", rev |-> 0]
                                       ELSE Shown(wsCheck)]
    /\ UNCHANGED <<wsInst, wsPolicy, wsCheck, wsReady, wsProven, wsAdmitted, wsOld, wsEvents>>

\* What each step asks for when it is left.
StepEarned(step) ==
    /\ Eligible
    /\ step = "review_scope" => wsInst.covered
    /\ step = "severity" => wsPolicy

\* The readiness snapshot names an eligible installation and the policy; it is
\* written once.
createWorkspaceSetupReadiness(next) == next = "complete" => wsPolicy

\* A repetition of the step just taken is answered without effect.
UpdateWorkspaceSetupCheckpoint(a, next) ==
    LET current == Shown(wsCheck)
        replay == wsCheck # NoCheck /\ next = current.step /\ wsView[a].rev + 1 = current.rev IN
    /\ wsView[a].rev = current.rev /\ ~replay
    /\ CanAdvanceWorkspaceSetup(current.step, next) /\ StepEarned(current.step) /\ createWorkspaceSetupReadiness(next)
    /\ wsCheck' = [step |-> next, rev |-> current.rev + 1]
    /\ wsReady' = (wsReady \/ next = "complete")
    /\ wsView' = [wsView EXCEPT ![a] = wsCheck']
    /\ UNCHANGED <<wsInst, wsPolicy, wsProven, wsAdmitted, wsOld, wsEvents>>

workspaceSetupAllowsReview == wsCheck = NoCheck \/ wsCheck.step = "complete"

\* An admission, by webhook or by command.
WsAdmit ==
    /\ Eligible /\ workspaceSetupAllowsReview /\ ~wsAdmitted /\ wsAdmitted' = TRUE
    /\ UNCHANGED <<wsInst, wsPolicy, wsCheck, wsReady, wsView, wsProven, wsOld, wsEvents>>

WsNext ==
    \/ StartCheckpoint \/ WsDeactivated \/ WsProbed \/ PolicySaved \/ WsAdmit
    \/ \E a \in WsAdmins : GetWorkspaceSetupCheckpoint(a)
    \/ \E a \in WsAdmins, n \in DOMAIN Steps : UpdateWorkspaceSetupCheckpoint(a, Steps[n])

-----------------------------------------------------------------------------
(* Properties.                                                             *)

\* A review is admitted only in a workspace whose setup was completed on what
\* it had: a repository its installation covers, a recorded policy and the
\* readiness snapshot; however the pages of two administrators, probes and
\* reconnections interleave (workspace_setup.go:149, postgres.go:288).  Only a
\* workspace older than checkpoints is exempt.
AdmittedWasGoverned ==
    wsAdmitted /\ ~wsOld => wsReady /\ {"repository", "policy"} \subseteq wsProven
=============================================================================
