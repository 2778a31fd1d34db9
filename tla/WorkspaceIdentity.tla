-------------------------- MODULE WorkspaceIdentity --------------------------
(***************************************************************************)
(* Who may act in a workspace: memberships and their last owner            *)
(* (store/postgres.go), invitations and access requests                    *)
(* (store/workspace_invitations.go, workspace_access_requests.go) and API  *)
(* keys (store/api_keys.go).                                               *)
(*                                                                         *)
(* Every transaction is READ COMMITTED.  A membership edit reads who the   *)
(* owners are in one statement and writes in a later one, so it is two     *)
(* steps; every other operation is one.                                    *)
(***************************************************************************)
EXTENDS Integers, FiniteSets

CONSTANTS
    IdOwners,       \* the workspace's first owners
    IdOutsider,     \* a subject who is no member yet
    MaxIdEdits      \* bound: membership edits

ASSUME IdentityAssumption ==
    /\ IdOwners # {} /\ IdOutsider \notin IdOwners /\ MaxIdEdits \in Nat

VARIABLES
    idMember,   \* memberships: role ("none" without a row) and active
    idTx,       \* the membership edit an owner has open
    idEdits,    \* membership edits begun
    idOverlap,  \* history: an edit began while another was open
    idJoin,     \* the outsider's invitation and access request
    idKey       \* an API key and a request that authenticated with it

idVars == <<idMember, idTx, idEdits, idOverlap, idJoin, idKey>>

IdSubjects == IdOwners \cup {IdOutsider}
NoIdTx == [op |-> "none", subject |-> IdOutsider]

IsOwner(s) == idMember[s].role = "owner" /\ idMember[s].active

IdInit ==
    /\ idMember = [s \in IdSubjects |-> IF s \in IdOwners THEN [role |-> "owner", active |-> TRUE]
                                        ELSE [role |-> "none", active |-> FALSE]]
    /\ idTx = [s \in IdSubjects |-> NoIdTx] /\ idEdits = 0 /\ idOverlap = FALSE
    /\ idJoin = [invitation |-> "none", request |-> "none"]
    /\ idKey = [state |-> "none", inUse |-> FALSE]

-----------------------------------------------------------------------------
(* Memberships.                                                            *)

OtherOwners(s) == {o \in IdSubjects \ {s} : IsOwner(o)}

\* What both edits check before they write: the actor is an owner and is not
\* the subject, and an owner who loses the role or the access is not the last.
IdBegin(actor, s, op) ==
    /\ idTx[actor] = NoIdTx /\ IsOwner(actor) /\ actor # s /\ idEdits < MaxIdEdits
    /\ op \in {"demote", "deactivate"} /\ idMember[s].role = "owner" => OtherOwners(s) # {}
    /\ idTx' = [idTx EXCEPT ![actor] = [op |-> op, subject |-> s]]
    /\ idEdits' = idEdits + 1
    /\ idOverlap' = (idOverlap \/ \E o \in IdSubjects : idTx[o] # NoIdTx)
    /\ UNCHANGED <<idMember, idJoin, idKey>>

\* UpsertMembership locks nothing before it writes.
UpsertMembership(actor, s) == \E op \in {"demote", "promote"} : IdBegin(actor, s, op)

\* SetMembershipActive holds the subject's row.
SetMembershipActive(actor, s) ==
    /\ \A o \in IdSubjects : idTx[o].op \in {"deactivate", "activate"} => idTx[o].subject # s
    /\ idMember[s].role # "none"
    /\ IdBegin(actor, s, IF idMember[s].active THEN "deactivate" ELSE "activate")

\* The write and the commit.  A row someone else holds is waited for.
IdCommit(actor) ==
    LET s == idTx[actor].subject
        op == idTx[actor].op IN
    /\ op # "none"
    /\ \A o \in IdSubjects \ {actor} : idTx[o].op \in {"deactivate", "activate"} => idTx[o].subject # s
    /\ idMember' = [idMember EXCEPT ![s] =
         CASE op = "promote" -> [role |-> "owner", active |-> @.active \/ @.role = "none"]
           [] op = "demote" -> [role |-> "viewer", active |-> @.active \/ @.role = "none"]
           [] OTHER -> [@ EXCEPT !.active = op = "activate"]]
    /\ idTx' = [idTx EXCEPT ![actor] = NoIdTx]
    /\ UNCHANGED <<idEdits, idOverlap, idJoin, idKey>>

-----------------------------------------------------------------------------
(* Joining: by invitation, or by a request an owner approves.              *)

SomeOwner == \E o \in IdSubjects : IsOwner(o)
IdJoinOnly == UNCHANGED <<idTx, idEdits, idOverlap, idKey>>

CreateWorkspaceInvitation ==
    /\ SomeOwner /\ idMember[IdOutsider].role = "none" /\ idJoin.invitation # "pending"
    /\ idJoin' = [idJoin EXCEPT !.invitation = "pending"]
    /\ UNCHANGED idMember /\ IdJoinOnly

RevokeWorkspaceInvitation ==
    /\ SomeOwner /\ idJoin.invitation = "pending" /\ idJoin' = [idJoin EXCEPT !.invitation = "revoked"]
    /\ UNCHANGED idMember /\ IdJoinOnly

InvitationExpires ==
    /\ idJoin.invitation = "pending" /\ idJoin' = [idJoin EXCEPT !.invitation = "expired"]
    /\ UNCHANGED idMember /\ IdJoinOnly

Joined == [idMember EXCEPT ![IdOutsider] = [role |-> "viewer", active |-> TRUE]]

\* A mutated form: an existing membership is overwritten.
AcceptAnyway ==
    /\ idJoin.invitation = "pending"
    /\ idJoin' = [idJoin EXCEPT !.invitation = "accepted"] /\ idMember' = Joined
    /\ IdJoinOnly

\* The role of an invitation is never owner.
AcceptWorkspaceInvitation ==
    /\ idJoin.invitation = "pending" /\ idMember[IdOutsider].role = "none"
    /\ idJoin' = [idJoin EXCEPT !.invitation = "accepted"] /\ idMember' = Joined
    /\ IdJoinOnly

\* Not twice within 24 hours: after that, a rejected request can be repeated.
RequestWorkspaceAccess ==
    /\ idMember[IdOutsider].role = "none" /\ idJoin.request \in {"none", "rejected"}
    /\ idJoin' = [idJoin EXCEPT !.request = "pending"]
    /\ UNCHANGED idMember /\ IdJoinOnly

DecideWorkspaceAccessRequest(approve) ==
    /\ SomeOwner /\ idJoin.request = "pending" /\ (approve => idMember[IdOutsider].role = "none")
    /\ idJoin' = [idJoin EXCEPT !.request = IF approve THEN "approved" ELSE "rejected"]
    /\ idMember' = IF approve THEN Joined ELSE idMember
    /\ IdJoinOnly

-----------------------------------------------------------------------------
(* API keys.  A key belongs to the workspace and not to who made it.       *)

IdKeyOnly == UNCHANGED <<idMember, idTx, idEdits, idOverlap, idJoin>>

CreateAPIKey == SomeOwner /\ idKey.state = "none" /\ idKey' = [idKey EXCEPT !.state = "active"] /\ IdKeyOnly
RevokeAPIKey == SomeOwner /\ idKey.state = "active" /\ idKey' = [idKey EXCEPT !.state = "revoked"] /\ IdKeyOnly

\* The principal is read once and serves the whole request.
AuthenticateAPIKey == idKey.state = "active" /\ ~idKey.inUse /\ idKey' = [idKey EXCEPT !.inUse = TRUE] /\ IdKeyOnly
KeyRequestEnds == idKey.inUse /\ idKey' = [idKey EXCEPT !.inUse = FALSE] /\ IdKeyOnly

IdNext ==
    \/ \E actor \in IdSubjects : IdCommit(actor) \/ \E s \in IdSubjects : UpsertMembership(actor, s) \/ SetMembershipActive(actor, s)
    \/ CreateWorkspaceInvitation \/ RevokeWorkspaceInvitation \/ InvitationExpires \/ AcceptWorkspaceInvitation
    \/ RequestWorkspaceAccess \/ \E approve \in BOOLEAN : DecideWorkspaceAccessRequest(approve)
    \/ CreateAPIKey \/ RevokeAPIKey \/ AuthenticateAPIKey \/ KeyRequestEnds

-----------------------------------------------------------------------------
(* Properties.                                                             *)

\* A member whom an owner deactivated comes back only when an owner activates
\* the membership again: no invitation, access request or role edit that was
\* under way restores the access (workspace_access_requests.go:139, "Existing
\* memberships, including deactivated ones, require the explicit membership
\* management flow").
DeactivatedStaysOut ==
    \A s \in IdSubjects :
        idMember[s].role # "none" /\ ~idMember[s].active /\ idMember'[s].active =>
            \E o \in IdSubjects : idTx[o] = [op |-> "activate", subject |-> s]

\* A workspace keeps an active owner, by whatever sequence of edits, unless two
\* of them overlapped: the count of the other owners is not locked
\* (postgres.go:837 rejects "removal of the last active owner").
AnOwnerRemains == SomeOwner \/ idOverlap
=============================================================================
