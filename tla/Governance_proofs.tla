-------------------------- MODULE Governance_proofs --------------------------
(***************************************************************************)
(* Proofs about the parts of the control plane that people configure       *)
(* (MCGovernance), for any number of people, workers, repositories and     *)
(* requests.  The parts share no variable: a step of the composition is a  *)
(* step of one part and leaves the others' variables, so every part has an *)
(* inductive invariant of its own, and the composed properties follow.     *)
(***************************************************************************)
EXTENDS MCGovernance, FiniteSetTheorems, SequenceTheorems, TLAPS

\* Whatever the composition does, each part takes a step of its own or none.
LEMMA PartsMove ==
    ASSUME [Next]_vars
    PROVE  /\ [RlNext]_rlVars /\ [IsNext]_isVars /\ [NtNext]_ntVars
           /\ [RcNext]_rcVars /\ [DgNext]_dgVars /\ [TgNext]_tgVars
           /\ [IdNext]_idVars /\ [SoNext]_soVars /\ [PaNext]_paVars
           /\ [WsNext]_wsVars
<1>1. CASE Next
  BY <1>1, Zenon DEF Next
<1>2. CASE UNCHANGED vars
  BY <1>2, Zenon DEF vars
<1> QED BY <1>1, <1>2

-----------------------------------------------------------------------------
(* WorkspaceIdentity.                                                      *)

IdRow == [role : {"none", "viewer", "owner"}, active : BOOLEAN]
IdOps == {"none", "demote", "promote", "deactivate", "activate"}
IdOpenTx == [op : IdOps, subject : IdSubjects]

IdTypeOK ==
    /\ idMember \in [IdSubjects -> IdRow]
    /\ idTx \in [IdSubjects -> IdOpenTx]
    /\ idOverlap \in BOOLEAN

\* Without an overlap one edit is open at a time.
IdOneAtATime ==
    ~idOverlap => \A a, b \in IdSubjects : idTx[a] # NoIdTx /\ idTx[b] # NoIdTx => a = b

\* ... and what it counted still holds: an owner it takes away is not the last.
IdCountHolds ==
    ~idOverlap => \A a \in IdSubjects :
        idTx[a].op \in {"demote", "deactivate"} /\ IsOwner(idTx[a].subject)
            => OtherOwners(idTx[a].subject) # {}

IdInv == IdTypeOK /\ IdOneAtATime /\ IdCountHolds /\ AnOwnerRemains

LEMMA IdInitInv == IdInit => IdInv
<1> SUFFICES ASSUME IdInit PROVE IdInv
  OBVIOUS
<1> USE IdentityAssumption
<1>1. NoIdTx \in IdOpenTx /\ NoIdTx.op = "none"
  BY DEF NoIdTx, IdOpenTx, IdOps, IdSubjects
<1>2. \A s \in IdOwners : s \in IdSubjects /\ idMember[s] = [role |-> "owner", active |-> TRUE]
  BY DEF IdInit, IdSubjects
<1>3. \A s \in IdSubjects : idMember[s] \in IdRow
  BY DEF IdInit, IdSubjects, IdRow
<1>4. IdTypeOK
  BY <1>1, <1>3 DEF IdInit, IdTypeOK
<1>5. SomeOwner
  BY <1>2 DEF SomeOwner, IsOwner
<1>6. \A a \in IdSubjects : idTx[a] = NoIdTx
  BY DEF IdInit
<1>7. IdOneAtATime
  BY <1>6, Zenon DEF IdOneAtATime
<1>8. IdCountHolds
  BY <1>6, <1>1 DEF IdCountHolds
<1> QED BY <1>4, <1>5, <1>7, <1>8 DEF IdInv, AnOwnerRemains

\* What a committed edit does to the one row it writes.
LEMMA IdCommitWrites ==
    ASSUME IdTypeOK, NEW actor \in IdSubjects, IdCommit(actor)
    PROVE  LET s == idTx[actor].subject
               op == idTx[actor].op
           IN  /\ s \in IdSubjects /\ op \in IdOps \ {"none"}
               /\ idMember' \in [IdSubjects -> IdRow]
               /\ \A t \in IdSubjects \ {s} : idMember'[t] = idMember[t]
               /\ op = "promote" => idMember'[s].role = "owner"
               /\ op = "demote" => idMember'[s].role = "viewer"
               /\ op \in {"promote", "demote"} => (idMember'[s].active <=> (idMember[s].active \/ idMember[s].role = "none"))
               /\ op \in {"deactivate", "activate"} =>
                    /\ idMember'[s].role = idMember[s].role
                    /\ idMember'[s].active <=> (op = "activate")
<1> DEFINE s == idTx[actor].subject
           op == idTx[actor].op
           m == idMember[s]
           on == m.active \/ m.role = "none"
           off == op = "activate"
           row == CASE op = "promote" -> [role |-> "owner", active |-> on]
                    [] op = "demote" -> [role |-> "viewer", active |-> on]
                    [] OTHER -> [m EXCEPT !.active = off]
<1>1. s \in IdSubjects /\ op \in IdOps /\ op # "none"
  BY DEF IdTypeOK, IdOpenTx, IdCommit
<1>2. idMember' = [idMember EXCEPT ![s] = row]
  BY Zenon DEF IdCommit
<1>3. m \in IdRow
  BY <1>1 DEF IdTypeOK
<1>4. op = "promote" => row = [role |-> "owner", active |-> on]
  BY Zenon
<1>5. op = "demote" => row = [role |-> "viewer", active |-> on]
  BY Zenon
<1>6. op \notin {"promote", "demote"} => row = [m EXCEPT !.active = off]
  BY Zenon
<1> HIDE DEF row
<1>b. on \in BOOLEAN /\ off \in BOOLEAN
  BY Zenon
<1>7. row \in IdRow
  <2> HIDE DEF m, op, on, off
  <2>1. CASE op = "promote"
    BY <2>1, <1>b, <1>4 DEF IdRow
  <2>2. CASE op = "demote"
    BY <2>2, <1>b, <1>5 DEF IdRow
  <2>3. CASE op \notin {"promote", "demote"}
    BY <2>3, <1>b, <1>3, <1>6, Zenon DEF IdRow
  <2> QED BY <2>1, <2>2, <2>3
<1>8. /\ idMember' \in [IdSubjects -> IdRow] /\ idMember'[s] = row
      /\ \A t \in IdSubjects \ {s} : idMember'[t] = idMember[t]
  <2> HIDE DEF s
  <2> QED BY <1>1, <1>2, <1>7 DEF IdTypeOK
<1>9. /\ op = "promote" => row.role = "owner"
      /\ op = "demote" => row.role = "viewer"
      /\ op \in {"promote", "demote"} => (row.active <=> (m.active \/ m.role = "none"))
      /\ op \in {"deactivate", "activate"} => row.role = m.role /\ (row.active <=> (op = "activate"))
  <2>1. /\ op = "promote" => row.role = "owner" /\ row.active = on
        /\ op = "demote" => row.role = "viewer" /\ row.active = on
        /\ op \notin {"promote", "demote"} => row.role = m.role /\ row.active = off
    <3> HIDE DEF m, op, on, off
    <3> QED BY <1>3, <1>4, <1>5, <1>6 DEF IdRow
  <2> QED BY <2>1, <1>b, <1>3 DEF IdRow
<1> QED BY <1>1, <1>8, <1>9

\* An edit that begins counts the owners, and is the only one open unless the
\* overlap is recorded.
LEMMA IdBeginKeeps ==
    ASSUME IdInv, NEW actor \in IdSubjects, NEW s \in IdSubjects,
           NEW op \in IdOps \ {"none"}, IdBegin(actor, s, op)
    PROVE  IdInv'
<1> DEFINE tx == [op |-> op, subject |-> s]
<1>1. tx \in IdOpenTx /\ tx.op = op /\ tx.subject = s /\ tx # NoIdTx
  BY DEF IdOpenTx, NoIdTx
<1>2. idTx' = [idTx EXCEPT ![actor] = tx] /\ idMember' = idMember
  BY DEF IdBegin
<1>3. idOverlap' = (idOverlap \/ \E o \in IdSubjects : idTx[o] # NoIdTx)
  BY DEF IdBegin
<1>a. op \in {"demote", "deactivate"} /\ idMember[s].role = "owner" => OtherOwners(s) # {}
  BY DEF IdBegin
<1> HIDE DEF tx
<1>4. /\ idTx' \in [IdSubjects -> IdOpenTx] /\ idTx'[actor] = tx
      /\ \A o \in IdSubjects \ {actor} : idTx'[o] = idTx[o]
  BY <1>1, <1>2 DEF IdInv, IdTypeOK
<1>5. IdTypeOK'
  BY <1>2, <1>3, <1>4 DEF IdInv, IdTypeOK
<1>6. ~idOverlap' => ~idOverlap /\ \A o \in IdSubjects : idTx[o] = NoIdTx
  BY <1>3, Zenon
<1>7. IdOneAtATime'
  BY <1>4, <1>6 DEF IdOneAtATime
<1>8. IsOwner(s) => idMember[s].role = "owner"
  BY DEF IsOwner
<1>9. NoIdTx.op = "none"
  BY DEF NoIdTx
<1>10. ASSUME ~idOverlap', NEW a \in IdSubjects, idTx'[a].op \in {"demote", "deactivate"},
              IsOwner(idTx[a].subject)'
       PROVE  OtherOwners(idTx[a].subject)' # {}
  <2>1. a = actor
    BY <1>4, <1>6, <1>9, <1>10
  <2>2. idTx'[a].op = op /\ idTx'[a].subject = s
    BY <2>1, <1>4, <1>1
  <2>3. IsOwner(s)
    BY <1>10, <2>2, <1>2 DEF IsOwner
  <2>4. OtherOwners(s) # {}
    BY <1>10, <2>2, <2>3, <1>8, <1>a
  <2> QED BY <2>2, <2>4, <1>2 DEF OtherOwners, IsOwner
<1>11. IdCountHolds'
  BY <1>10 DEF IdCountHolds
<1>12. AnOwnerRemains'
  BY <1>2, <1>6 DEF IdInv, AnOwnerRemains, SomeOwner, IsOwner
<1> QED BY <1>5, <1>7, <1>11, <1>12 DEF IdInv

LEMMA IdCommitKeeps ==
    ASSUME IdInv, NEW actor \in IdSubjects, IdCommit(actor)
    PROVE  IdInv'
<1> DEFINE s == idTx[actor].subject
           op == idTx[actor].op
<1>1. /\ s \in IdSubjects /\ op \in IdOps \ {"none"}
      /\ idMember' \in [IdSubjects -> IdRow]
      /\ \A t \in IdSubjects \ {s} : idMember'[t] = idMember[t]
      /\ op = "promote" => idMember'[s].role = "owner"
      /\ op \in {"promote", "demote"} => (idMember'[s].active <=> (idMember[s].active \/ idMember[s].role = "none"))
      /\ op \in {"deactivate", "activate"} =>
           /\ idMember'[s].role = idMember[s].role
           /\ idMember'[s].active <=> (op = "activate")
  BY IdCommitWrites, Zenon DEF IdInv
<1>2. idTx' = [idTx EXCEPT ![actor] = NoIdTx] /\ idOverlap' = idOverlap
  BY DEF IdCommit
<1>3. NoIdTx \in IdOpenTx /\ NoIdTx.op = "none"
  BY DEF NoIdTx, IdOpenTx, IdOps, IdSubjects
<1>4. /\ idTx' \in [IdSubjects -> IdOpenTx] /\ idTx'[actor] = NoIdTx
      /\ \A o \in IdSubjects \ {actor} : idTx'[o] = idTx[o]
  BY <1>2, <1>3 DEF IdInv, IdTypeOK
<1>5. IdTypeOK'
  BY <1>1, <1>2, <1>4 DEF IdInv, IdTypeOK
<1>6. idTx[actor] # NoIdTx
  BY <1>1, <1>3
<1>7. ~idOverlap => \A o \in IdSubjects : idTx'[o] = NoIdTx
  BY <1>4, <1>6 DEF IdInv, IdOneAtATime
<1>8. IdOneAtATime'
  BY <1>7, <1>2 DEF IdOneAtATime
<1>9. IdCountHolds'
  BY <1>7, <1>2, <1>3 DEF IdCountHolds
<1>10. ASSUME ~idOverlap PROVE SomeOwner'
  <2>1. PICK o \in IdSubjects : IsOwner(o)
    BY <1>10 DEF IdInv, AnOwnerRemains, SomeOwner
  <2>2. CASE o # s
    <3>1. IsOwner(o)'
      BY <2>1, <2>2, <1>1 DEF IsOwner
    <3> QED BY <3>1 DEF SomeOwner
  <2>3. CASE o = s /\ op \in {"promote", "activate"}
    <3>1. idMember'[s].role = "owner" /\ idMember'[s].active
      BY <2>3, <2>1, <1>1 DEF IsOwner
    <3> QED BY <3>1, <1>1 DEF SomeOwner, IsOwner
  <2>4. CASE o = s /\ op \in {"demote", "deactivate"}
    <3>1. PICK p \in IdSubjects \ {s} : IsOwner(p)
      BY <2>4, <2>1, <1>10 DEF IdInv, IdCountHolds, OtherOwners
    <3>2. IsOwner(p)'
      BY <3>1, <1>1 DEF IsOwner
    <3> QED BY <3>2 DEF SomeOwner
  <2> HIDE DEF op, s
  <2>5. op \in {"promote", "activate"} \/ op \in {"demote", "deactivate"}
    BY <1>1 DEF IdOps
  <2> QED BY <2>2, <2>3, <2>4, <2>5
<1>11. AnOwnerRemains'
  BY <1>10, <1>2 DEF AnOwnerRemains
<1> QED BY <1>5, <1>8, <1>9, <1>11 DEF IdInv

\* Whoever joins had no membership, so no owner is overwritten.
LEMMA IdJoinKeeps ==
    ASSUME IdInv, IdJoinOnly,
           idMember' = idMember \/ (idMember' = Joined /\ idMember[IdOutsider].role = "none")
    PROVE  IdInv'
<1>1. idTx' = idTx /\ idOverlap' = idOverlap
  BY DEF IdJoinOnly
<1>2. /\ idMember' \in [IdSubjects -> IdRow]
      /\ \A s \in IdSubjects : idMember'[s] = idMember[s]
           \/ (idMember[s].role = "none" /\ idMember'[s].role = "viewer")
  <2>1. CASE idMember' = idMember
    BY <2>1 DEF IdInv, IdTypeOK
  <2>2. CASE idMember' = Joined /\ idMember[IdOutsider].role = "none"
    <3> DEFINE row == [role |-> "viewer", active |-> TRUE]
    <3>1. row \in IdRow /\ row.role = "viewer"
      BY DEF IdRow
    <3>2. idMember' = [idMember EXCEPT ![IdOutsider] = row]
      BY <2>2 DEF Joined
    <3> HIDE DEF row
    <3> QED BY <2>2, <3>1, <3>2 DEF IdInv, IdTypeOK, IdSubjects
  <2> QED BY <2>1, <2>2
<1>3. \A s \in IdSubjects : IsOwner(s)' <=> IsOwner(s)
  BY <1>2 DEF IsOwner
<1>4. IdTypeOK'
  BY <1>1, <1>2 DEF IdInv, IdTypeOK
<1>5. IdOneAtATime'
  BY <1>1 DEF IdInv, IdOneAtATime
<1>6. \A s \in IdSubjects : OtherOwners(s)' = OtherOwners(s)
  BY <1>3, Zenon DEF OtherOwners
<1>7. IdCountHolds'
  BY <1>1, <1>3, <1>6 DEF IdInv, IdCountHolds, IdTypeOK, IdOpenTx
<1>8. AnOwnerRemains'
  BY <1>1, <1>3 DEF IdInv, AnOwnerRemains, SomeOwner
<1> QED BY <1>4, <1>5, <1>7, <1>8 DEF IdInv

LEMMA IdStep == IdInv /\ [IdNext]_idVars => IdInv'
<1> SUFFICES ASSUME IdInv, [IdNext]_idVars PROVE IdInv'
  OBVIOUS
<1>1. ASSUME NEW actor \in IdSubjects, IdCommit(actor) PROVE IdInv'
  BY <1>1, IdCommitKeeps
<1>2. ASSUME NEW actor \in IdSubjects, NEW s \in IdSubjects, UpsertMembership(actor, s) PROVE IdInv'
  <2>1. PICK op \in {"demote", "promote"} : IdBegin(actor, s, op)
    BY <1>2 DEF UpsertMembership
  <2> QED BY <2>1, IdBeginKeeps DEF IdOps
<1>3. ASSUME NEW actor \in IdSubjects, NEW s \in IdSubjects, SetMembershipActive(actor, s) PROVE IdInv'
  <2>1. PICK op \in {"deactivate", "activate"} : IdBegin(actor, s, op)
    BY <1>3, Zenon DEF SetMembershipActive
  <2> QED BY <2>1, IdBeginKeeps DEF IdOps
<1>4. CASE CreateWorkspaceInvitation \/ RevokeWorkspaceInvitation \/ InvitationExpires \/ RequestWorkspaceAccess
  BY <1>4, IdJoinKeeps DEF CreateWorkspaceInvitation, RevokeWorkspaceInvitation, InvitationExpires, RequestWorkspaceAccess
<1>5. CASE AcceptWorkspaceInvitation
  BY <1>5, IdJoinKeeps DEF AcceptWorkspaceInvitation
<1>6. ASSUME NEW approve \in BOOLEAN, DecideWorkspaceAccessRequest(approve) PROVE IdInv'
  BY <1>6, IdJoinKeeps DEF DecideWorkspaceAccessRequest
<1>7. CASE CreateAPIKey \/ RevokeAPIKey \/ AuthenticateAPIKey \/ KeyRequestEnds \/ UNCHANGED idVars
  <2>1. idMember' = idMember /\ idTx' = idTx /\ idOverlap' = idOverlap
    BY <1>7, Zenon DEF CreateAPIKey, RevokeAPIKey, AuthenticateAPIKey, KeyRequestEnds, IdKeyOnly, idVars
  <2> QED BY <2>1 DEF IdInv, IdTypeOK, IdOneAtATime, IdCountHolds, AnOwnerRemains, SomeOwner, IsOwner, OtherOwners
<1> QED BY <1>1, <1>2, <1>3, <1>4, <1>5, <1>6, <1>7, Zenon DEF IdNext

\* A row that is there and inactive becomes active by an "activate" edit alone.
LEMMA IdStaysOut == IdTypeOK /\ [IdNext]_idVars => DeactivatedStaysOut
<1> SUFFICES ASSUME IdTypeOK, [IdNext]_idVars, NEW s \in IdSubjects,
                    idMember[s].role # "none", ~idMember[s].active, idMember'[s].active
             PROVE  \E o \in IdSubjects : idTx[o] = [op |-> "activate", subject |-> s]
  BY Zenon DEF DeactivatedStaysOut
<1>1. ASSUME NEW actor \in IdSubjects, IdCommit(actor)
      PROVE  \E o \in IdSubjects : idTx[o] = [op |-> "activate", subject |-> s]
  <2>1. idTx[actor].op \in IdOps \ {"none"} /\ idTx[actor] \in IdOpenTx
    BY <1>1, IdCommitWrites DEF IdTypeOK
  <2>2. idTx[actor].subject = s
    BY <1>1, IdCommitWrites
  <2>3. idTx[actor].op = "activate"
    BY <1>1, <2>1, <2>2, IdCommitWrites DEF IdOps
  <2> QED BY <2>1, <2>2, <2>3 DEF IdOpenTx
<1>2. CASE idMember' = idMember
  BY <1>2
<1>3. CASE idMember' = Joined /\ idMember[IdOutsider].role = "none"
  <2>1. s # IdOutsider
    BY <1>3
  <2>2. idMember'[s] = idMember[s]
    BY <2>1, <1>3 DEF Joined, IdTypeOK, IdSubjects
  <2> QED BY <2>2
<1>4. \/ \E actor \in IdSubjects : IdCommit(actor)
      \/ idMember' = idMember
      \/ idMember' = Joined /\ idMember[IdOutsider].role = "none"
  BY Zenon DEF IdNext, idVars, UpsertMembership, SetMembershipActive, IdBegin,
     CreateWorkspaceInvitation, RevokeWorkspaceInvitation, InvitationExpires,
     AcceptWorkspaceInvitation, RequestWorkspaceAccess, DecideWorkspaceAccessRequest,
     CreateAPIKey, RevokeAPIKey, AuthenticateAPIKey, KeyRequestEnds, IdKeyOnly
<1> QED BY <1>1, <1>2, <1>3, <1>4

-----------------------------------------------------------------------------
(* SingleSignOn.                                                           *)

SoStates == {"none", "draft_saved", "testing", "verified", "enforcement_ready", "enforced", "suspended"}
SoRow == [state : SoStates, rev : Nat, tested : Nat, domain : {"none", "pending", "verified"}, mapping : BOOLEAN]

\* A row whose tested revision is its own was reached by a probe, and one that
\* is ready or enforced has its own revision tested.
SoSound(sso, reached) ==
    /\ sso \in SoRow
    /\ sso.state = "none" <=> sso.rev = 0
    /\ sso.rev # 0 /\ sso.tested = sso.rev => sso.rev \in reached
    /\ sso.state \in {"enforcement_ready", "enforced"} => sso.tested = sso.rev

SoInv == SoSound(soConfig, soReached)

LEMMA SoInitInv == SoInit => SoInv
  BY DEF SoInit, SoInv, SoSound, SoRow, SoStates

\* An edit of one row that keeps its revision and what was tested.
LEMMA SoEdit ==
    ASSUME NEW sso, NEW reached, SoSound(sso, reached),
           NEW row \in SoRow, row.rev = sso.rev, row.tested = sso.tested,
           row.state = "none" <=> sso.state = "none",
           row.state \in {"enforcement_ready", "enforced"} => row.tested = row.rev
    PROVE  SoSound(row, reached)
  BY DEF SoSound

LEMMA SoSetState ==
    ASSUME NEW sso, NEW reached, SoSound(sso, reached), sso.state # "none",
           NEW state \in SoStates \ {"none"},
           state \in {"enforcement_ready", "enforced"} => sso.tested = sso.rev
    PROVE  SoSound([sso EXCEPT !.state = state], reached)
<1> DEFINE row == [sso EXCEPT !.state = state]
<1>1. row \in SoRow
  BY Zenon DEF SoSound, SoRow
<1>2. row.rev = sso.rev /\ row.tested = sso.tested /\ row.state = state
  BY DEF SoSound, SoRow
<1> HIDE DEF row
<1>3. SoSound(row, reached)
  BY <1>1, <1>2, SoEdit
<1> QED BY <1>3 DEF row

\* Readiness is computed from what was tested.
LEMMA SoRefreshKeeps ==
    ASSUME NEW sso, NEW reached, SoSound(sso, reached)
    PROVE  SoSound(refreshSSOReadinessState(sso), reached)
<1> DEFINE state == IF sso.state \in {"none", "enforced", "suspended"} THEN sso.state
                    ELSE IF sso.tested # sso.rev THEN "draft_saved"
                    ELSE IF sso.domain = "verified" /\ sso.mapping THEN "enforcement_ready" ELSE "verified"
           row == [sso EXCEPT !.state = state]
<1>1. /\ state \in SoStates
      /\ state = "none" <=> sso.state = "none"
      /\ state \in {"enforcement_ready", "enforced"} => sso.tested = sso.rev
  BY DEF SoSound, SoRow, SoStates
<1>2. refreshSSOReadinessState(sso) = row
  BY Zenon DEF refreshSSOReadinessState
<1> HIDE DEF state
<1>3. row \in SoRow
  BY <1>1, Zenon DEF SoSound, SoRow
<1>4. row.rev = sso.rev /\ row.tested = sso.tested /\ row.state = state
  BY DEF SoSound, SoRow
<1> HIDE DEF row
<1> QED BY <1>1, <1>2, <1>3, <1>4, SoEdit

\* A sound answer marks the revision that was probed, and only that one.
LEMMA SoLearntKeeps ==
    ASSUME NEW sso, NEW reached, SoSound(sso, reached), NEW rev, NEW sound \in BOOLEAN,
           sound => rev \in reached
    PROVE  SoSound(Learnt(sso, rev, sound), reached)
<1>1. CASE ~(sso.rev = rev /\ sso.state = "testing")
  BY <1>1 DEF Learnt
<1>2. CASE sso.rev = rev /\ sso.state = "testing" /\ ~sound
  <2>1. Learnt(sso, rev, sound) = [sso EXCEPT !.state = "draft_saved"]
    BY <1>2 DEF Learnt
  <2> QED BY <2>1, <1>2, SoSetState DEF SoStates
<1>3. CASE sso.rev = rev /\ sso.state = "testing" /\ sound
  <2> DEFINE row == [sso EXCEPT !.tested = rev, !.state = "verified"]
  <2>1. Learnt(sso, rev, sound) = row
    BY <1>3 DEF Learnt
  <2>2. sso \in SoRow /\ rev \in Nat /\ rev # 0
    BY <1>3 DEF SoSound, SoRow
  <2>3. row \in SoRow
    BY <2>2 DEF SoRow, SoStates
  <2>4. row.rev = rev /\ row.tested = rev /\ row.state = "verified"
    BY <2>2, <1>3 DEF SoRow
  <2> HIDE DEF row
  <2> QED BY <2>1, <2>2, <2>3, <2>4, <1>3 DEF SoSound
<1> QED BY <1>1, <1>2, <1>3

LEMMA SoStep == SoInv /\ [SoNext]_soVars => SoInv'
<1> SUFFICES ASSUME SoInv, [SoNext]_soVars PROVE SoInv'
  OBVIOUS
<1>s. SoSound(soConfig, soReached) /\ soConfig \in SoRow
  BY DEF SoInv, SoSound
<1>1. CASE SaveSSOConfiguration
  <2> DEFINE row == [soConfig EXCEPT !.state = "draft_saved", !.rev = @ + 1, !.tested = 0]
  <2>1. soConfig' = row /\ soReached' = soReached
    BY <1>1 DEF SaveSSOConfiguration
  <2>3. soConfig.rev \in Nat
    BY <1>s DEF SoRow
  <2>2. row \in SoRow /\ row.rev = soConfig.rev + 1 /\ row.tested = 0 /\ row.state = "draft_saved"
    <3> DEFINE n == soConfig.rev + 1
    <3>1. n \in Nat /\ row = [soConfig EXCEPT !.state = "draft_saved", !.rev = n, !.tested = 0]
      BY <2>3
    <3> HIDE DEF n
    <3>2. row \in SoRow /\ row.rev = n /\ row.tested = 0 /\ row.state = "draft_saved"
      <4> HIDE DEF row
      <4> QED BY <1>s, <3>1 DEF SoRow, SoStates
    <3> QED BY <3>2 DEF n
  <2> HIDE DEF row
  <2> QED BY <2>1, <2>2, <2>3 DEF SoInv, SoSound
<1>2. CASE RequestSSOProbe
  <2>1. soConfig' = [soConfig EXCEPT !.state = "testing"] /\ soReached' = soReached /\ soConfig.state # "none"
    BY <1>2 DEF RequestSSOProbe
  <2>2. SoSound([soConfig EXCEPT !.state = "testing"], soReached)
    BY <2>1, <1>s, SoSetState DEF SoStates
  <2> QED BY <2>1, <2>2 DEF SoInv
<1>3. CASE UNCHANGED <<soConfig, soReached>>
  BY <1>3 DEF SoInv
<1>4. ASSUME NEW w \in SoWorkers, RunOnce(w) PROVE SoInv'
  <2>1. PICK sound \in BOOLEAN : Probe(w, sound) /\ CompleteSSOProbe(w, sound)
    BY <1>4 DEF RunOnce
  <2>2. soReached \subseteq soReached' /\ (sound => soWork[w].rev \in soReached')
    BY <2>1 DEF Probe
  <2>3. SoSound(soConfig, soReached')
    BY <2>2, <1>s DEF SoSound
  <2>4. SoSound(Learnt(soConfig, soWork[w].rev, sound), soReached')
    BY <2>2, <2>3, SoLearntKeeps
  <2>5. SoSound(refreshSSOReadinessState(Learnt(soConfig, soWork[w].rev, sound)), soReached')
    BY <2>4, SoRefreshKeeps
  <2>6. \/ soConfig' = soConfig
        \/ soConfig' = Learnt(soConfig, soWork[w].rev, sound)
        \/ soConfig' = refreshSSOReadinessState(Learnt(soConfig, soWork[w].rev, sound))
    BY <2>1, Zenon DEF CompleteSSOProbe
  <2> QED BY <2>3, <2>4, <2>5, <2>6 DEF SoInv
<1>5. CASE AddSSODomain
  <2> DEFINE row == [soConfig EXCEPT !.domain = "pending"]
  <2>1. soConfig' = row /\ soReached' = soReached
    BY <1>5 DEF AddSSODomain, SsoRestSame
  <2>2. row \in SoRow /\ row.rev = soConfig.rev /\ row.tested = soConfig.tested /\ row.state = soConfig.state
    BY <1>s DEF SoRow
  <2> HIDE DEF row
  <2>3. SoSound(row, soReached)
    BY <2>2, <1>s, SoEdit DEF SoSound
  <2> QED BY <2>1, <2>3 DEF SoInv
<1>6. CASE VerifySSODomain
  <2> DEFINE row == [soConfig EXCEPT !.domain = "verified"]
  <2>1. soConfig' = refreshSSOReadinessState(row) /\ soReached' = soReached
    BY <1>6 DEF VerifySSODomain, SsoRestSame
  <2>2. row \in SoRow /\ row.rev = soConfig.rev /\ row.tested = soConfig.tested /\ row.state = soConfig.state
    BY <1>s DEF SoRow
  <2> HIDE DEF row
  <2>3. SoSound(row, soReached)
    BY <2>2, <1>s, SoEdit DEF SoSound
  <2> QED BY <2>1, <2>3, SoRefreshKeeps DEF SoInv
<1>7. CASE CreateSSORoleMapping \/ DeleteSSORoleMapping
  <2>1. PICK on \in BOOLEAN : soConfig' = refreshSSOReadinessState([soConfig EXCEPT !.mapping = on]) /\ soReached' = soReached
    BY <1>7, Zenon DEF CreateSSORoleMapping, DeleteSSORoleMapping, SsoRestSame
  <2> DEFINE row == [soConfig EXCEPT !.mapping = on]
  <2>2. row \in SoRow /\ row.rev = soConfig.rev /\ row.tested = soConfig.tested /\ row.state = soConfig.state
    BY <1>s DEF SoRow
  <2> HIDE DEF row
  <2>3. SoSound(row, soReached)
    BY <2>2, <1>s, SoEdit DEF SoSound
  <2>4. SoSound(refreshSSOReadinessState(row), soReached)
    BY <2>3, SoRefreshKeeps
  <2> QED BY <2>1, <2>4 DEF SoInv, row
<1>8. CASE EnforceSSO \/ SuspendSSO
  <2>1. PICK state \in {"enforced", "suspended"} :
           /\ soConfig' = [soConfig EXCEPT !.state = state] /\ soReached' = soReached
           /\ soConfig.state # "none" /\ (state = "enforced" => soConfig.tested = soConfig.rev)
    BY <1>8, Zenon DEF EnforceSSO, SuspendSSO, SsoRestSame
  <2>2. SoSound([soConfig EXCEPT !.state = state], soReached)
    BY <2>1, <1>s, SoSetState DEF SoStates
  <2> QED BY <2>1, <2>2 DEF SoInv
<1>9. CASE SsoLeaseLapses \/ (\E w \in SoWorkers : ClaimSSOProbe(w) \/ SsoWorkerDies(w)) \/ UNCHANGED soVars
  <2>1. UNCHANGED <<soConfig, soReached>>
    BY <1>9, Zenon DEF SsoLeaseLapses, ClaimSSOProbe, SsoWorkerDies, soVars
  <2> QED BY <2>1, <1>3
<1> QED BY <1>1, <1>2, <1>4, <1>5, <1>6, <1>7, <1>8, <1>9, Zenon DEF SoNext

LEMMA SoEarned == SoInv => EnforcedWasTested
  BY DEF SoInv, SoSound, EnforcedWasTested, SoRow

-----------------------------------------------------------------------------
(* ProviderAccess.                                                         *)

PaCredRefs == PaCredentials \cup {NobodyPa}
PaVers == {"none", "pending", "checking", "verified", "failed"}
PaRow == [state : {"none", "active", "inactive"}, scope : SUBSET PaRepos, cred : PaCredRefs, ver : PaVers]
PaProbeRow == [state : {"none", "queued", "running", "completed"}, worker : PaWorkers \cup {NobodyPa}, live : BOOLEAN]
PaTxRow == [op : {"none", "create", "authorized", "rescope", "deactivate"}, inst : Installations \cup {NobodyPa},
            scope : SUBSET PaRepos, cred : PaCredRefs, revoke : BOOLEAN, locked : BOOLEAN]
PaWorkRow == [inst : Installations \cup {NobodyPa}, scope : SUBSET PaRepos, cred : PaCredRefs, usable : BOOLEAN]

PaTypeOK ==
    /\ paInst \in [Installations -> PaRow]
    /\ paProbe \in [Installations -> PaProbeRow]
    /\ paWork \in [PaWorkers -> PaWorkRow]
    /\ DOMAIN paSeen = Installations

PaTxTypeOK ==
    /\ paTx \in [PaAdmins -> PaTxRow]
    /\ \A a \in PaAdmins : paTx[a].op # "none" => paTx[a].inst \in Installations
    
\* A probe that runs was claimed with the scope and the credential that the
\* installation has now: every commit that changes them takes the claim away.
PaClaimsAreCurrent ==
    \A i \in Installations, w \in PaWorkers :
        paProbe[i].state = "running" /\ paProbe[i].worker = w /\ paWork[w] # NoPaWork /\ paWork[w].inst = i =>
            paWork[w].scope = paInst[i].scope /\ paWork[w].cred = paInst[i].cred

PaInv == PaTypeOK /\ PaTxTypeOK /\ PaClaimsAreCurrent /\ VerifiedIsCurrent

LEMMA PaInitInv == PaInit => PaInv
<1> SUFFICES ASSUME PaInit PROVE PaInv
  OBVIOUS
<1>1. NoPaTx \in PaTxRow /\ NoPaTx.op = "none" /\ NoPaWork \in PaWorkRow /\ IdleProbe \in PaProbeRow
      /\ IdleProbe.state = "none"
  BY DEF NoPaTx, NoPaWork, IdleProbe, PaTxRow, PaWorkRow, PaProbeRow, PaCredRefs
<1>2. PaTypeOK
  BY <1>1 DEF PaInit, PaTypeOK, PaRow, PaVers, PaCredRefs
<1>3. PaTxTypeOK
  BY <1>1 DEF PaInit, PaTxTypeOK
<1>4. PaClaimsAreCurrent
  BY <1>1 DEF PaInit, PaClaimsAreCurrent
<1>5. VerifiedIsCurrent
  BY DEF PaInit, VerifiedIsCurrent, PaActive
<1> QED BY <1>2, <1>3, <1>4, <1>5 DEF PaInv

\* A step that leaves installations, probes, claims and verdicts alone.
LEMMA PaQuiet ==
    ASSUME PaInv, UNCHANGED <<paInst, paProbe, paWork, paSeen>>, PaTxTypeOK'
    PROVE  PaInv'
  BY DEF PaInv, PaTypeOK, PaClaimsAreCurrent, VerifiedIsCurrent, PaActive

LEMMA PaTxOpens ==
    ASSUME PaTxTypeOK, NEW a \in PaAdmins, NEW tx \in PaTxRow, tx.op # "none" => tx.inst \in Installations,
           paTx' = [paTx EXCEPT ![a] = tx]
    PROVE  PaTxTypeOK'
  BY DEF PaTxTypeOK

LEMMA PaTxCloses ==
    ASSUME PaTxTypeOK, NEW a \in PaAdmins, paTx' = [paTx EXCEPT ![a] = NoPaTx]
    PROVE  PaTxTypeOK'
<1>1. NoPaTx \in PaTxRow /\ NoPaTx.op = "none"
  BY DEF NoPaTx, PaTxRow, PaCredRefs
<1> QED BY <1>1, PaTxOpens

\* A commit gives one installation a new row that is not verified, and queues
\* its probe.
LEMMA PaRequeues ==
    ASSUME PaInv, NEW i \in Installations, NEW row \in PaRow, row.ver # "verified",
           paInst' = [paInst EXCEPT ![i] = row], paProbe' = [paProbe EXCEPT ![i] = QueuedProbe],
           UNCHANGED <<paWork, paSeen>>, PaTxTypeOK'
    PROVE  PaInv'
<1>1. QueuedProbe \in PaProbeRow /\ QueuedProbe.state = "queued"
  BY DEF QueuedProbe, IdleProbe, PaProbeRow
<1>2. /\ paInst' \in [Installations -> PaRow] /\ paInst'[i] = row
      /\ paProbe' \in [Installations -> PaProbeRow] /\ paProbe'[i].state = "queued"
      /\ \A j \in Installations \ {i} : paInst'[j] = paInst[j] /\ paProbe'[j] = paProbe[j]
  BY <1>1 DEF PaInv, PaTypeOK
<1>3. PaTypeOK'
  BY <1>2 DEF PaInv, PaTypeOK
<1>4. PaClaimsAreCurrent'
  BY <1>2 DEF PaInv, PaClaimsAreCurrent
<1>5. VerifiedIsCurrent'
  BY <1>2 DEF PaInv, VerifiedIsCurrent, PaActive
<1> QED BY <1>3, <1>4, <1>5 DEF PaInv

LEMMA PaBeginKeeps ==
    ASSUME PaInv, NEW a \in PaAdmins, NEW tx \in PaTxRow, tx.inst \in Installations, PaBegin(a, tx)
    PROVE  PaInv'
<1>1. paTx' = [paTx EXCEPT ![a] = tx] /\ UNCHANGED <<paInst, paProbe, paWork, paSeen>>
  BY DEF PaBegin
<1>2. PaTxTypeOK'
  BY <1>1, PaTxOpens DEF PaInv
<1> QED BY <1>1, <1>2, PaQuiet

LEMMA PaEditsKeep ==
    ASSUME PaInv, NEW a \in PaAdmins,
           \/ \E i \in Installations, s \in Scopes, c \in PaCredentials : CreateInstallation(a, i, s, c)
           \/ \E i \in Installations, s \in Scopes : UpdateInstallationRepositoryScope(a, i, s)
           \/ \E i \in Installations : DeactivateInstallation(a, i)
    PROVE  PaInv'
<1>1. ASSUME NEW i \in Installations, NEW s \in Scopes, NEW c \in PaCredentials, CreateInstallation(a, i, s, c)
      PROVE  PaInv'
  <2> DEFINE tx == [NoPaTx EXCEPT !.op = "create", !.inst = i, !.scope = s, !.cred = c]
  <2>1. tx \in PaTxRow /\ tx.inst = i
    BY DEF NoPaTx, PaTxRow, Scopes, PaCredRefs
  <2>2. PaBegin(a, tx)
    BY <1>1 DEF CreateInstallation
  <2> HIDE DEF tx
  <2> QED BY <2>1, <2>2, PaBeginKeeps
<1>2. ASSUME NEW i \in Installations, NEW s \in Scopes, UpdateInstallationRepositoryScope(a, i, s) PROVE PaInv'
  <2> DEFINE tx == [NoPaTx EXCEPT !.op = "rescope", !.inst = i, !.scope = s]
  <2>1. tx \in PaTxRow /\ tx.inst = i
    BY DEF NoPaTx, PaTxRow, Scopes, PaCredRefs
  <2>2. PaBegin(a, tx)
    BY <1>2 DEF UpdateInstallationRepositoryScope
  <2> HIDE DEF tx
  <2> QED BY <2>1, <2>2, PaBeginKeeps
<1>3. ASSUME NEW i \in Installations, DeactivateInstallation(a, i) PROVE PaInv'
  <2> DEFINE c == paInst[i].cred
             revoke == paCred[c] = "live" /\ ~\E j \in Installations \ {i} : PaActive(j) /\ paInst[j].cred = c
             locked == revoke /\ SharedBy(c) = {}
             tx == [NoPaTx EXCEPT !.op = "deactivate", !.inst = i, !.cred = c, !.revoke = revoke, !.locked = locked]
  <2>1. PaBegin(a, tx)
    BY <1>3, Zenon DEF DeactivateInstallation
  <2>2. revoke \in BOOLEAN /\ locked \in BOOLEAN
    BY Zenon
  <2>3. c \in PaCredRefs
    BY DEF PaInv, PaTypeOK, PaRow
  <2> HIDE DEF c, revoke, locked
  <2>4. tx \in PaTxRow /\ tx.inst = i
    BY <2>2, <2>3 DEF NoPaTx, PaTxRow
  <2> HIDE DEF tx
  <2> QED BY <2>1, <2>4, PaBeginKeeps
<1> QED BY <1>1, <1>2, <1>3

LEMMA PaAuthorizeKeeps ==
    ASSUME PaInv, NEW a \in PaAdmins, AuthorizeInstallation(a)
    PROVE  PaInv'
<1> DEFINE t == paTx[a]
           tx == [t EXCEPT !.op = "authorized"]
<1>1. UNCHANGED <<paInst, paProbe, paWork, paSeen>> /\ t.op = "create"
  BY DEF AuthorizeInstallation
<1>2. t \in PaTxRow /\ t.inst \in Installations
  BY <1>1 DEF PaInv, PaTxTypeOK
<1>3. paTx' = [paTx EXCEPT ![a] = tx] \/ paTx' = [paTx EXCEPT ![a] = NoPaTx]
  BY Zenon DEF AuthorizeInstallation
<1>4. tx \in PaTxRow /\ tx.inst = t.inst
  <2> HIDE DEF t
  <2> QED BY <1>2 DEF PaTxRow
<1> HIDE DEF tx
<1>5. PaTxTypeOK'
  BY <1>2, <1>3, <1>4, PaTxOpens, PaTxCloses DEF PaInv
<1> QED BY <1>1, <1>5, PaQuiet

LEMMA PaCommitsKeep ==
    ASSUME PaInv, NEW a \in PaAdmins, CommitInstallation(a) \/ CommitScope(a) \/ CommitDeactivation(a)
    PROVE  PaInv'
<1> DEFINE t == paTx[a]
           i == t.inst
<1>1. t.op # "none" /\ paTx' = [paTx EXCEPT ![a] = NoPaTx] /\ UNCHANGED <<paWork, paSeen>>
  BY DEF CommitInstallation, CommitScope, CommitDeactivation
<1>2. t \in PaTxRow /\ i \in Installations /\ paInst[i] \in PaRow /\ t.scope \in SUBSET PaRepos /\ t.cred \in PaCredRefs
  BY <1>1 DEF PaInv, PaTypeOK, PaTxTypeOK, PaTxRow
<1>3. PaTxTypeOK'
  BY <1>1, PaTxCloses DEF PaInv
<1>4. CASE CommitInstallation(a)
  <2> DEFINE row == [state |-> "active", scope |-> t.scope, cred |-> t.cred, ver |-> "pending"]
  <2>1. paInst' = [paInst EXCEPT ![i] = row] /\ paProbe' = [paProbe EXCEPT ![i] = QueuedProbe]
    BY <1>4 DEF CommitInstallation, ReauthorizedProbe
  <2>2. row \in PaRow /\ row.ver # "verified"
    BY <1>2 DEF PaRow, PaVers
  <2> HIDE DEF row, i
  <2> QED BY <1>1, <1>2, <1>3, <2>1, <2>2, PaRequeues
<1>5. CASE CommitScope(a)
  <2> DEFINE row == [paInst[i] EXCEPT !.scope = t.scope, !.ver = "pending"]
  <2>1. paProbe' = [paProbe EXCEPT ![i] = QueuedProbe]
    BY <1>5 DEF CommitScope
  <2>2. paInst' = [paInst EXCEPT ![i].scope = t.scope, ![i].ver = "pending"]
    BY <1>5 DEF CommitScope
  <2> DEFINE scope == t.scope
  <2> HIDE DEF t, i
  <2>3. paInst' = [paInst EXCEPT ![i] = row]
    BY <2>2, <1>2, Zenon DEF PaInv, PaTypeOK
  <2>4. row \in PaRow /\ row.ver # "verified"
    BY <1>2 DEF PaRow, PaVers
  <2> HIDE DEF row
  <2> QED BY <1>1, <1>2, <1>3, <2>1, <2>3, <2>4, PaRequeues
<1>6. CASE CommitDeactivation(a)
  <2> DEFINE row == [paInst[i] EXCEPT !.state = "inactive"]
  <2>1. paInst' = [paInst EXCEPT ![i] = row] /\ paProbe' = paProbe
    BY <1>6, Zenon DEF CommitDeactivation
  <2> HIDE DEF i
  <2>2. row \in PaRow /\ row.state = "inactive" /\ row.scope = paInst[i].scope /\ row.cred = paInst[i].cred
    BY <1>2 DEF PaRow
  <2> HIDE DEF row
  <2>3. /\ paInst' \in [Installations -> PaRow] /\ paInst'[i] = row
        /\ \A j \in Installations \ {i} : paInst'[j] = paInst[j]
    BY <2>1, <2>2, <1>2 DEF PaInv, PaTypeOK
  <2>4. PaTypeOK'
    BY <2>1, <2>3, <1>1 DEF PaInv, PaTypeOK
  <2>5. PaClaimsAreCurrent'
    BY <2>1, <2>2, <2>3, <1>1 DEF PaInv, PaClaimsAreCurrent
  <2>6. VerifiedIsCurrent'
    BY <2>2, <2>3, <1>1 DEF PaInv, VerifiedIsCurrent, PaActive
  <2> QED BY <2>4, <2>5, <2>6, <1>3 DEF PaInv
<1> QED BY <1>4, <1>5, <1>6

\* A recheck that is asked for keeps a verdict or makes it "pending".
LEMMA PaRequestKeeps ==
    ASSUME PaInv, NEW i \in Installations, RequestInstallationVerification(i)
    PROVE  PaInv'
<1> DEFINE ver == IF paInst[i].ver = "verified" THEN paInst[i].ver ELSE "pending"
           row == [paInst[i] EXCEPT !.ver = ver]
<1>1. /\ paInst' = [paInst EXCEPT ![i] = row] /\ paProbe' = [paProbe EXCEPT ![i] = QueuedProbe]
      /\ UNCHANGED <<paWork, paSeen, paTx>>
  BY Zenon DEF RequestInstallationVerification
<1>2. ver \in PaVers /\ (ver = "verified" => paInst[i].ver = "verified") /\ paInst[i] \in PaRow
  BY DEF PaVers, PaInv, PaTypeOK
<1> HIDE DEF ver
<1>3. row \in PaRow /\ row.state = paInst[i].state /\ row.scope = paInst[i].scope /\ row.cred = paInst[i].cred /\ row.ver = ver
  BY <1>2 DEF PaRow
<1> HIDE DEF row
<1>4. QueuedProbe \in PaProbeRow /\ QueuedProbe.state = "queued"
  BY DEF QueuedProbe, IdleProbe, PaProbeRow
<1>5. /\ paInst' \in [Installations -> PaRow] /\ paInst'[i] = row
      /\ paProbe' \in [Installations -> PaProbeRow] /\ paProbe'[i].state = "queued"
      /\ \A j \in Installations \ {i} : paInst'[j] = paInst[j] /\ paProbe'[j] = paProbe[j]
  BY <1>1, <1>3, <1>4 DEF PaInv, PaTypeOK
<1>6. PaTypeOK' /\ PaTxTypeOK'
  BY <1>1, <1>5 DEF PaInv, PaTypeOK, PaTxTypeOK
<1>7. PaClaimsAreCurrent'
  BY <1>1, <1>5 DEF PaInv, PaClaimsAreCurrent
<1>8. VerifiedIsCurrent'
  BY <1>1, <1>2, <1>3, <1>5 DEF PaInv, VerifiedIsCurrent, PaActive
<1> QED BY <1>6, <1>7, <1>8 DEF PaInv

\* A claim freezes what the installation has.
LEMMA PaClaimKeeps ==
    ASSUME PaInv, NEW w \in PaWorkers, NEW i \in Installations, ClaimProviderHealthProbe(w, i)
    PROVE  PaInv'
<1> DEFINE ver == IF paInst[i].ver \in {"pending", "failed"} THEN "checking" ELSE paInst[i].ver
           row == [paInst[i] EXCEPT !.ver = ver]
           usable == paCred[paInst[i].cred] = "live"
           work == [inst |-> i, scope |-> paInst[i].scope, cred |-> paInst[i].cred, usable |-> usable]
           probe == [state |-> "running", worker |-> w, live |-> TRUE]
<1>1. /\ paInst' = [paInst EXCEPT ![i] = row] /\ paProbe' = [paProbe EXCEPT ![i] = probe]
      /\ paWork' = [paWork EXCEPT ![w] = work] /\ UNCHANGED <<paSeen, paTx>>
  BY Zenon DEF ClaimProviderHealthProbe
<1>2. ver \in PaVers /\ (ver = "verified" => paInst[i].ver = "verified") /\ paInst[i] \in PaRow
  BY DEF PaVers, PaInv, PaTypeOK, PaRow
<1> HIDE DEF ver
<1>3. row \in PaRow /\ row.state = paInst[i].state /\ row.scope = paInst[i].scope /\ row.cred = paInst[i].cred /\ row.ver = ver
  BY <1>2 DEF PaRow
<1> HIDE DEF row
<1>4. probe \in PaProbeRow /\ probe.worker = w
  BY DEF PaProbeRow
<1>5. usable \in BOOLEAN
  BY Zenon
<1> HIDE DEF usable
<1>6. work \in PaWorkRow /\ work.inst = i /\ work.scope = paInst[i].scope /\ work.cred = paInst[i].cred
  BY <1>2, <1>5 DEF PaRow, PaWorkRow
<1> HIDE DEF probe, work
<1>7. /\ paInst' \in [Installations -> PaRow] /\ paInst'[i] = row
      /\ paProbe' \in [Installations -> PaProbeRow] /\ paProbe'[i] = probe
      /\ \A j \in Installations \ {i} : paInst'[j] = paInst[j] /\ paProbe'[j] = paProbe[j]
      /\ paWork' \in [PaWorkers -> PaWorkRow] /\ paWork'[w] = work
      /\ \A v \in PaWorkers \ {w} : paWork'[v] = paWork[v]
  BY <1>1, <1>3, <1>4, <1>6 DEF PaInv, PaTypeOK
<1>8. PaTypeOK' /\ PaTxTypeOK'
  BY <1>1, <1>7 DEF PaInv, PaTypeOK, PaTxTypeOK
<1>9. ASSUME NEW j \in Installations, NEW v \in PaWorkers, paProbe'[j].state = "running", paProbe'[j].worker = v,
             paWork'[v] # NoPaWork, paWork'[v].inst = j
      PROVE  paWork'[v].scope = paInst'[j].scope /\ paWork'[v].cred = paInst'[j].cred
  <2>1. CASE v = w
    <3>1. j = i
      BY <2>1, <1>9, <1>7, <1>6
    <3> QED BY <2>1, <3>1, <1>7, <1>6, <1>3
  <2>2. CASE v # w
    <3>1. j # i
      BY <2>2, <1>9, <1>7, <1>4
    <3> QED BY <2>2, <3>1, <1>9, <1>7 DEF PaInv, PaClaimsAreCurrent
  <2> QED BY <2>1, <2>2
<1>10. PaClaimsAreCurrent'
  BY <1>9 DEF PaClaimsAreCurrent
<1>11. VerifiedIsCurrent'
  BY <1>1, <1>2, <1>3, <1>7 DEF PaInv, VerifiedIsCurrent, PaActive
<1> QED BY <1>8, <1>10, <1>11 DEF PaInv

\* A worker that still owns its claim vouches for what the installation has.
LEMMA PaCompleteKeeps ==
    ASSUME PaInv, NEW w \in PaWorkers, ProberRunOnce(w)
    PROVE  PaInv'
<1>1. PICK found \in ProbeHealth(w), seen \in VerifiedRepositories : CompleteProviderHealthProbe(w, found, seen)
  BY DEF ProberRunOnce
<1> DEFINE k == paWork[w]
           health == IF found = "live" /\ ~currentProbeVerifiesScope(w, seen) THEN "critical" ELSE found
           i == k.inst
           owned == paProbe[i].state = "running" /\ paProbe[i].worker = w /\ paProbe[i].live
           ver == Verification(paInst[i].ver, health)
           row == [paInst[i] EXCEPT !.ver = ver]
           done == [IdleProbe EXCEPT !.state = "completed"]
           vouch == [scope |-> k.scope, cred |-> k.cred]
<1>2. /\ k # NoPaWork /\ paWork' = [paWork EXCEPT ![w] = NoPaWork] /\ paTx' = paTx
  BY DEF ProberRunOnce
<1>3. /\ paProbe' = IF owned THEN [paProbe EXCEPT ![i] = done] ELSE paProbe
      /\ paInst' = IF owned /\ PaActive(i) THEN [paInst EXCEPT ![i] = row] ELSE paInst
      /\ paSeen' = IF owned /\ PaActive(i) /\ health = "live" THEN [paSeen EXCEPT ![i] = vouch] ELSE paSeen
  BY <1>1, Zenon DEF CompleteProviderHealthProbe
<1>4. NoPaWork \in PaWorkRow
  BY DEF NoPaWork, PaWorkRow, PaCredRefs
<1>5. /\ paWork' \in [PaWorkers -> PaWorkRow] /\ paWork'[w] = NoPaWork
      /\ \A v \in PaWorkers \ {w} : paWork'[v] = paWork[v]
  BY <1>2, <1>4 DEF PaInv, PaTypeOK
<1>6. PaTxTypeOK'
  BY <1>2 DEF PaInv, PaTxTypeOK
<1>7. CASE ~owned
  <2>1. UNCHANGED <<paProbe, paInst, paSeen>>
    BY <1>7, <1>3, Zenon
  <2>2. PaTypeOK'
    BY <2>1, <1>5 DEF PaInv, PaTypeOK
  <2>3. PaClaimsAreCurrent'
    BY <2>1, <1>5 DEF PaInv, PaClaimsAreCurrent
  <2>4. VerifiedIsCurrent'
    BY <2>1 DEF PaInv, VerifiedIsCurrent, PaActive
  <2> QED BY <2>2, <2>3, <2>4, <1>6 DEF PaInv
<1>8. CASE owned /\ i \notin Installations
  <2>0. paProbe \in [Installations -> PaProbeRow] /\ paInst \in [Installations -> PaRow] /\ DOMAIN paSeen = Installations
    BY DEF PaInv, PaTypeOK
  <2> HIDE DEF row, done, vouch, owned, health, i
  <2>1. paProbe' = paProbe /\ paInst' = paInst
    BY <1>8, <1>3, <2>0
  <2>2. DOMAIN paSeen' = Installations /\ \A j \in Installations : paSeen'[j] = paSeen[j]
    BY <1>8, <1>3, <2>0
  <2>3. PaTypeOK'
    BY <2>1, <2>2, <1>5 DEF PaInv, PaTypeOK
  <2>4. PaClaimsAreCurrent'
    BY <2>1, <1>5 DEF PaInv, PaClaimsAreCurrent
  <2>5. VerifiedIsCurrent'
    BY <2>1, <2>2 DEF PaInv, VerifiedIsCurrent, PaActive
  <2> QED BY <2>3, <2>4, <2>5, <1>6 DEF PaInv
<1>9. CASE owned /\ i \in Installations
  <2>1. k.scope = paInst[i].scope /\ k.cred = paInst[i].cred
    BY <1>9, <1>2 DEF PaInv, PaClaimsAreCurrent
  <2>2. vouch = [scope |-> paInst[i].scope, cred |-> paInst[i].cred]
    BY <2>1
  <2>3. paInst[i] \in PaRow /\ paInst[i].ver \in PaVers
    BY <1>9 DEF PaInv, PaTypeOK, PaRow
  <2> HIDE DEF i, k, health, owned, vouch
  <2>4. /\ ver \in PaVers
        /\ ver = "verified" => health = "live" \/ paInst[i].ver = "verified"
    BY <2>3 DEF Verification, PaVers
  <2> HIDE DEF ver
  <2>5. row \in PaRow /\ row.state = paInst[i].state /\ row.scope = paInst[i].scope /\ row.cred = paInst[i].cred /\ row.ver = ver
    BY <2>3, <2>4 DEF PaRow
  <2>6. done \in PaProbeRow /\ done.state = "completed"
    BY DEF IdleProbe, PaProbeRow
  <2> HIDE DEF row, done
  <2>7. /\ paProbe' \in [Installations -> PaProbeRow] /\ paProbe'[i] = done
        /\ \A j \in Installations \ {i} : paProbe'[j] = paProbe[j]
    BY <1>3, <1>9, <2>6 DEF PaInv, PaTypeOK
  <2>8. /\ paInst' \in [Installations -> PaRow]
        /\ PaActive(i) => paInst'[i] = row
        /\ ~PaActive(i) => paInst'[i] = paInst[i]
        /\ \A j \in Installations \ {i} : paInst'[j] = paInst[j]
    BY <1>3, <1>9, <2>5 DEF PaInv, PaTypeOK
  <2>9. /\ DOMAIN paSeen' = Installations
        /\ PaActive(i) /\ health = "live" => paSeen'[i] = vouch
        /\ ~(PaActive(i) /\ health = "live") => paSeen'[i] = paSeen[i]
        /\ \A j \in Installations \ {i} : paSeen'[j] = paSeen[j]
    BY <1>3, <1>9 DEF PaInv, PaTypeOK
  <2>10. PaTypeOK'
    BY <2>7, <2>8, <2>9, <1>5 DEF PaInv, PaTypeOK
  <2>11. ASSUME NEW j \in Installations, NEW v \in PaWorkers, paProbe'[j].state = "running", paProbe'[j].worker = v,
                paWork'[v] # NoPaWork, paWork'[v].inst = j
         PROVE  paWork'[v].scope = paInst'[j].scope /\ paWork'[v].cred = paInst'[j].cred
    <3>1. v # w /\ j # i
      BY <2>11, <1>5, <2>6, <2>7
    <3> QED BY <3>1, <2>11, <1>5, <2>7, <2>8 DEF PaInv, PaClaimsAreCurrent
  <2>12. PaClaimsAreCurrent'
    BY <2>11 DEF PaClaimsAreCurrent
  <2>13. ASSUME NEW j \in Installations, paInst'[j].state = "active", paInst'[j].ver = "verified"
         PROVE  paSeen'[j] = [scope |-> paInst'[j].scope, cred |-> paInst'[j].cred]
    <3>1. CASE j # i
      BY <3>1, <2>13, <2>8, <2>9 DEF PaInv, VerifiedIsCurrent, PaActive
    <3>2. CASE j = i
      <4>1. PaActive(i) /\ row.ver = "verified" /\ paInst'[i] = row
        BY <3>2, <2>13, <2>8, <2>5 DEF PaActive
      <4>2. CASE health = "live"
        BY <3>2, <4>1, <4>2, <2>9, <2>5, <2>2
      <4>3. CASE health # "live"
        <5>1. paInst[i].ver = "verified" /\ paSeen'[i] = paSeen[i]
          BY <4>1, <4>3, <2>4, <2>5, <2>9
        <5> QED BY <5>1, <4>1, <3>2, <2>5, <1>9 DEF PaInv, VerifiedIsCurrent
      <4> QED BY <4>2, <4>3
    <3> QED BY <3>1, <3>2
  <2>14. VerifiedIsCurrent'
    BY <2>13 DEF VerifiedIsCurrent, PaActive
  <2> QED BY <2>10, <2>12, <2>14, <1>6 DEF PaInv
<1> QED BY <1>7, <1>8, <1>9

LEMMA PaStep == PaInv /\ [PaNext]_paVars => PaInv'
<1> SUFFICES ASSUME PaInv, [PaNext]_paVars PROVE PaInv'
  OBVIOUS
<1>1. ASSUME NEW c \in PaCredentials, CreateProviderOAuthCredential(c) \/ RevokeOrphanedProviderOAuthCredentials(c)
      PROVE  PaInv'
  <2>1. UNCHANGED <<paInst, paProbe, paWork, paSeen, paTx>>
    BY <1>1 DEF CreateProviderOAuthCredential, RevokeOrphanedProviderOAuthCredentials
  <2> QED BY <2>1, PaQuiet DEF PaInv, PaTxTypeOK
<1>2. ASSUME NEW i \in Installations, PaLeaseLapses(i) PROVE PaInv'
  <2> DEFINE row == [paProbe[i] EXCEPT !.live = FALSE]
  <2>1. paProbe' = [paProbe EXCEPT ![i] = row] /\ UNCHANGED <<paInst, paTx, paWork, paSeen>>
    BY <1>2, Zenon DEF PaLeaseLapses
  <2>2. row \in PaProbeRow /\ row.state = paProbe[i].state /\ row.worker = paProbe[i].worker
    BY DEF PaInv, PaTypeOK, PaProbeRow
  <2> HIDE DEF row
  <2>3. /\ paProbe' \in [Installations -> PaProbeRow]
        /\ \A j \in Installations : paProbe'[j].state = paProbe[j].state /\ paProbe'[j].worker = paProbe[j].worker
    BY <2>1, <2>2 DEF PaInv, PaTypeOK
  <2>4. PaTypeOK' /\ PaTxTypeOK' /\ PaClaimsAreCurrent' /\ VerifiedIsCurrent'
    BY <2>1, <2>3 DEF PaInv, PaTypeOK, PaTxTypeOK, PaClaimsAreCurrent, VerifiedIsCurrent, PaActive
  <2> QED BY <2>4 DEF PaInv
<1>3. ASSUME NEW w \in PaWorkers, PaWorkerDies(w) PROVE PaInv'
  <2>1. paWork' = [paWork EXCEPT ![w] = NoPaWork] /\ UNCHANGED <<paInst, paTx, paProbe, paSeen>>
    BY <1>3 DEF PaWorkerDies
  <2>2. NoPaWork \in PaWorkRow
    BY DEF NoPaWork, PaWorkRow, PaCredRefs
  <2>3. /\ paWork' \in [PaWorkers -> PaWorkRow] /\ paWork'[w] = NoPaWork
        /\ \A v \in PaWorkers \ {w} : paWork'[v] = paWork[v]
    BY <2>1, <2>2 DEF PaInv, PaTypeOK
  <2>4. PaTypeOK' /\ PaTxTypeOK' /\ PaClaimsAreCurrent' /\ VerifiedIsCurrent'
    BY <2>1, <2>3 DEF PaInv, PaTypeOK, PaTxTypeOK, PaClaimsAreCurrent, VerifiedIsCurrent, PaActive
  <2> QED BY <2>4 DEF PaInv
<1>4. CASE UNCHANGED paVars
  BY <1>4, PaQuiet DEF paVars, PaInv, PaTxTypeOK
<1> QED BY <1>1, <1>2, <1>3, <1>4, PaEditsKeep, PaAuthorizeKeeps, PaCommitsKeep, PaRequestKeeps, PaClaimKeeps,
           PaCompleteKeeps, Zenon DEF PaNext

-----------------------------------------------------------------------------
(* WorkspaceSetup.                                                         *)

WsStepNames == {"connect", "review_scope", "learning", "severity", "rules", "complete"}

WsTypeOK ==
    /\ wsInst \in [active : BOOLEAN, ver : {"none", "legacy", "pending", "verified", "failed"}, covered : BOOLEAN]
    /\ wsCheck = NoCheck \/ wsCheck.step \in WsStepNames
    /\ wsOld \in BOOLEAN /\ wsReady \in BOOLEAN /\ wsAdmitted \in BOOLEAN /\ wsPolicy \in BOOLEAN

\* What the workspace has now, it has had.
WsHas ==
    /\ wsInst.covered => "repository" \in wsProven
    /\ wsPolicy => "policy" \in wsProven

\* A connected workspace has a checkpoint, unless it is older than those.
WsStarted == wsCheck = NoCheck /\ ~wsOld => ~wsInst.active

\* What a step stands for was there when the step was reached.
WsEarned ==
    /\ wsCheck.step \in {"learning", "severity", "rules", "complete"} => "repository" \in wsProven
    /\ wsCheck.step \in {"rules", "complete"} => "policy" \in wsProven
    /\ wsCheck.step = "complete" => wsReady

WsInv == WsTypeOK /\ WsHas /\ WsStarted /\ WsEarned /\ AdmittedWasGoverned

LEMMA WsInitInv == WsInit => WsInv
<1> SUFFICES ASSUME WsInit PROVE WsInv
  OBVIOUS
<1>1. /\ wsInst \in [active : BOOLEAN, ver : {"none", "legacy", "pending", "verified", "failed"}, covered : BOOLEAN]
      /\ ~wsInst.covered /\ (~wsOld => ~wsInst.active)
  BY DEF WsInit
<1>2. NoCheck.step = "none"
  BY DEF NoCheck
<1> QED BY <1>1, <1>2 DEF WsInit, WsInv, WsTypeOK, WsHas, WsStarted, WsEarned, AdmittedWasGoverned

\* The checkpoint moves along the fixed list of steps.
LEMMA WsAdvances ==
    ASSUME NEW step, NEW next, CanAdvanceWorkspaceSetup(step, next)
    PROVE  \/ step = "connect" /\ next = "review_scope"
           \/ step = "review_scope" /\ next = "learning"
           \/ step = "learning" /\ next = "severity"
           \/ step = "severity" /\ next = "rules"
           \/ step = "rules" /\ next = "complete"
<1>1. Len(Steps) = 6
  BY DEF Steps
<1>2. PICK n \in 1..5 : Steps[n] = step /\ Steps[n + 1] = next
  BY <1>1 DEF CanAdvanceWorkspaceSetup
<1>3. n = 1 \/ n = 2 \/ n = 3 \/ n = 4 \/ n = 5
  OBVIOUS
<1> QED BY <1>2, <1>3 DEF Steps

\* Facts about the workspace only grow, and a step is left over what it asks.
LEMMA WsStep == WsInv /\ [WsNext]_wsVars => WsInv'
<1> SUFFICES ASSUME WsInv, [WsNext]_wsVars PROVE WsInv'
  OBVIOUS
<1> USE DEF WsInv
<1>t. wsInst \in [active : BOOLEAN, ver : {"none", "legacy", "pending", "verified", "failed"}, covered : BOOLEAN]
  BY DEF WsTypeOK
<1>n. NoCheck.step = "none"
  BY DEF NoCheck
<1>1. CASE StartCheckpoint
  <2> DEFINE inst == [active |-> TRUE, ver |-> "pending", covered |-> FALSE]
             check == [step |-> "review_scope", rev |-> 1]
  <2>1. /\ wsInst' = inst /\ ~inst.covered
        /\ inst \in [active : BOOLEAN, ver : {"none", "legacy", "pending", "verified", "failed"}, covered : BOOLEAN]
    BY <1>1 DEF StartCheckpoint
  <2>2. check.step = "review_scope" /\ check # NoCheck
    BY DEF NoCheck
  <2>3. /\ wsCheck = NoCheck => wsCheck' = check
        /\ wsCheck # NoCheck => wsCheck' = wsCheck
        /\ UNCHANGED <<wsPolicy, wsReady, wsProven, wsAdmitted, wsOld>>
    BY <1>1 DEF StartCheckpoint
  <2> HIDE DEF inst, check
  <2> QED BY <2>1, <2>2, <2>3, <1>n DEF WsTypeOK, WsHas, WsStarted, WsEarned, AdmittedWasGoverned, WsStepNames
<1>2. CASE WsDeactivated
  <2> DEFINE inst == [wsInst EXCEPT !.active = FALSE]
  <2>1. /\ wsInst' = inst /\ UNCHANGED <<wsPolicy, wsCheck, wsReady, wsProven, wsAdmitted, wsOld>>
    BY <1>2 DEF WsDeactivated
  <2>2. /\ inst \in [active : BOOLEAN, ver : {"none", "legacy", "pending", "verified", "failed"}, covered : BOOLEAN]
        /\ inst.covered = wsInst.covered /\ ~inst.active
    BY <1>t
  <2> HIDE DEF inst
  <2> QED BY <2>1, <2>2 DEF WsTypeOK, WsHas, WsStarted, WsEarned, AdmittedWasGoverned
<1>3. CASE WsProbed
  <2>1. PICK ver \in {"verified", "failed"}, covered \in BOOLEAN :
          /\ wsInst' = [wsInst EXCEPT !.ver = IF @ = "legacy" THEN @ ELSE ver, !.covered = covered]
          /\ wsProven' = IF covered THEN wsProven \cup {"repository"} ELSE wsProven
    BY <1>3 DEF WsProbed
  <2>2. UNCHANGED <<wsPolicy, wsCheck, wsReady, wsAdmitted, wsOld>> /\ wsInst.active
    BY <1>3 DEF WsProbed
  <2>3. /\ wsInst' \in [active : BOOLEAN, ver : {"none", "legacy", "pending", "verified", "failed"}, covered : BOOLEAN]
        /\ wsInst'.covered = covered /\ wsInst'.active = wsInst.active
    BY <2>1, <1>t
  <2>4. wsProven \subseteq wsProven' /\ (covered => "repository" \in wsProven')
    BY <2>1
  <2> QED BY <2>2, <2>3, <2>4 DEF WsTypeOK, WsHas, WsStarted, WsEarned, AdmittedWasGoverned
<1>4. CASE PolicySaved
  BY <1>4 DEF PolicySaved, WsTypeOK, WsHas, WsStarted, WsEarned, AdmittedWasGoverned
<1>5. CASE WsAdmit
  <2>1. /\ wsInst.active /\ workspaceSetupAllowsReview
        /\ UNCHANGED <<wsInst, wsPolicy, wsCheck, wsReady, wsProven, wsOld>> /\ wsAdmitted' = TRUE
    BY <1>5 DEF WsAdmit, Eligible
  <2>2. ~wsOld => wsCheck.step = "complete"
    BY <2>1 DEF WsStarted, workspaceSetupAllowsReview
  <2>3. AdmittedWasGoverned'
    BY <2>1, <2>2 DEF WsEarned, AdmittedWasGoverned
  <2> QED BY <2>1, <2>3 DEF WsTypeOK, WsHas, WsStarted, WsEarned
<1>6. CASE UNCHANGED <<wsInst, wsPolicy, wsCheck, wsReady, wsProven, wsAdmitted, wsOld>>
  BY <1>6 DEF WsTypeOK, WsHas, WsStarted, WsEarned, AdmittedWasGoverned
<1>7. CASE \E a \in WsAdmins : GetWorkspaceSetupCheckpoint(a)
  BY <1>6, <1>7 DEF GetWorkspaceSetupCheckpoint
<1>8. ASSUME NEW a \in WsAdmins, NEW n \in DOMAIN Steps, UpdateWorkspaceSetupCheckpoint(a, Steps[n]) PROVE WsInv'
  <2> DEFINE next == Steps[n]
             step == Shown(wsCheck).step
             check == [step |-> next, rev |-> Shown(wsCheck).rev + 1]
  <2>1. /\ CanAdvanceWorkspaceSetup(step, next) /\ StepEarned(step)
        /\ wsCheck' = check /\ wsReady' = (wsReady \/ next = "complete")
        /\ UNCHANGED <<wsInst, wsPolicy, wsProven, wsAdmitted, wsOld>>
    BY <1>8, Zenon DEF UpdateWorkspaceSetupCheckpoint
  <2>2. wsCheck'.step = next
    BY <2>1
  <2>3. step = "connect" \/ step = wsCheck.step
    BY DEF Shown
  <2> HIDE DEF next, step, check
  <2>4. \/ step = "connect" /\ next = "review_scope"
        \/ step = "review_scope" /\ next = "learning"
        \/ step = "learning" /\ next = "severity"
        \/ step = "severity" /\ next = "rules"
        \/ step = "rules" /\ next = "complete"
    BY <2>1, WsAdvances
  <2>5. wsCheck'.step \in WsStepNames /\ wsCheck' # NoCheck
    BY <2>2, <2>4, <1>n DEF WsStepNames
  <2>6. /\ step = "review_scope" => "repository" \in wsProven
        /\ step = "severity" => "policy" \in wsProven
    BY <2>1 DEF StepEarned, WsHas
  <2>7. wsReady' \in BOOLEAN /\ (wsReady => wsReady') /\ (next = "complete" => wsReady')
    BY <2>1 DEF WsTypeOK
  <2>8. WsEarned'
    BY <2>1, <2>2, <2>3, <2>4, <2>6, <2>7 DEF WsEarned
  <2>9. WsTypeOK' /\ WsHas' /\ WsStarted' /\ AdmittedWasGoverned'
    BY <2>1, <2>5, <2>7 DEF WsTypeOK, WsHas, WsStarted, AdmittedWasGoverned
  <2> QED BY <2>8, <2>9
<1>9. CASE UNCHANGED wsVars
  BY <1>6, <1>9 DEF wsVars
<1> QED BY <1>1, <1>2, <1>3, <1>4, <1>5, <1>7, <1>8, <1>9, Zenon DEF WsNext

-----------------------------------------------------------------------------
(* Who has access.                                                         *)

AccessInv == IdInv /\ SoInv /\ PaInv /\ WsInv

\* The four inductive invariants hold of the composition.
THEOREM AccessInvariant == Spec => []AccessInv
<1>1. Init => AccessInv
  BY IdInitInv, SoInitInv, PaInitInv, WsInitInv DEF Init, AccessInv
<1>2. AccessInv /\ [Next]_vars => AccessInv'
  BY PartsMove, IdStep, SoStep, PaStep, WsStep DEF AccessInv
<1> QED BY <1>1, <1>2, PTL DEF Spec

\* Sign-on is enforced, an installation routes webhooks and a review is
\* admitted only over what was tested in its present form, and an owner is
\* left unless two membership edits overlapped.
THEOREM AccessEarned == Spec => []AccessWasEarned
<1>1. AccessInv => AccessWasEarned
  BY SoEarned DEF AccessInv, AccessWasEarned, IdInv, PaInv, WsInv
<1> QED BY <1>1, AccessInvariant, PTL

-----------------------------------------------------------------------------
(* DataGovernance.                                                         *)

DgStates == {"none", "queued", "awaiting_approval", "running", "rejected", "cancelled", "failed", "completed"}
DgRow == [kind : {"none", "export", "deletion", "region"}, scope : DgScopes, by : DgOwners \cup {DgNobody},
          state : DgStates, window : {"none", "open", "closed"}, worker : DgWorkers \cup {DgNobody},
          live : BOOLEAN, attempt : Nat]

\* A deletion runs only after its window has closed.
DgWaited == {row \in DgRow : row.kind = "deletion" /\ row.state = "running" => row.window = "closed"}

DgHand == [job : DgJobs \cup {0}, phase : {"idle", "claimed", "blocked", "erased"}]

DgInv ==
    /\ dgJob \in [DgJobs -> DgWaited]
    /\ dgWorker \in [DgWorkers -> {h \in DgHand : h.phase # "idle" => h.job \in DgJobs}]

LEMMA DgRowFacts ==
    /\ DgNoJob \in DgWaited /\ DgNoJob.state = "none"
    /\ DgIdle \in DgHand /\ DgIdle.phase = "idle"
  BY DEF DgNoJob, DgWaited, DgRow, DgStates, DgScopes, DgIdle, DgHand

LEMMA DgInitInv == DgInit => DgInv
  BY DgRowFacts DEF DgInit, DgInv

\* One job's row is written at a time.
LEMMA DgWrites ==
    ASSUME DgInv, NEW j \in DgJobs, NEW row \in DgWaited, dgJob' = [dgJob EXCEPT ![j] = row]
    PROVE  dgJob' \in [DgJobs -> DgWaited]
  BY DEF DgInv

LEMMA DgHands ==
    ASSUME DgInv, NEW w \in DgWorkers, NEW h \in DgHand, h.phase # "idle" => h.job \in DgJobs,
           dgWorker' = [dgWorker EXCEPT ![w] = h]
    PROVE  dgWorker' \in [DgWorkers -> {g \in DgHand : g.phase # "idle" => g.job \in DgJobs}]
  BY DEF DgInv

LEMMA DgEndedKeeps ==
    ASSUME DgInv, NEW j \in DgJobs, NEW state \in DgStates \ {"running"}, dgJob' = DgEnded(j, state)
    PROVE  dgJob' \in [DgJobs -> DgWaited]
<1> DEFINE failed == [DgNoJob EXCEPT !.state = state, !.kind = dgJob[j].kind, !.scope = dgJob[j].scope]
           ended == [DgNoJob EXCEPT !.state = state]
<1>1. dgJob' = [dgJob EXCEPT ![j] = failed] \/ dgJob' = [dgJob EXCEPT ![j] = ended]
  BY Zenon DEF DgEnded
<1>2. dgJob[j].kind \in {"none", "export", "deletion", "region"} /\ dgJob[j].scope \in DgScopes
  BY DEF DgInv, DgWaited, DgRow
<1>3. ended \in DgWaited
  BY DEF DgNoJob, DgWaited, DgRow, DgScopes, DgStates
<1>4. failed \in DgWaited
  BY <1>2 DEF DgNoJob, DgWaited, DgRow, DgStates
<1> HIDE DEF failed, ended
<1> QED BY <1>1, <1>3, <1>4, DgWrites

LEMMA DgCreateKeeps ==
    ASSUME DgInv, NEW j \in DgJobs, NEW s \in DgOwners, NEW kind \in {"none", "export", "deletion", "region"},
           NEW sc \in DgScopes, DgCreate(j, s, kind, sc)
    PROVE  dgJob' \in [DgJobs -> DgWaited] /\ UNCHANGED <<dgWorker, dgErased>>
<1> DEFINE by == IF kind = "export" THEN DgNobody ELSE s
           state == IF kind = "export" THEN "queued" ELSE "awaiting_approval"
           row == [DgNoJob EXCEPT !.kind = kind, !.scope = sc, !.by = by, !.state = state]
<1>1. dgJob' = [dgJob EXCEPT ![j] = row] /\ UNCHANGED <<dgWorker, dgErased>>
  BY Zenon DEF DgCreate
<1>2. by \in DgOwners \cup {DgNobody} /\ state \in DgStates \ {"running"}
  BY DEF DgStates
<1> HIDE DEF by, state
<1>3. row \in DgWaited
  BY <1>2 DEF DgNoJob, DgWaited, DgRow
<1> HIDE DEF row
<1> QED BY <1>1, <1>3, DgWrites

\* An edit of some columns of a row.
LEMMA DgDecideKeeps ==
    ASSUME DgInv, NEW s \in DgOwners, NEW j \in DgJobs, NEW approves \in BOOLEAN, DecideDataGovernanceJob(s, j, approves)
    PROVE  dgJob' \in [DgJobs -> DgWaited] /\ UNCHANGED <<dgWorker, dgErased>>
<1>0. UNCHANGED <<dgWorker, dgErased>>
  BY DEF DecideDataGovernanceJob
<1>1. CASE ~approves
  <2>1. dgJob' = DgEnded(j, "rejected")
    BY <1>1, Zenon DEF DecideDataGovernanceJob
  <2> QED BY <2>1, <1>0, DgEndedKeeps DEF DgStates
<1>2. CASE approves
  <2> DEFINE window == IF dgJob[j].kind = "deletion" THEN "open" ELSE "none"
             row == [dgJob[j] EXCEPT !.state = "queued", !.by = DgNobody, !.window = window]
  <2>1. dgJob' = [dgJob EXCEPT ![j].state = "queued", ![j].by = DgNobody, ![j].window = window]
    BY <1>2, Zenon DEF DecideDataGovernanceJob
  <2>2. window \in {"none", "open", "closed"}
    OBVIOUS
  <2> HIDE DEF window
  <2>3. dgJob' = [dgJob EXCEPT ![j] = row]
    BY <2>1, Zenon DEF DgInv
  <2>4. dgJob[j] \in DgRow
    BY DEF DgInv, DgWaited
  <2>5. row \in DgWaited
    BY <2>2, <2>4 DEF DgWaited, DgRow, DgStates
  <2> HIDE DEF row
  <2> QED BY <2>3, <2>5, <1>0, DgWrites
<1> QED BY <1>1, <1>2

LEMMA DgClaimKeeps ==
    ASSUME DgInv, NEW w \in DgWorkers, NEW j \in DgJobs, ClaimDataGovernanceJob(w, j)
    PROVE  DgInv' /\ dgErased' = dgErased
<1>0. dgErased' = dgErased
  BY DEF ClaimDataGovernanceJob
<1>1. CASE dgJob' = DgEnded(j, "failed") /\ UNCHANGED dgWorker
  BY <1>0, <1>1, DgEndedKeeps DEF DgStates, DgInv
<1>2. CASE ~(dgJob' = DgEnded(j, "failed") /\ UNCHANGED dgWorker)
  <2> DEFINE n == dgJob[j].attempt
             attempt == IF dgJob[j].kind = "region" /\ n < RegionAttempts THEN n + 1 ELSE n
             row == [dgJob[j] EXCEPT !.state = "running", !.worker = w, !.live = TRUE, !.attempt = attempt]
             hand == [job |-> j, phase |-> "claimed"]
  <2>1. /\ dgJob' = [dgJob EXCEPT ![j].state = "running", ![j].worker = w, ![j].live = TRUE, ![j].attempt = attempt]
        /\ dgWorker' = [dgWorker EXCEPT ![w] = hand]
    BY <1>2, Zenon DEF ClaimDataGovernanceJob
  <2>2. dgJob[j] \in DgRow /\ n \in Nat
    BY DEF DgInv, DgWaited, DgRow
  <2>3. attempt \in Nat
    BY <2>2
  <2> HIDE DEF n, attempt
  <2>4. dgJob' = [dgJob EXCEPT ![j] = row]
    BY <2>1, Zenon DEF DgInv
  <2>5. dgJob[j].kind = "deletion" => dgJob[j].window = "closed"
    BY DEF ClaimDataGovernanceJob, DgInv, DgWaited
  <2>6. row \in DgWaited
    BY <2>2, <2>3, <2>5 DEF DgWaited, DgRow, DgStates
  <2>7. hand \in DgHand /\ hand.job = j
    BY DEF DgHand
  <2> HIDE DEF row, hand
  <2> QED BY <2>1, <2>4, <2>6, <2>7, <1>0, DgWrites, DgHands DEF DgInv
<1> QED BY <1>1, <1>2

LEMMA DgDoneKeeps ==
    ASSUME DgInv, NEW w \in DgWorkers, DgDone(w)
    PROVE  dgWorker' \in [DgWorkers -> {g \in DgHand : g.phase # "idle" => g.job \in DgJobs}]
  BY DgRowFacts, DgHands DEF DgDone

\* The job a worker owns is one of the jobs: it has it in hand.
LEMMA DgSettleKeeps ==
    ASSUME DgInv, NEW w \in DgWorkers, dgWorker[w].phase # "idle", NEW state \in DgStates \ {"running"}, DgSettle(w, state)
    PROVE  DgInv'
<1>1. dgWorker[w].job \in DgJobs
  BY DEF DgInv
<1>2. dgJob' = DgEnded(dgWorker[w].job, state) \/ dgJob' = dgJob
  BY Zenon DEF DgSettle
<1>3. dgJob' \in [DgJobs -> DgWaited]
  BY <1>1, <1>2, DgEndedKeeps DEF DgInv
<1> QED BY <1>3, DgDoneKeeps DEF DgSettle, DgInv

LEMMA DgReconcileKeeps ==
    ASSUME DgInv, NEW w \in DgWorkers, NEW answer, Reconcile(w, answer)
    PROVE  DgInv' /\ dgErased' = dgErased
<1> DEFINE j == dgWorker[w].job
           row == [dgJob[j] EXCEPT !.state = "queued", !.worker = DgNobody, !.live = FALSE]
<1>1. dgWorker[w].phase = "claimed" /\ DgDone(w) /\ dgErased' = dgErased
  BY DEF Reconcile
<1>2. j \in DgJobs /\ dgJob[j] \in DgRow
  BY <1>1 DEF DgInv, DgWaited
<1>3. \/ dgJob' = dgJob \/ dgJob' = DgEnded(j, "completed") \/ dgJob' = DgEnded(j, "failed")
      \/ dgJob' = [dgJob EXCEPT ![j].state = "queued", ![j].worker = DgNobody, ![j].live = FALSE]
  BY Zenon DEF Reconcile, DgDeferred
<1> HIDE DEF j
<1>4. CASE dgJob' = [dgJob EXCEPT ![j].state = "queued", ![j].worker = DgNobody, ![j].live = FALSE]
  <2>1. dgJob' = [dgJob EXCEPT ![j] = row]
    BY <1>4, <1>2, Zenon DEF DgInv
  <2>2. row \in DgWaited
    BY <1>2 DEF DgWaited, DgRow, DgStates
  <2> HIDE DEF row
  <2> QED BY <2>1, <2>2, <1>1, <1>2, DgWrites, DgDoneKeeps DEF DgInv
<1>5. CASE dgJob' = dgJob
  BY <1>5, <1>1, DgDoneKeeps DEF DgInv
<1>6. CASE dgJob' = DgEnded(j, "completed") \/ dgJob' = DgEnded(j, "failed")
  BY <1>6, <1>1, <1>2, DgEndedKeeps, DgDoneKeeps DEF DgInv, DgStates
<1> QED BY <1>3, <1>4, <1>5, <1>6

\* The deletion is carried out, found blocked or found lost: the row stays.
LEMMA DgExecuteKeeps ==
    ASSUME DgInv, NEW w \in DgWorkers, ExecuteDataGovernanceDeletion(w)
    PROVE  DgInv'
<1> DEFINE blocked == [dgWorker[w] EXCEPT !.phase = "blocked"]
           erased == [dgWorker[w] EXCEPT !.phase = "erased"]
<1>1. dgWorker[w].phase = "claimed" /\ dgJob' = dgJob
  BY DEF ExecuteDataGovernanceDeletion
<1>2. \/ dgWorker' = [dgWorker EXCEPT ![w] = DgIdle]
      \/ dgWorker' = [dgWorker EXCEPT ![w] = blocked]
      \/ dgWorker' = [dgWorker EXCEPT ![w] = erased]
  BY Zenon DEF ExecuteDataGovernanceDeletion
<1>3. dgWorker[w] \in DgHand /\ dgWorker[w].job \in DgJobs
  BY <1>1 DEF DgInv
<1>4. blocked \in DgHand /\ blocked.job = dgWorker[w].job /\ erased \in DgHand /\ erased.job = dgWorker[w].job
  BY <1>3 DEF DgHand
<1> HIDE DEF blocked, erased
<1> QED BY <1>1, <1>2, <1>3, <1>4, DgRowFacts, DgHands DEF DgInv

LEMMA DgStep == DgInv /\ [DgNext]_dgVars => DgInv'
<1> SUFFICES ASSUME DgInv, [DgNext]_dgVars PROVE DgInv'
  OBVIOUS
<1>0. CASE UNCHANGED <<dgJob, dgWorker>>
  BY <1>0 DEF DgInv
<1>1. ASSUME NEW s \in DgOwners, NEW j \in DgJobs, NEW kind \in {"export", "deletion", "region"}, NEW sc \in DgScopes,
             CreateDataGovernanceJob(j, s, kind, sc)
      PROVE  DgInv'
  BY <1>1, DgCreateKeeps DEF CreateDataGovernanceJob, DgInv
<1>2. ASSUME NEW s \in DgOwners, NEW j \in DgJobs, NEW i \in DgJobs, RetryDataGovernanceJob(j, s, i) PROVE DgInv'
  <2>1. DgCreate(j, s, dgJob[i].kind, dgJob[i].scope)
    BY <1>2 DEF RetryDataGovernanceJob
  <2>2. dgJob[i].kind \in {"none", "export", "deletion", "region"} /\ dgJob[i].scope \in DgScopes
    BY DEF DgInv, DgWaited, DgRow
  <2> QED BY <2>1, <2>2, DgCreateKeeps DEF DgInv
<1>3. ASSUME NEW s \in DgOwners, NEW j \in DgJobs, NEW approves \in BOOLEAN, DecideDataGovernanceJob(s, j, approves) PROVE DgInv'
  BY <1>3, DgDecideKeeps DEF DgInv
<1>4. ASSUME NEW j \in DgJobs, WindowCloses(j) PROVE DgInv'
  <2> DEFINE row == [dgJob[j] EXCEPT !.window = "closed"]
  <2>1. dgJob' = [dgJob EXCEPT ![j] = row] /\ dgWorker' = dgWorker
    BY <1>4, Zenon DEF WindowCloses
  <2>2. row \in DgWaited
    BY DEF DgInv, DgWaited, DgRow
  <2> HIDE DEF row
  <2> QED BY <2>1, <2>2, DgWrites DEF DgInv
<1>5. ASSUME NEW j \in DgJobs, CancelDataGovernanceJob(j) PROVE DgInv'
  BY <1>5, DgEndedKeeps DEF CancelDataGovernanceJob, DgStates, DgInv
<1>6. ASSUME NEW j \in DgJobs, DgLeaseLapses(j) PROVE DgInv'
  <2> DEFINE row == [dgJob[j] EXCEPT !.live = FALSE]
  <2>1. dgJob' = [dgJob EXCEPT ![j] = row] /\ dgWorker' = dgWorker
    BY <1>6, Zenon DEF DgLeaseLapses
  <2>r. dgJob[j] \in DgWaited /\ dgJob[j] \in DgRow
    BY DEF DgInv, DgWaited
  <2>f. row \in DgRow /\ row.kind = dgJob[j].kind /\ row.state = dgJob[j].state /\ row.window = dgJob[j].window
    BY <2>r DEF DgRow
  <2>2. row \in DgWaited
    <3> HIDE DEF row
    <3> QED BY <2>r, <2>f DEF DgWaited
  <2> HIDE DEF row
  <2> QED BY <2>1, <2>2, DgWrites DEF DgInv
<1>7. ASSUME NEW w \in DgWorkers, CompleteDataGovernanceOperation(w) \/ FailDataGovernanceJob(w)
                                   \/ \E built \in BOOLEAN : CompleteDataGovernanceExport(w, built)
      PROVE  DgInv'
  <2>1. dgWorker[w].phase # "idle" /\ \E state \in {"completed", "failed"} : DgSettle(w, state)
    BY <1>7 DEF CompleteDataGovernanceOperation, FailDataGovernanceJob, CompleteDataGovernanceExport
  <2> QED BY <2>1, DgSettleKeeps DEF DgStates
<1>8. ASSUME NEW w \in DgWorkers, DgCrash(w) PROVE DgInv'
  BY <1>8, DgDoneKeeps DEF DgCrash, DgInv
<1>9. CASE \/ \E s \in DgOwners : \/ \E days \in {1, 2} : CreateRetentionPolicy(s, days)
                                  \/ \E approves \in BOOLEAN : DecideRetentionPolicy(s, approves)
           \/ \E sc \in DgScopes : CreateDataLegalHold(sc) \/ ReleaseDataLegalHold(sc)
           \/ DataMoves \/ UNCHANGED dgVars
  <2>1. UNCHANGED <<dgJob, dgWorker>>
    BY <1>9, Zenon DEF CreateRetentionPolicy, DecideRetentionPolicy, CreateDataLegalHold, ReleaseDataLegalHold, DataMoves, dgVars
  <2> QED BY <2>1, <1>0
<1> QED BY <1>1, <1>2, <1>3, <1>4, <1>5, <1>6, <1>7, <1>8, <1>9, DgClaimKeeps, DgExecuteKeeps, DgReconcileKeeps, Zenon DEF DgNext

\* Only a deletion erases, and it looks for holds itself.
LEMMA DgKept == DgInv /\ [DgNext]_dgVars => HeldScopeIsKept
<1> SUFFICES ASSUME DgInv, [DgNext]_dgVars, dgErased' # dgErased
             PROVE  \E j \in DgJobs : /\ dgJob[j].kind = "deletion" /\ dgJob[j].state = "running"
                                      /\ dgJob[j].window = "closed"
                                      /\ dgErased' = dgErased \cup DgCovered(dgJob[j].scope)
                                      /\ dgHolds \cap {"tenant", dgJob[j].scope} = {}
  BY Zenon DEF HeldScopeIsKept
<1>1. PICK w \in DgWorkers : ExecuteDataGovernanceDeletion(w)
  BY ZenonT(40) DEF DgNext, dgVars, CreateRetentionPolicy, DecideRetentionPolicy, CreateDataLegalHold, ReleaseDataLegalHold,
     DataMoves, CreateDataGovernanceJob, RetryDataGovernanceJob, DgCreate, DecideDataGovernanceJob, WindowCloses,
     CancelDataGovernanceJob, DgLeaseLapses, ClaimDataGovernanceJob, CompleteDataGovernanceOperation,
     FailDataGovernanceJob, CompleteDataGovernanceExport, Reconcile, DgCrash
<1> DEFINE j == dgWorker[w].job
<1>2. /\ dgWorker[w].phase = "claimed" /\ dgJob[j].kind = "deletion"
      /\ DgOwns(w) /\ ~matchingLegalHold(dgJob[j].scope)
      /\ dgErased' = dgErased \cup DgCovered(dgJob[j].scope)
  BY <1>1, Zenon DEF ExecuteDataGovernanceDeletion
<1>3. j \in DgJobs /\ dgJob[j].state = "running"
  BY <1>2 DEF DgInv, DgOwns
<1>4. dgJob[j].window = "closed"
  BY <1>2, <1>3 DEF DgInv, DgWaited
<1>5. dgHolds \cap {"tenant", dgJob[j].scope} = {}
  BY <1>2 DEF matchingLegalHold
<1> QED BY <1>2, <1>3, <1>4, <1>5

-----------------------------------------------------------------------------
(* ReviewPolicy.                                                           *)

RcAnyContent ==
    (UNION {RcContents(se) : se \in RcSections}) \cup {DefaultReviewConfig[se] : se \in RcSections} \cup {0, 1}
RcConfigRow == [active : BOOLEAN, rev : Nat, content : RcAnyContent]
RcChangeRow == [state : {"none", "pending", "approved", "rejected", "superseded"}, rev : Nat, op : {"upsert", "restore"},
                content : RcAnyContent, by : RcPeople \cup {RcNobody}, decided : RcPeople \cup {RcNobody}]
RcRunRow == [state : {"none", "deciding", "admitted", "publishing", "gated"}, read : RcAnyContent,
             snapshot : [RcSections -> RcAnyContent] \cup {DefaultReviewConfig}, floor : Nat, published : SUBSET RcFindings]

RcTypeOK ==
    /\ rcRow \in [RcScopes -> [RcSections -> RcConfigRow]]
    /\ rcChange \in [RcScopes -> RcChangeRow]
    /\ rcRun \in RcRunRow
    /\ rcFloor \in Nat

\* A pending request names a revision of the route that was there; while it is
\* still the newest, a request to inherit carries that route's content.
RcPendingFits ==
    \A sc \in RcScopes : rcChange[sc].state = "pending" =>
        /\ rcChange[sc].rev <= rcRow[sc]["models"].rev
        /\ rcChange[sc].op = "restore" /\ rcChange[sc].rev = rcRow[sc]["models"].rev
             => rcChange[sc].content = rcRow[sc]["models"].content

\* What is published is what the frozen policy of the run lets through.
RcPublished ==
    rcRun.state \in {"publishing", "gated"} =>
        rcRun.published = FilterFindingsByPublicationMinimum(FilterFindings(RcFindings))

RcInv == RcTypeOK /\ RcPendingFits /\ RcPublished

LEMMA RcContentFacts ==
    /\ \A se \in RcSections : DefaultReviewConfig[se] \in RcAnyContent /\ RcContents(se) \subseteq RcAnyContent
    /\ "general" \in RcSections /\ "models" \in RcSections /\ {0, 1} \subseteq RcAnyContent
<1>1. \A se \in RcSections : DefaultReviewConfig[se] \in RcAnyContent
  <2> TAKE se \in RcSections
  <2>1. DefaultReviewConfig[se] \in {DefaultReviewConfig[t] : t \in RcSections}
    OBVIOUS
  <2> QED BY <2>1, Zenon DEF RcAnyContent
<1>2. \A se \in RcSections : RcContents(se) \subseteq RcAnyContent
  BY Zenon DEF RcAnyContent
<1>3. "general" \in RcSections /\ "models" \in RcSections
  BY DEF RcSections
<1>4. {0, 1} \subseteq RcAnyContent
  BY Zenon DEF RcAnyContent
<1> QED BY <1>1, <1>2, <1>3, <1>4

LEMMA RcRunFacts == RcNoRun \in RcRunRow /\ RcNoRun.state = "none"
<1> DEFINE read == DefaultReviewConfig["general"]
<1>1. read \in RcAnyContent
  BY RcContentFacts, Zenon
<1>2. RcNoRun = [state |-> "none", read |-> read, snapshot |-> DefaultReviewConfig, floor |-> 0, published |-> {}]
  BY Zenon DEF RcNoRun
<1> HIDE DEF read
<1>3. DefaultReviewConfig \in [RcSections -> RcAnyContent] \cup {DefaultReviewConfig}
  BY Zenon
<1> QED BY <1>1, <1>2, <1>3 DEF RcRunRow

LEMMA RcInitInv == RcInit => RcInv
<1> SUFFICES ASSUME RcInit PROVE RcInv
  OBVIOUS
<1>1. PICK legacy \in BOOLEAN :
         rcRow = [sc \in RcScopes |-> [se \in RcSections |->
                    IF legacy /\ sc = "legacy" /\ se = "models"
                      THEN [active |-> TRUE, rev |-> 1, content |-> 1] ELSE RcNoRow(se)]]
  BY Zenon DEF RcInit
<1>3. [active |-> TRUE, rev |-> 1, content |-> 1] \in RcConfigRow
  BY RcContentFacts DEF RcConfigRow
<1>4. \A se \in RcSections : RcNoRow(se) \in RcConfigRow
  <2> TAKE se \in RcSections
  <2> DEFINE content == DefaultReviewConfig[se]
  <2>1. content \in RcAnyContent
    BY RcContentFacts, Zenon
  <2>2. RcNoRow(se) = [active |-> FALSE, rev |-> 0, content |-> content]
    BY Zenon DEF RcNoRow
  <2> HIDE DEF content
  <2> QED BY <2>1, <2>2 DEF RcConfigRow
<1>5. rcRow \in [RcScopes -> [RcSections -> RcConfigRow]]
  BY <1>1, <1>3, <1>4, Zenon
<1>6. RcNoChange \in RcChangeRow /\ RcNoChange.state = "none"
  BY RcContentFacts DEF RcNoChange, RcChangeRow
<1>7. RcTypeOK
  BY <1>5, <1>6, RcRunFacts DEF RcInit, RcTypeOK
<1>8. RcPendingFits
  BY <1>6 DEF RcInit, RcPendingFits
<1>9. RcPublished
  BY RcRunFacts DEF RcInit, RcPublished
<1> QED BY <1>7, <1>8, <1>9 DEF RcInv

\* One configuration row is written at a time.
LEMMA RcWrites ==
    ASSUME RcTypeOK, NEW sc \in RcScopes, NEW se \in RcSections, NEW row \in RcConfigRow,
           rcRow' = [rcRow EXCEPT ![sc][se] = row]
    PROVE  /\ rcRow' \in [RcScopes -> [RcSections -> RcConfigRow]]
           /\ rcRow'[sc][se] = row
           /\ \A t \in RcScopes, u \in RcSections : t # sc \/ u # se => rcRow'[t][u] = rcRow[t][u]
<1> DEFINE line == [rcRow[sc] EXCEPT ![se] = row]
<1>1. rcRow' = [rcRow EXCEPT ![sc] = line]
  OBVIOUS
<1>2. /\ line \in [RcSections -> RcConfigRow] /\ line[se] = row
      /\ \A u \in RcSections \ {se} : line[u] = rcRow[sc][u]
  BY DEF RcTypeOK
<1> HIDE DEF line
<1>3. /\ rcRow' \in [RcScopes -> [RcSections -> RcConfigRow]] /\ rcRow'[sc] = line
      /\ \A t \in RcScopes \ {sc} : rcRow'[t] = rcRow[t]
  BY <1>1, <1>2 DEF RcTypeOK
<1> QED BY <1>2, <1>3

\* A decision: what it makes of the request, and of the route.
LEMMA RcDecides ==
    ASSUME RcTypeOK, NEW s \in RcPeople, NEW sc \in RcScopes, NEW approves \in BOOLEAN,
           DecideReviewConfigChange(s, sc, approves)
    PROVE  LET c == rcChange[sc]  row == rcRow[sc]["models"]  new == rcChange'[sc]  after == rcRow'[sc]["models"] IN
           /\ c.state = "pending" /\ c.by # s /\ row.active
           /\ rcChange' \in [RcScopes -> RcChangeRow] /\ \A t \in RcScopes \ {sc} : rcChange'[t] = rcChange[t]
           /\ new.rev = c.rev /\ new.by = c.by /\ new.content = c.content /\ new.decided = s
           /\ new.state \in {"superseded", "approved", "rejected"}
           /\ rcRow' \in [RcScopes -> [RcSections -> RcConfigRow]]
           /\ \A t \in RcScopes, u \in RcSections : t # sc \/ u # "models" => rcRow'[t][u] = rcRow[t][u]
           /\ \/ after = row
              \/ /\ new.state = "approved" /\ row.rev = c.rev
                 /\ \/ c.op = "restore" /\ after.rev = row.rev /\ after.content = row.content
                    \/ after.content = c.content
<1> DEFINE c == rcChange[sc]
           row == rcRow[sc]["models"]
           state == IF row.rev # c.rev THEN "superseded" ELSE IF approves THEN "approved" ELSE "rejected"
           new == [c EXCEPT !.decided = s, !.state = state]
<1>1. c.state = "pending" /\ c.by # s /\ row.active
  BY DEF DecideReviewConfigChange
<1>2. c \in RcChangeRow /\ row \in RcConfigRow
  BY RcContentFacts DEF RcTypeOK
<1>3. rcChange' = [rcChange EXCEPT ![sc].decided = s, ![sc].state = state]
  BY Zenon DEF DecideReviewConfigChange
<1>4. state \in {"superseded", "approved", "rejected"}
  BY Zenon
<1>5. row.rev = c.rev /\ approves => state = "approved"
  BY Zenon
<1> HIDE DEF state
<1>6. rcChange' = [rcChange EXCEPT ![sc] = new]
  BY <1>3, Zenon DEF RcTypeOK
<1>7. /\ new \in RcChangeRow /\ new.rev = c.rev /\ new.by = c.by /\ new.content = c.content
      /\ new.decided = s /\ new.state = state
  <2> HIDE DEF c
  <2> QED BY <1>2, <1>4 DEF RcChangeRow
<1> HIDE DEF new
<1>8. rcChange' \in [RcScopes -> RcChangeRow] /\ rcChange'[sc] = new /\ \A t \in RcScopes \ {sc} : rcChange'[t] = rcChange[t]
  BY <1>6, <1>7 DEF RcTypeOK
<1> DEFINE restored == [row EXCEPT !.active = FALSE]
           n == row.rev + 1
           content == c.content
           updated == [row EXCEPT !.rev = n, !.content = content]
<1>9. \/ rcRow' = rcRow
      \/ /\ row.rev = c.rev /\ approves
         /\ \/ c.op = "restore" /\ rcRow' = [rcRow EXCEPT ![sc]["models"].active = FALSE]
            \/ rcRow' = [rcRow EXCEPT ![sc]["models"].rev = n, ![sc]["models"].content = content]
  <2> DEFINE back == [rcRow EXCEPT ![sc]["models"].active = FALSE]
             forth == [rcRow EXCEPT ![sc]["models"].rev = @ + 1, ![sc]["models"].content = c.content]
             keep == row.rev # c.rev \/ ~approves
  <2>1. rcRow' = IF keep THEN rcRow ELSE IF c.op = "restore" THEN back ELSE forth
    BY Zenon DEF DecideReviewConfigChange
  <2>2. forth = [rcRow EXCEPT ![sc]["models"].rev = n, ![sc]["models"].content = content]
    BY Zenon
  <2> HIDE DEF back, forth
  <2>3. rcRow' = rcRow \/ (~keep /\ ((c.op = "restore" /\ rcRow' = back) \/ rcRow' = forth))
    <3> HIDE DEF keep
    <3> QED BY <2>1, Zenon
  <2> QED BY <2>2, <2>3, Zenon DEF back
<1>10. n \in Nat /\ content \in RcAnyContent
  BY <1>2 DEF RcConfigRow, RcChangeRow
<1>m. "models" \in RcSections
  BY RcContentFacts
<1>11. CASE rcRow' = rcRow
  BY <1>1, <1>7, <1>8, <1>4, <1>11 DEF RcTypeOK
<1>12. CASE row.rev = c.rev /\ approves /\ c.op = "restore" /\ rcRow' = [rcRow EXCEPT ![sc]["models"].active = FALSE]
  <2>1. restored \in RcConfigRow /\ restored.rev = row.rev /\ restored.content = row.content
    <3> HIDE DEF row
    <3> QED BY <1>2 DEF RcConfigRow
  <2>2. rcRow' = [rcRow EXCEPT ![sc]["models"] = restored]
    BY <1>12, Zenon DEF RcTypeOK
  <2> HIDE DEF restored
  <2>3. /\ rcRow' \in [RcScopes -> [RcSections -> RcConfigRow]] /\ rcRow'[sc]["models"] = restored
        /\ \A t \in RcScopes, u \in RcSections : t # sc \/ u # "models" => rcRow'[t][u] = rcRow[t][u]
    BY <2>1, <2>2, <1>m, RcWrites, ZenonT(40)
  <2> QED BY <1>1, <1>4, <1>5, <1>7, <1>8, <1>12, <2>1, <2>3
<1>13. CASE row.rev = c.rev /\ approves /\ rcRow' = [rcRow EXCEPT ![sc]["models"].rev = n, ![sc]["models"].content = content]
  <2>1. updated \in RcConfigRow /\ updated.content = content
    <3> HIDE DEF row, n, content
    <3> QED BY <1>2, <1>10 DEF RcConfigRow
  <2>2. rcRow' = [rcRow EXCEPT ![sc]["models"] = updated]
    <3> HIDE DEF n, content
    <3> QED BY <1>13, <1>m, Zenon DEF RcTypeOK
  <2> HIDE DEF updated
  <2>3. /\ rcRow' \in [RcScopes -> [RcSections -> RcConfigRow]] /\ rcRow'[sc]["models"] = updated
        /\ \A t \in RcScopes, u \in RcSections : t # sc \/ u # "models" => rcRow'[t][u] = rcRow[t][u]
    BY <2>1, <2>2, <1>m, RcWrites, ZenonT(40)
  <2> QED BY <1>1, <1>4, <1>5, <1>7, <1>8, <1>13, <2>1, <2>3
<1> QED BY <1>9, <1>11, <1>12, <1>13

\* A direct save leaves an active route alone and moves the revision on.
LEMMA RcSaveKeeps ==
    ASSUME RcInv, NEW sc \in RcScopes, NEW se \in RcSections, NEW content \in RcContents(se), SaveReviewConfig(sc, se, content)
    PROVE  RcInv' /\ RouteChangesByTwo
<1> DEFINE n == rcRow[sc][se].rev + 1
           row == [active |-> TRUE, rev |-> n, content |-> content]
<1>1. /\ rcRow' = [rcRow EXCEPT ![sc][se] = row] /\ UNCHANGED <<rcChange, rcFloor, rcRun>>
      /\ ~(se = "models" /\ rcRow[sc][se].active)
  BY Zenon DEF SaveReviewConfig
<1>2. rcRow[sc][se] \in RcConfigRow /\ rcRow[sc][se].rev \in Nat
  BY DEF RcInv, RcTypeOK, RcConfigRow
<1>3. n \in Nat /\ content \in RcAnyContent
  BY <1>2, RcContentFacts
<1>n. n > rcRow[sc][se].rev
  BY <1>2
<1>r. \A t \in RcScopes : rcChange[t].rev \in Nat
  BY DEF RcInv, RcTypeOK, RcChangeRow
<1> HIDE DEF n
<1>4. row \in RcConfigRow /\ row.rev = n
  BY <1>3 DEF RcConfigRow
<1> HIDE DEF row
<1>t. RcTypeOK
  BY DEF RcInv
<1>w. rcRow' = [rcRow EXCEPT ![sc][se] = row]
  BY <1>1
<1>5. /\ rcRow' \in [RcScopes -> [RcSections -> RcConfigRow]] /\ rcRow'[sc][se] = row
      /\ \A t \in RcScopes, u \in RcSections : t # sc \/ u # se => rcRow'[t][u] = rcRow[t][u]
  BY <1>t, <1>w, <1>4, RcWrites, ZenonT(40)
<1>6. RcTypeOK'
  BY <1>1, <1>5 DEF RcInv, RcTypeOK
<1>7. RcPendingFits'
  <2> SUFFICES ASSUME NEW t \in RcScopes, rcChange[t].state = "pending"
               PROVE  /\ rcChange[t].rev <= rcRow'[t]["models"].rev
                      /\ rcChange[t].op = "restore" /\ rcChange[t].rev = rcRow'[t]["models"].rev
                           => rcChange[t].content = rcRow'[t]["models"].content
    BY <1>1 DEF RcPendingFits
  <2>1. CASE t # sc \/ se # "models"
    <3>1. rcRow'[t]["models"] = rcRow[t]["models"]
      BY <2>1, <1>5, RcContentFacts
    <3> QED BY <3>1 DEF RcInv, RcPendingFits
  <2>2. CASE t = sc /\ se = "models"
    <3>1. rcChange[t].rev <= rcRow[sc][se].rev
      BY <2>2 DEF RcInv, RcPendingFits
    <3>2. rcRow'[t]["models"].rev = n
      BY <2>2, <1>5, <1>4
    <3> QED BY <3>1, <3>2, <1>2, <1>3, <1>n, <1>r
  <2> QED BY <2>1, <2>2
<1>8. RcPublished'
  BY <1>1 DEF RcInv, RcPublished, FilterFindingsByPublicationMinimum, FilterFindings
<1>9. \A t \in RcScopes : rcRow[t]["models"].active => rcRow'[t]["models"] = rcRow[t]["models"]
  BY <1>1, <1>5, RcContentFacts
<1> QED BY <1>6, <1>7, <1>8, <1>9 DEF RcInv, RouteChangesByTwo

\* The other writers of configuration do not touch a route.
LEMMA RcRestoreKeeps ==
    ASSUME RcInv, NEW sc \in RcScopes, NEW se \in RcSections, RestoreInheritedReviewConfig(sc, se)
    PROVE  RcInv' /\ RouteChangesByTwo
<1> DEFINE row == [rcRow[sc][se] EXCEPT !.active = FALSE]
<1>1. /\ rcRow' = [rcRow EXCEPT ![sc][se] = row] /\ UNCHANGED <<rcChange, rcFloor, rcRun>> /\ se # "models"
  BY Zenon DEF RestoreInheritedReviewConfig
<1>2. rcRow[sc][se] \in RcConfigRow
  BY DEF RcInv, RcTypeOK
<1>4. row \in RcConfigRow
  BY <1>2 DEF RcConfigRow
<1> HIDE DEF row
<1>t. RcTypeOK
  BY DEF RcInv
<1>w. rcRow' = [rcRow EXCEPT ![sc][se] = row]
  BY <1>1
<1>5. /\ rcRow' \in [RcScopes -> [RcSections -> RcConfigRow]]
      /\ \A t \in RcScopes, u \in RcSections : t # sc \/ u # se => rcRow'[t][u] = rcRow[t][u]
  BY <1>t, <1>w, <1>4, RcWrites, ZenonT(40)
<1>6. \A t \in RcScopes : rcRow'[t]["models"] = rcRow[t]["models"]
  BY <1>1, <1>5, RcContentFacts
<1>7. RcTypeOK'
  BY <1>1, <1>5 DEF RcInv, RcTypeOK
<1>8. RcPendingFits'
  BY <1>1, <1>6 DEF RcInv, RcPendingFits
<1>9. RcPublished'
  BY <1>1 DEF RcInv, RcPublished, FilterFindingsByPublicationMinimum, FilterFindings
<1> QED BY <1>6, <1>7, <1>8, <1>9 DEF RcInv, RouteChangesByTwo

LEMMA RcRequestKeeps ==
    ASSUME RcInv, NEW s \in RcPeople, NEW sc \in RcScopes, NEW op \in {"upsert", "restore"},
           NEW content \in RcContents("models"), RequestReviewConfigChange(s, sc, op, content)
    PROVE  RcInv' /\ RouteChangesByTwo
<1> DEFINE row == rcRow[sc]["models"]
           n == row.rev
           c == [state |-> "pending", rev |-> n, op |-> op, content |-> content, by |-> s, decided |-> RcNobody]
<1>1. /\ rcChange' = [rcChange EXCEPT ![sc] = c] /\ UNCHANGED <<rcRow, rcFloor, rcRun>>
      /\ op = "restore" => content = row.content
  BY DEF RequestReviewConfigChange
<1>2. row \in RcConfigRow /\ n \in Nat /\ content \in RcAnyContent
  BY RcContentFacts DEF RcInv, RcTypeOK, RcConfigRow
<1> HIDE DEF n
<1>3. c \in RcChangeRow /\ c.rev = n /\ c.op = op /\ c.content = content
  BY <1>2 DEF RcChangeRow
<1> HIDE DEF c
<1>4. rcChange' \in [RcScopes -> RcChangeRow] /\ rcChange'[sc] = c /\ \A t \in RcScopes \ {sc} : rcChange'[t] = rcChange[t]
  BY <1>1, <1>3 DEF RcInv, RcTypeOK
<1>5. RcTypeOK'
  BY <1>1, <1>4 DEF RcInv, RcTypeOK
<1>6. RcPendingFits'
  <2> SUFFICES ASSUME NEW t \in RcScopes, rcChange'[t].state = "pending"
               PROVE  /\ rcChange'[t].rev <= rcRow[t]["models"].rev
                      /\ rcChange'[t].op = "restore" /\ rcChange'[t].rev = rcRow[t]["models"].rev
                           => rcChange'[t].content = rcRow[t]["models"].content
    BY <1>1 DEF RcPendingFits
  <2>1. CASE t # sc
    BY <2>1, <1>4 DEF RcInv, RcPendingFits
  <2>2. CASE t = sc
    BY <2>2, <1>1, <1>2, <1>3, <1>4 DEF n
  <2> QED BY <2>1, <2>2
<1>7. RcPublished'
  BY <1>1 DEF RcInv, RcPublished, FilterFindingsByPublicationMinimum, FilterFindings
<1> QED BY <1>1, <1>5, <1>6, <1>7 DEF RcInv, RouteChangesByTwo

\* A decision applies a request to the revision it named, by another person.
LEMMA RcDecideKeeps ==
    ASSUME RcInv, NEW s \in RcPeople, NEW sc \in RcScopes, NEW approves \in BOOLEAN,
           DecideReviewConfigChange(s, sc, approves)
    PROVE  RcInv' /\ RouteChangesByTwo
<1> DEFINE c == rcChange[sc]
           row == rcRow[sc]["models"]
           new == rcChange'[sc]
           after == rcRow'[sc]["models"]
<1>0. RcTypeOK
  BY DEF RcInv
<1>1. /\ c.state = "pending" /\ c.by # s /\ row.active
      /\ rcChange' \in [RcScopes -> RcChangeRow] /\ \A t \in RcScopes \ {sc} : rcChange'[t] = rcChange[t]
      /\ new.rev = c.rev /\ new.by = c.by /\ new.content = c.content /\ new.decided = s
      /\ new.state \in {"superseded", "approved", "rejected"}
      /\ rcRow' \in [RcScopes -> [RcSections -> RcConfigRow]]
      /\ \A t \in RcScopes, u \in RcSections : t # sc \/ u # "models" => rcRow'[t][u] = rcRow[t][u]
  BY <1>0, RcDecides
<1>2. \/ after = row
      \/ /\ new.state = "approved" /\ row.rev = c.rev
         /\ \/ c.op = "restore" /\ after.rev = row.rev /\ after.content = row.content
            \/ after.content = c.content
  BY <1>0, RcDecides
<1>3. rcFloor' = rcFloor /\ rcRun' = rcRun
  BY DEF DecideReviewConfigChange
<1>4. RcTypeOK'
  BY <1>1, <1>3 DEF RcInv, RcTypeOK
<1>5. \A t \in RcScopes \ {sc} : rcRow'[t]["models"] = rcRow[t]["models"]
  BY <1>1, RcContentFacts
<1>6. RcPendingFits'
  <2> SUFFICES ASSUME NEW t \in RcScopes, rcChange'[t].state = "pending"
               PROVE  /\ rcChange'[t].rev <= rcRow'[t]["models"].rev
                      /\ rcChange'[t].op = "restore" /\ rcChange'[t].rev = rcRow'[t]["models"].rev
                           => rcChange'[t].content = rcRow'[t]["models"].content
    BY DEF RcPendingFits
  <2>1. t # sc
    BY <1>1
  <2> QED BY <2>1, <1>1, <1>5 DEF RcInv, RcPendingFits
<1>7. RcPublished'
  BY <1>3 DEF RcInv, RcPublished, FilterFindingsByPublicationMinimum, FilterFindings
<1>8. ASSUME after # row
      PROVE  /\ new.state = "approved" /\ new.rev = row.rev /\ new.decided \notin {new.by, RcNobody}
             /\ after.content = new.content
  <2>1. s # RcNobody
    BY PolicyAssumption DEF RcNobody
  <2>2. new.state = "approved" /\ row.rev = c.rev
    BY <1>2, <1>8
  <2>3. after.content = c.content
    BY <1>1, <1>2, <1>8, <2>2 DEF RcInv, RcPendingFits
  <2> QED BY <1>1, <2>1, <2>2, <2>3
<1>9. RouteChangesByTwo
  BY <1>1, <1>5, <1>8, Zenon DEF RouteChangesByTwo
<1> QED BY <1>4, <1>6, <1>7, <1>9 DEF RcInv

LEMMA RcResolves ==
    ASSUME RcTypeOK, NEW se \in RcSections
    PROVE  resolveEffectiveReviewConfiguration(se) \in RcAnyContent
<1>1. \A sc \in RcScopes : rcRow[sc][se].content \in RcAnyContent
  BY DEF RcTypeOK, RcConfigRow
<1>2. {"repository", "legacy", "tenant"} \subseteq RcScopes
  BY DEF RcScopes
<1>3. resolveEffectiveReviewConfiguration(se) \in
        {rcRow["repository"][se].content, rcRow["legacy"][se].content, rcRow["tenant"][se].content, DefaultReviewConfig[se]}
  BY Zenon DEF resolveEffectiveReviewConfiguration
<1>4. DefaultReviewConfig[se] \in RcAnyContent
  BY RcContentFacts, Zenon
<1> QED BY <1>1, <1>2, <1>3, <1>4

\* A step of the run alone: the routes stay, and what is published is kept.
LEMMA RcRunMoves ==
    ASSUME RcInv, UNCHANGED <<rcRow, rcChange>>, rcFloor' \in Nat, rcRun' \in RcRunRow, RcPublished'
    PROVE  RcInv' /\ RouteChangesByTwo
<1>1. RcTypeOK' /\ RcPendingFits'
  BY DEF RcInv, RcTypeOK, RcPendingFits
<1> QED BY <1>1 DEF RcInv, RouteChangesByTwo

LEMMA RcRunKeeps ==
    ASSUME RcInv, \/ \E f \in {1, 3} : UpdatePublicationFloor(f)
                  \/ DecideAdmission \/ snapshotReviewConfigurations
                  \/ PublishFindings \/ completeSuccessfulReview \/ RcNextReview
                  \/ UNCHANGED rcVars
    PROVE  RcInv' /\ RouteChangesByTwo
<1>0. RcTypeOK /\ rcRun \in RcRunRow /\ rcFloor \in Nat
  BY DEF RcInv, RcTypeOK
<1>1. CASE (\E f \in {1, 3} : UpdatePublicationFloor(f)) \/ UNCHANGED rcVars
  <2>1. UNCHANGED <<rcRow, rcChange, rcRun>> /\ (rcFloor' = rcFloor \/ rcFloor' \in {1, 3})
    BY <1>1 DEF UpdatePublicationFloor, rcVars
  <2>2. rcFloor' \in Nat
    BY <2>1, <1>0
  <2>3. RcPublished'
    BY <2>1 DEF RcInv, RcPublished, FilterFindingsByPublicationMinimum, FilterFindings
  <2> QED BY <2>1, <2>2, <2>3, <1>0, RcRunMoves
<1>2. CASE DecideAdmission
  <2> DEFINE general == resolveEffectiveReviewConfiguration("general")
             run == [RcNoRun EXCEPT !.state = "deciding", !.read = general]
  <2>1. rcRun' = run /\ UNCHANGED <<rcRow, rcChange, rcFloor>>
    BY <1>2, Zenon DEF DecideAdmission
  <2>2. general \in RcAnyContent
    BY <1>0, RcResolves, RcContentFacts
  <2> HIDE DEF general
  <2>3. run \in RcRunRow /\ run.state = "deciding"
    BY <2>2, RcRunFacts DEF RcRunRow
  <2> HIDE DEF run
  <2>4. RcPublished'
    BY <2>1, <2>3 DEF RcPublished
  <2> QED BY <2>1, <2>3, <2>4, <1>0, RcRunMoves
<1>3. CASE snapshotReviewConfigurations
  <2> DEFINE snapshot == [se \in RcSections |-> resolveEffectiveReviewConfiguration(se)]
             run == [rcRun EXCEPT !.state = "admitted", !.floor = rcFloor, !.snapshot = snapshot]
  <2>1. rcRun' = run /\ UNCHANGED <<rcRow, rcChange, rcFloor>>
    BY <1>3, Zenon DEF snapshotReviewConfigurations, snapshot_review_publication_minimum
  <2>2. snapshot \in [RcSections -> RcAnyContent]
    BY <1>0, RcResolves
  <2> HIDE DEF snapshot
  <2>3. run \in RcRunRow /\ run.state = "admitted"
    BY <2>2, <1>0 DEF RcRunRow
  <2> HIDE DEF run
  <2>4. RcPublished'
    BY <2>1, <2>3 DEF RcPublished
  <2> QED BY <2>1, <2>3, <2>4, <1>0, RcRunMoves
<1>4. CASE PublishFindings
  <2> DEFINE published == FilterFindingsByPublicationMinimum(FilterFindings(RcFindings))
             run == [rcRun EXCEPT !.state = "publishing", !.published = published]
  <2>1. rcRun' = run /\ UNCHANGED <<rcRow, rcChange, rcFloor>>
    BY <1>4, Zenon DEF PublishFindings
  <2>2. published \in SUBSET RcFindings
    BY DEF FilterFindingsByPublicationMinimum, FilterFindings
  <2>p. published = FilterFindingsByPublicationMinimum(FilterFindings(RcFindings))
    OBVIOUS
  <2> HIDE DEF published
  <2>3. /\ run \in RcRunRow /\ run.published = published
        /\ run.snapshot = rcRun.snapshot /\ run.floor = rcRun.floor
    BY <2>2, <1>0 DEF RcRunRow
  <2> HIDE DEF run
  <2>4. RcPublished'
    BY <2>1, <2>3, <2>p, Zenon DEF RcPublished, FilterFindingsByPublicationMinimum, FilterFindings
  <2> QED BY <2>1, <2>3, <2>4, <1>0, RcRunMoves
<1>5. CASE completeSuccessfulReview
  <2> DEFINE run == [rcRun EXCEPT !.state = "gated"]
  <2>1. rcRun' = run /\ UNCHANGED <<rcRow, rcChange, rcFloor>> /\ rcRun.state = "publishing"
    BY <1>5 DEF completeSuccessfulReview
  <2>3. /\ run \in RcRunRow /\ run.published = rcRun.published
        /\ run.snapshot = rcRun.snapshot /\ run.floor = rcRun.floor
    BY <1>0 DEF RcRunRow
  <2> HIDE DEF run
  <2>p. rcRun.published = FilterFindingsByPublicationMinimum(FilterFindings(RcFindings))
    BY <2>1 DEF RcInv, RcPublished
  <2>4. RcPublished'
    BY <2>1, <2>3, <2>p, Zenon DEF RcPublished, FilterFindingsByPublicationMinimum, FilterFindings
  <2> QED BY <2>1, <2>3, <2>4, <1>0, RcRunMoves
<1>6. CASE RcNextReview
  <2>1. rcRun' = RcNoRun /\ UNCHANGED <<rcRow, rcChange, rcFloor>>
    BY <1>6 DEF RcNextReview
  <2>2. RcPublished'
    BY <2>1, RcRunFacts DEF RcPublished
  <2> QED BY <2>1, <2>2, <1>0, RcRunFacts, RcRunMoves
<1> QED BY <1>1, <1>2, <1>3, <1>4, <1>5, <1>6

LEMMA RcStep == RcInv /\ [RcNext]_rcVars => RcInv' /\ RouteChangesByTwo
  BY RcSaveKeeps, RcRestoreKeeps, RcRequestKeeps, RcDecideKeeps, RcRunKeeps, Zenon DEF RcNext

\* The floor lets every finding through that blocks.
LEMMA RcBlockingShown == RcInv => BlockingFindingIsPublished
<1> SUFFICES ASSUME RcInv, rcRun.state = "gated"
             PROVE  EvaluateMergeGate(FilterFindings(RcFindings)) \subseteq rcRun.published
  BY DEF BlockingFindingIsPublished
<1> DEFINE blocking == rcRun.snapshot["general"].blocking
           found == FilterFindings(RcFindings)
<1>1. rcRun.published = FilterFindingsByPublicationMinimum(found)
  BY DEF RcInv, RcPublished
<1>2. \A f \in EvaluateMergeGate(found) : f \in found /\ blocking # 0 /\ f.rank >= blocking
  BY Zenon DEF EvaluateMergeGate
<1>3. \A f \in found : blocking # 0 /\ f.rank >= blocking => f \in FilterFindingsByPublicationMinimum(found)
  BY Zenon DEF FilterFindingsByPublicationMinimum
<1> HIDE DEF blocking
<1> QED BY <1>1, <1>2, <1>3, Zenon

-----------------------------------------------------------------------------
(* RuleRollout.                                                            *)

RlRow == [state : {"none", RlPending, "success", "failed", "blocked"}, fresh : BOOLEAN, lost : BOOLEAN]
RlCanaryRow == [state : {"none", "active", "paused", "rolled_back", "promoted"}, by : Managers \cup {RlNobody}, stage : Nat]

RlTypeOK ==
    /\ rlRuns \in [RlRunIds -> RlRow]
    /\ rlCanary \in RlCanaryRow
    /\ rlAdmission \in {"none", "since", "before"}

\* A run that has not ended well is seen by the stage or was lost to one.
RlSeen(row) == row.state \in {"none", "success"} \/ row.fresh \/ row.lost

RlInv ==
    /\ RlTypeOK
    /\ \A r \in RlRunIds : RlSeen(rlRuns[r])
    /\ PromotedWasClean

LEMMA RlNoRunFacts == RlNoRun \in RlRow /\ RlNoRun.state = "none"
  BY DEF RlNoRun, RlRow

LEMMA RlInitInv == RlInit => RlInv
<1> SUFFICES ASSUME RlInit PROVE RlInv
  OBVIOUS
<1>1. rlCanary \in RlCanaryRow /\ rlCanary.state = "none"
  BY DEF RlInit, RlCanaryRow
<1> QED BY <1>1, RlNoRunFacts DEF RlInit, RlInv, RlTypeOK, RlSeen, PromotedWasClean

\* A step of the other rows.
LEMMA RlQuiet ==
    ASSUME RlInv, UNCHANGED <<rlRuns, rlCanary>>, rlAdmission' \in {"none", "since", "before"}
    PROVE  RlInv'
  BY DEF RlInv, RlTypeOK, PromotedWasClean

\* updated_at moves on: what is left of the runs was lost, unless the stage
\* had clean evidence and saw them.
LEMMA RlMovedKeeps ==
    ASSUME RlInv, NEW unasked \in BOOLEAN, RlMoved(unasked), unasked \/ canaryStageEvidence
    PROVE  /\ rlRuns' \in [RlRunIds -> RlRow] /\ rlAdmission' \in {"none", "since", "before"}
           /\ \A r \in RlRunIds : rlRuns'[r].state \in {"none", "success"} \/ rlRuns'[r].lost
<1>1. rlAdmission' \in {"none", "since", "before"}
  BY DEF RlMoved, RlInv, RlTypeOK
<1>2. ASSUME NEW r \in RlRunIds
      PROVE  rlRuns'[r] \in RlRow /\ (rlRuns'[r].state \in {"none", "success"} \/ rlRuns'[r].lost)
  <2> DEFINE lost == rlRuns[r].lost \/ unasked
             row == [rlRuns[r] EXCEPT !.fresh = FALSE, !.lost = lost]
  <2>1. rlRuns[r] \in RlRow
    BY DEF RlInv, RlTypeOK
  <2>2. CASE rlRuns[r].state \in {"none", "success"}
    BY <2>2, RlNoRunFacts DEF RlMoved
  <2>3. CASE rlRuns[r].state \notin {"none", "success"}
    <3>1. rlRuns'[r] = row
      BY <2>3, Zenon DEF RlMoved
    <3>2. rlRuns[r].lost \in BOOLEAN /\ rlRuns[r].fresh \in BOOLEAN
      BY <2>1 DEF RlRow
    <3>3. unasked \/ ~rlRuns[r].fresh
      BY <2>3, <2>1, <3>2 DEF canaryStageEvidence, RlStageRuns, RlRow
    <3>4. lost = TRUE
      BY <2>3, <3>2, <3>3 DEF RlInv, RlSeen
    <3> HIDE DEF lost
    <3>5. row \in RlRow /\ row.lost = TRUE
      BY <2>1, <3>4 DEF RlRow
    <3> QED BY <3>1, <3>5
  <2> QED BY <2>2, <2>3
<1>3. rlRuns' = [r \in RlRunIds |-> rlRuns'[r]]
  BY DEF RlMoved
<1> QED BY <1>1, <1>2, <1>3

LEMMA RlCanaryMoves ==
    ASSUME RlInv, NEW unasked \in BOOLEAN, RlMoved(unasked), unasked \/ canaryStageEvidence, rlCanary' \in RlCanaryRow
    PROVE  RlInv'
<1>1. /\ rlRuns' \in [RlRunIds -> RlRow] /\ rlAdmission' \in {"none", "since", "before"}
      /\ \A r \in RlRunIds : rlRuns'[r].state \in {"none", "success"} \/ rlRuns'[r].lost
  BY RlMovedKeeps
<1> QED BY <1>1 DEF RlInv, RlTypeOK, RlSeen, PromotedWasClean

\* An admitted run is seen, or known to be lost; it is admitted only while the
\* canary is active.
LEMMA RlAdmitKeeps ==
    ASSUME RlInv, loadActiveCanaryRuleBindings
    PROVE  RlInv'
<1> DEFINE since == rlAdmission = "since"
           before == rlAdmission = "before"
           row == [state |-> RlPending, fresh |-> since, lost |-> before]
<1>1. rlCanary' = rlCanary /\ rlAdmission' = "none"
  BY DEF loadActiveCanaryRuleBindings
<1>2. rlRuns' = rlRuns \/ (rlCanary.state = "active" /\ rlRuns' = [rlRuns EXCEPT ![RlFreeRun] = row])
  BY Zenon DEF loadActiveCanaryRuleBindings
<1>3. CASE rlRuns' = rlRuns
  BY <1>1, <1>3, RlQuiet
<1>4. CASE rlCanary.state = "active" /\ rlRuns' = [rlRuns EXCEPT ![RlFreeRun] = row]
  <2>1. since \/ before
    BY DEF loadActiveCanaryRuleBindings, RlInv, RlTypeOK
  <2>2. since \in BOOLEAN /\ before \in BOOLEAN
    OBVIOUS
  <2> HIDE DEF since, before
  <2>3. row \in RlRow /\ RlSeen(row)
    BY <2>1, <2>2 DEF RlRow, RlSeen
  <2> HIDE DEF row
  <2>4. /\ rlRuns' \in [RlRunIds -> RlRow]
        /\ \A r \in RlRunIds : rlRuns'[r] = row \/ rlRuns'[r] = rlRuns[r]
    BY <1>4, <2>3 DEF RlInv, RlTypeOK
  <2>5. \A r \in RlRunIds : RlSeen(rlRuns[r])'
    BY <2>3, <2>4 DEF RlInv, RlSeen
  <2> QED BY <1>1, <1>4, <2>4, <2>5 DEF RlInv, RlTypeOK, PromotedWasClean
<1> QED BY <1>2, <1>3, <1>4

LEMMA RlEndKeeps ==
    ASSUME RlInv, NEW r \in RlRunIds, NEW state \in {"success", "failed", "blocked", "void"}, RlRunEnds(r, state)
    PROVE  RlInv'
<1> DEFINE row == [rlRuns[r] EXCEPT !.state = state]
<1>1. UNCHANGED <<rlCanary, rlAdmission>> /\ rlRuns[r].state = RlPending
  BY DEF RlRunEnds
<1>2. rlRuns' = [rlRuns EXCEPT ![r] = RlNoRun] \/ (state # "void" /\ rlRuns' = [rlRuns EXCEPT ![r] = row])
  BY Zenon DEF RlRunEnds
<1>3. rlRuns[r] \in RlRow
  BY DEF RlInv, RlTypeOK
<1>4. state # "void" => row \in RlRow /\ row.fresh = rlRuns[r].fresh /\ row.lost = rlRuns[r].lost
  BY <1>3 DEF RlRow
<1> HIDE DEF row
<1>5. PICK new \in RlRow : /\ rlRuns' = [rlRuns EXCEPT ![r] = new]
                           /\ new.state = "none" \/ (new.fresh = rlRuns[r].fresh /\ new.lost = rlRuns[r].lost)
  BY <1>2, <1>4, RlNoRunFacts
<1>6. /\ rlRuns' \in [RlRunIds -> RlRow] /\ rlRuns'[r] = new
      /\ \A q \in RlRunIds \ {r} : rlRuns'[q] = rlRuns[q]
  BY <1>5 DEF RlInv, RlTypeOK
<1>7. rlRuns[r].fresh \/ rlRuns[r].lost
  BY <1>1 DEF RlInv, RlSeen, RlPending
<1>8. \A q \in RlRunIds : RlSeen(rlRuns[q])'
  BY <1>5, <1>6, <1>7 DEF RlInv, RlSeen
<1>9. PromotedWasClean'
  BY <1>1, <1>5, <1>6 DEF RlInv, PromotedWasClean, RlPending
<1> QED BY <1>1, <1>6, <1>8, <1>9 DEF RlInv, RlTypeOK

LEMMA RlStep == RlInv /\ [RlNext]_rlVars => RlInv'
<1> SUFFICES ASSUME RlInv, [RlNext]_rlVars PROVE RlInv'
  OBVIOUS
<1>0. rlCanary \in RlCanaryRow /\ rlAdmission \in {"none", "since", "before"}
  BY DEF RlInv, RlTypeOK
<1>1. ASSUME NEW s \in Managers, PromoteCanary(s) PROVE RlInv'
  <2>1. RlMoved(FALSE) /\ canaryStageEvidence /\ rlCanary' = [rlCanary EXCEPT !.state = "promoted"]
    BY <1>1 DEF PromoteCanary
  <2>2. rlCanary' \in RlCanaryRow
    BY <2>1, <1>0 DEF RlCanaryRow
  <2> QED BY <2>1, <2>2, RlCanaryMoves
<1>2. CASE AdvanceCanary
  <2>1. RlMoved(FALSE) /\ canaryStageEvidence /\ rlCanary' = [rlCanary EXCEPT !.stage = @ + 1]
    BY <1>2 DEF AdvanceCanary
  <2>2. rlCanary' \in RlCanaryRow
    BY <2>1, <1>0 DEF RlCanaryRow
  <2> QED BY <2>1, <2>2, RlCanaryMoves
<1>3. ASSUME NEW state \in {"active", "paused", "rolled_back"}, UpdateCanary(state) PROVE RlInv'
  <2>1. RlMoved(TRUE) /\ rlCanary' = [rlCanary EXCEPT !.state = state]
    BY <1>3 DEF UpdateCanary
  <2>2. rlCanary' \in RlCanaryRow
    BY <2>1, <1>0 DEF RlCanaryRow
  <2> QED BY <2>1, <2>2, RlCanaryMoves
<1>4. CASE rollbackFailedCanary
  <2>1. RlMoved(TRUE) /\ rlCanary' = [rlCanary EXCEPT !.state = "rolled_back"]
    BY <1>4 DEF rollbackFailedCanary
  <2>2. rlCanary' \in RlCanaryRow
    BY <2>1, <1>0 DEF RlCanaryRow
  <2> QED BY <2>1, <2>2, RlCanaryMoves
<1>5. ASSUME NEW s \in Managers, NEW stage \in {1, 2}, CreateCanary(s, stage) PROVE RlInv'
  <2>1. UNCHANGED <<rlRuns, rlAdmission>> /\ rlCanary' = [state |-> "active", by |-> s, stage |-> stage]
    BY <1>5 DEF CreateCanary
  <2>2. rlCanary' \in RlCanaryRow /\ rlCanary'.state = "active"
    BY <2>1 DEF RlCanaryRow
  <2> QED BY <2>1, <2>2 DEF RlInv, RlTypeOK, PromotedWasClean
<1>6. CASE BeginAdmission
  <2>1. UNCHANGED <<rlRuns, rlCanary>> /\ rlAdmission' = "since"
    BY <1>6 DEF BeginAdmission
  <2> QED BY <2>1, RlQuiet
<1>7. CASE UNCHANGED <<rlRuns, rlCanary, rlAdmission>>
  BY <1>7, <1>0, RlQuiet
<1>8. CASE \/ \E s \in Managers : \/ RequestRuleApproval(s) \/ CreateShadowRollout(s)
                                  \/ \E decision \in {"approved", "rejected"}, enough \in BOOLEAN :
                                       DecideRuleApproval(s, decision, enough)
           \/ PublishRuleVersion \/ \E state \in {"active", "shadow"} : CreateRuleBinding(state)
           \/ \E b \in {"baseline", "candidate"}, state \in {"active", "shadow", "disabled"} : UpdateRuleBinding(b, state)
           \/ QueueShadowRuleTests \/ ClaimRuleTestRun \/ ReplayLeaseLapses
           \/ \E state \in {"completed", "failed"} : CompleteRuleTestRun(state)
           \/ \E state \in {"active", "paused", "rolled_back"} : UpdateShadow(state)
           \/ UNCHANGED rlVars
  <2>1. UNCHANGED <<rlRuns, rlCanary, rlAdmission>>
    BY <1>8, Zenon DEF RequestRuleApproval, CreateShadowRollout, DecideRuleApproval, PublishRuleVersion, CreateRuleBinding,
       UpdateRuleBinding, QueueShadowRuleTests, ClaimRuleTestRun, ReplayLeaseLapses, CompleteRuleTestRun, UpdateShadow, rlVars
  <2> QED BY <2>1, <1>7
<1> QED BY <1>1, <1>2, <1>3, <1>4, <1>5, <1>6, <1>8, RlAdmitKeeps, RlEndKeeps, Zenon DEF RlNext

\* The bindings move while no canary is open, or with its promotion; a canary
\* opens over the pair, and one that is resumed was open before.
LEMMA RlPairStep == RlTypeOK /\ CanaryKeepsItsPair /\ [RlNext]_rlVars => CanaryKeepsItsPair'
<1> SUFFICES ASSUME RlTypeOK, CanaryKeepsItsPair, [RlNext]_rlVars PROVE CanaryKeepsItsPair'
  OBVIOUS
<1>0. rlCanary \in RlCanaryRow
  BY DEF RlTypeOK
<1>1. ASSUME NEW s \in Managers, PromoteCanary(s) PROVE CanaryKeepsItsPair'
  <2>1. rlCanary'.state = "promoted"
    BY <1>1, <1>0 DEF PromoteCanary, RlCanaryRow
  <2> QED BY <2>1 DEF CanaryKeepsItsPair, RlOpen
<1>2. ASSUME NEW s \in Managers, NEW stage \in {1, 2}, CreateCanary(s, stage) PROVE CanaryKeepsItsPair'
  BY <1>2 DEF CreateCanary, CanaryKeepsItsPair, RlPair
<1>3. CASE AdvanceCanary
  BY <1>3 DEF AdvanceCanary, CanaryKeepsItsPair, RlPair
<1>4. ASSUME NEW state \in {"active", "paused", "rolled_back"}, UpdateCanary(state) PROVE CanaryKeepsItsPair'
  <2>1. RlOpen(rlCanary) /\ UNCHANGED rlBinding
    BY <1>4 DEF UpdateCanary, validRuleRolloutTransition, RlOpen
  <2> QED BY <2>1 DEF CanaryKeepsItsPair, RlPair
<1>5. CASE rollbackFailedCanary
  <2>1. RlOpen(rlCanary) /\ UNCHANGED rlBinding
    BY <1>5 DEF rollbackFailedCanary, RlOpen
  <2> QED BY <2>1 DEF CanaryKeepsItsPair, RlPair
<1>6. ASSUME NEW state \in {"active", "shadow"}, CreateRuleBinding(state) PROVE CanaryKeepsItsPair'
  <2>1. ~RlPair /\ rlCanary' = rlCanary
    BY <1>6 DEF CreateRuleBinding, RlPair
  <2> QED BY <2>1 DEF CanaryKeepsItsPair, RlOpen
<1>7. ASSUME NEW b \in {"baseline", "candidate"}, NEW state \in {"active", "shadow", "disabled"}, UpdateRuleBinding(b, state)
      PROVE  CanaryKeepsItsPair'
  <2>1. ~RlOpen(rlCanary) /\ rlCanary' = rlCanary
    BY <1>7 DEF UpdateRuleBinding, activeCanary
  <2> QED BY <2>1 DEF CanaryKeepsItsPair, RlOpen
<1>8. CASE UNCHANGED <<rlCanary, rlBinding>>
  BY <1>8 DEF CanaryKeepsItsPair, RlOpen, RlPair
<1>9. CASE \/ \E s \in Managers : \/ RequestRuleApproval(s) \/ CreateShadowRollout(s)
                                  \/ \E decision \in {"approved", "rejected"}, enough \in BOOLEAN :
                                       DecideRuleApproval(s, decision, enough)
           \/ PublishRuleVersion \/ QueueShadowRuleTests \/ ClaimRuleTestRun \/ ReplayLeaseLapses
           \/ \E state \in {"completed", "failed"} : CompleteRuleTestRun(state)
           \/ BeginAdmission \/ loadActiveCanaryRuleBindings
           \/ \E r \in RlRunIds, state \in {"success", "failed", "blocked", "void"} : RlRunEnds(r, state)
           \/ \E state \in {"active", "paused", "rolled_back"} : UpdateShadow(state)
           \/ UNCHANGED rlVars
  <2>1. UNCHANGED <<rlCanary, rlBinding>>
    BY <1>9, Zenon DEF RequestRuleApproval, CreateShadowRollout, DecideRuleApproval, PublishRuleVersion,
       QueueShadowRuleTests, ClaimRuleTestRun, ReplayLeaseLapses, CompleteRuleTestRun, BeginAdmission,
       loadActiveCanaryRuleBindings, RlRunEnds, UpdateShadow, rlVars
  <2> QED BY <2>1, <1>8
<1> QED BY <1>1, <1>2, <1>3, <1>4, <1>5, <1>6, <1>7, <1>9, Zenon DEF RlNext

-----------------------------------------------------------------------------
(* What people decide.                                                     *)

PolicyInv == RlInv /\ CanaryKeepsItsPair /\ RcInv /\ DgInv

\* The inductive invariants of rollouts, review policies and data governance
\* hold of the composition.
THEOREM PolicyInvariant == Spec => []PolicyInv
<1>1. Init => PolicyInv
  <2>1. RlInit => CanaryKeepsItsPair
    BY DEF RlInit, CanaryKeepsItsPair, RlOpen
  <2> QED BY <2>1, RlInitInv, RcInitInv, DgInitInv DEF Init, PolicyInv
<1>2. PolicyInv /\ [Next]_vars => PolicyInv'
  <2>1. PolicyInv /\ [Next]_vars => RlTypeOK
    BY DEF PolicyInv, RlInv
  <2> QED BY <2>1, PartsMove, RlStep, RlPairStep, RcStep, DgStep DEF PolicyInv
<1> QED BY <1>1, <1>2, PTL DEF Spec

\* A canary is promoted only over clean evidence, its two bindings stay as they
\* are while it is open, and a finding that blocks a merge is among the findings
\* the run published.
THEOREM ReviewPolicyProved == Spec => []ReviewPolicyHolds
<1>1. PolicyInv => ReviewPolicyHolds
  BY RcBlockingShown DEF PolicyInv, ReviewPolicyHolds, RlInv
<1> QED BY <1>1, PolicyInvariant, PTL

\* No step erases what a legal hold covers, lets a deactivated member in
\* again without an edit that activates it, or changes an active model route
\* without a second person.
THEOREM GovernanceProved == Spec => GovernanceHolds
<1>1. IdInv /\ PolicyInv /\ [Next]_vars
        => [HeldScopeIsKept /\ DeactivatedStaysOut /\ RouteChangesByTwo]_vars
  BY PartsMove, DgKept, IdStaysOut, RcStep DEF PolicyInv, IdInv
<1>2. AccessInv => IdInv
  BY DEF AccessInv
<1> QED BY <1>1, <1>2, AccessInvariant, PolicyInvariant, PTL DEF Spec, GovernanceHolds

-----------------------------------------------------------------------------
(* IssueTriage.                                                            *)

TgPcs == {"idle", "handled", "failed", "acknowledge", "mark", "analyze", "stage", "fail", "sayfailed", "publish", "complete"}
TgMsgRow == [at : {"none", "queue", "worker", "gone", "dead"}, row : {"absent", "claimed", "released", "completed"},
             live : BOOLEAN, n : Nat]
TgHand == [busy : BOOLEAN, msg : TgMessages \cup {TgNoWork.msg}, pc : TgPcs, report : Nat]
TgHands == {h \in TgHand : h.busy = (h.pc # "idle") /\ (h.busy => h.msg \in TgMessages)}

TgTypeOK ==
    /\ tgJob \in [rev : 0..MaxTgRevisions, attempt : 1..MaxTgAttempts,
                  state : {"none", "queued", "acknowledged", "failed", "completed"}, report : Nat]
    /\ tgJob.state # "none" => tgJob.rev # 0
    /\ tgMsg \in [TgMessages -> TgMsgRow]
    /\ tgWork \in [TgWorkers -> TgHands]
    /\ tgInstalled \in {"active", "off", "again"} /\ tgFaults \in Nat

\* A message that a later step of the job writes.
TgFuture(m) ==
    \/ m.rev > tgJob.rev \/ (m.rev = tgJob.rev /\ m.attempt > tgJob.attempt)
    \/ OfMsg(m) /\ m.topic = "analyze" /\ tgJob.state = "queued"

\* Nobody has such a message.
TgNotYet ==
    \A m \in TgMessages : TgFuture(m) =>
        tgMsg[m].at = "none" /\ \A w \in TgWorkers : tgWork[w].busy => tgWork[w].msg # m

\* A claim without its worker is left by a crash.
TgClaimHeld ==
    \A m \in TgMessages : tgMsg[m].row = "claimed" => tgMsg[m].at = "worker" \/ tgFaults > 0

TgGood == [rev |-> tgJob.rev, kind |-> "report", report |-> tgJob.report]

\* A worker that publishes holds the report retained for its attempt, and one
\* that is about to complete has shown it.
TgStaged ==
    \A w \in TgWorkers :
        /\ tgWork[w].pc = "stage" => tgWork[w].report # NoReport
        /\ tgWork[w].pc \in {"publish", "complete"} /\ OfMsg(tgWork[w].msg) =>
             /\ tgJob.state \in {"acknowledged", "completed"}
             /\ tgWork[w].report = tgJob.report /\ tgJob.report # NoReport
        /\ tgWork[w].pc = "complete" /\ OfMsg(tgWork[w].msg) /\ tgInstalled = "active" =>
             tgComment = TgGood

TgInv == TgTypeOK /\ TgNotYet /\ TgClaimHeld /\ TgStaged /\ CommentKeepsUp /\ PendingCanBeFinished

LEMMA TgRowFacts ==
    /\ NoMsg \in TgMsgRow /\ NoMsg.at = "none" /\ NoMsg.row = "absent"
    /\ TgNoWork \in TgHands /\ TgNoWork.pc = "idle" /\ ~TgNoWork.busy
  BY DEF NoMsg, TgMsgRow, TgNoWork, TgHands, TgHand, TgPcs, NoReport

LEMMA TgInitInv == TgInit => TgInv
<1> SUFFICES ASSUME TgInit PROVE TgInv
  OBVIOUS
<1> USE TriageAssumption, TgRowFacts
<1>1. TgTypeOK
  BY DEF TgInit, TgTypeOK, NoReport
<1>2. TgNotYet
  BY DEF TgInit, TgNotYet
<1>3. TgClaimHeld /\ TgStaged
  BY DEF TgInit, TgClaimHeld, TgStaged
<1> QED BY <1>1, <1>2, <1>3 DEF TgInit, TgInv, CommentKeepsUp, PendingCanBeFinished

LEMMA TgPendingTyped ==
    ASSUME TgTypeOK, tgJob.state \in {"queued", "acknowledged"}
    PROVE  PendingMsg \in TgMessages /\ OfMsg(PendingMsg)
  BY DEF TgTypeOK, PendingMsg, TgMessages, OfMsg

\* A worker goes on.
LEMMA TgGoTypes ==
    ASSUME TgTypeOK, NEW w \in TgWorkers, tgWork[w].pc # "idle", NEW pc \in TgPcs \ {"idle"}, NEW report \in Nat,
           TgGoes(w, pc, report)
    PROVE  /\ tgWork' \in [TgWorkers -> TgHands]
           /\ tgWork'[w].pc = pc /\ tgWork'[w].report = report
           /\ \A v \in TgWorkers : /\ v # w => tgWork'[v] = tgWork[v]
                                   /\ tgWork'[v].msg = tgWork[v].msg /\ tgWork'[v].busy = tgWork[v].busy
<1> DEFINE row == [tgWork[w] EXCEPT !.pc = pc, !.report = report]
<1>1. tgWork[w] \in TgHands
  BY DEF TgTypeOK
<1>2. row \in TgHands /\ row.pc = pc /\ row.report = report /\ row.msg = tgWork[w].msg /\ row.busy = tgWork[w].busy
  BY <1>1 DEF TgHands, TgHand
<1>3. tgWork' = [tgWork EXCEPT ![w] = row]
  BY Zenon DEF TgGoes, TgTypeOK
<1> HIDE DEF row
<1> QED BY <1>2, <1>3 DEF TgTypeOK

\* A step of a worker that leaves job and messages alone.
LEMMA TgWorkMoves ==
    ASSUME TgInv, NEW w \in TgWorkers, tgWork[w].pc # "idle", NEW pc \in TgPcs \ {"idle"}, NEW report \in Nat,
           TgGoes(w, pc, report), UNCHANGED <<tgJob, tgMsg, tgInstalled, tgFaults>>,
           pc = "stage" => report # NoReport,
           pc \in {"publish", "complete"} /\ OfMsg(tgWork[w].msg) =>
             tgJob.state \in {"acknowledged", "completed"} /\ report = tgJob.report /\ report # NoReport,
           pc = "complete" /\ OfMsg(tgWork[w].msg) /\ tgInstalled = "active" => tgComment' = TgGood,
           tgComment' = tgComment \/ tgComment' = TgGood \/ tgJob.state \notin {"acknowledged", "completed"}
    PROVE  TgInv'
<1>1. /\ tgWork' \in [TgWorkers -> TgHands]
      /\ tgWork'[w].pc = pc /\ tgWork'[w].report = report
      /\ \A v \in TgWorkers : /\ v # w => tgWork'[v] = tgWork[v]
                              /\ tgWork'[v].msg = tgWork[v].msg /\ tgWork'[v].busy = tgWork[v].busy
  BY TgGoTypes DEF TgInv
<1>2. TgTypeOK' /\ TgClaimHeld' /\ PendingCanBeFinished'
  BY <1>1 DEF TgInv, TgTypeOK, TgClaimHeld, PendingCanBeFinished, PendingMsg, Retryable, TerminalDeliveryFailure, SkippedDelivery
<1>3. TgNotYet'
  BY <1>1 DEF TgInv, TgNotYet, TgFuture, OfMsg
<1>4. TgStaged'
  BY <1>1 DEF TgInv, TgStaged, OfMsg, TgGood
<1>5. CommentKeepsUp'
  BY DEF TgInv, CommentKeepsUp, TgGood
<1> QED BY <1>2, <1>3, <1>4, <1>5 DEF TgInv

\* A step that writes one message and lets its worker go, or takes it.
LEMMA TgMsgMoves ==
    ASSUME TgInv, NEW m \in TgMessages, NEW row \in TgMsgRow, tgMsg' = [tgMsg EXCEPT ![m] = row],
           UNCHANGED <<tgJob, tgComment, tgInstalled>>, tgFaults' \in Nat, tgFaults' >= tgFaults,
           tgWork' \in [TgWorkers -> TgHands],
           \A v \in TgWorkers :
             \/ tgWork'[v] = tgWork[v] \/ tgWork'[v].pc = "idle"
             \/ /\ ~TgFuture(m) /\ tgWork'[v].msg = m /\ tgWork'[v].pc \notin {"stage", "complete"}
                /\ tgWork'[v].pc = "publish" =>
                     tgJob.state = "acknowledged" /\ tgWork'[v].report = tgJob.report /\ tgJob.report # NoReport,
           TgFuture(m) => row.at = "none",
           row.row = "claimed" => row.at = "worker" \/ tgFaults' > 0,
           OfMsg(m) => \/ row.at \in {"queue", "worker"} \/ (row.row = "released" /\ row.n >= RedeliveryLimit + 1)
                       \/ row.row = "completed" \/ (row.row = "claimed" /\ tgFaults' > 0)
    PROVE  TgInv'
<1>1. \A k \in TgMessages : tgMsg'[k] = IF k = m THEN row ELSE tgMsg[k]
  BY DEF TgInv, TgTypeOK
<1>2. \A v \in TgWorkers : tgWork[v] \in TgHands /\ tgWork'[v] \in TgHands
  BY DEF TgInv, TgTypeOK
<1>3. \A h \in TgHands : h.busy <=> h.pc # "idle"
  BY DEF TgHands, TgHand
<1>4. TgTypeOK' /\ TgClaimHeld' /\ CommentKeepsUp'
  BY <1>1 DEF TgInv, TgTypeOK, TgClaimHeld, CommentKeepsUp
<1>5. TgNotYet'
  BY <1>1, <1>2, <1>3 DEF TgInv, TgNotYet, TgFuture, OfMsg
<1>6. TgStaged'
  BY DEF TgInv, TgStaged, OfMsg, TgGood
<1>7. PendingCanBeFinished'
  <2> SUFFICES ASSUME tgJob.state \in {"queued", "acknowledged"}
               PROVE  \/ tgMsg'[PendingMsg].at \in {"queue", "worker"}
                      \/ tgMsg'[PendingMsg].row = "released" /\ tgMsg'[PendingMsg].n >= RedeliveryLimit + 1
                      \/ tgMsg'[PendingMsg].row = "completed"
                      \/ tgMsg'[PendingMsg].row = "claimed" /\ tgFaults' > 0
    BY DEF PendingCanBeFinished, PendingMsg, Retryable, TerminalDeliveryFailure, SkippedDelivery
  <2>1. PendingMsg \in TgMessages /\ OfMsg(PendingMsg)
    BY TgPendingTyped DEF TgInv
  <2> QED BY <1>1, <2>1 DEF TgInv, TgTypeOK, PendingCanBeFinished, Retryable, TerminalDeliveryFailure, SkippedDelivery
<1> QED BY <1>4, <1>5, <1>6, <1>7 DEF TgInv

\* A message is written, and what it supersedes is forgotten.
LEMMA TgInserts ==
    ASSUME TgTypeOK, NEW topic \in {"acknowledge", "analyze"}, NEW rev \in 1..MaxTgRevisions,
           NEW attempt \in 1..MaxTgAttempts, insertProviderIssueOutbox(topic, rev, attempt)
    PROVE  LET new == [topic |-> topic, rev |-> rev, attempt |-> attempt] IN
           /\ tgMsg' \in [TgMessages -> TgMsgRow]
           /\ new \in TgMessages /\ (tgMsg[new].at = "none" => tgMsg'[new].at = "queue")
           /\ \A m \in TgMessages : /\ m # new /\ tgMsg[m].at = "none" => tgMsg'[m].at = "none"
                                    /\ tgMsg'[m].row = "claimed" => tgMsg'[m] = tgMsg[m]
<1> DEFINE new == [topic |-> topic, rev |-> rev, attempt |-> attempt]
           queued == [NoMsg EXCEPT !.at = "queue"]
           gone == [NoMsg EXCEPT !.at = "gone"]
<1>1. queued \in TgMsgRow /\ queued.at = "queue" /\ queued.row = "absent"
  BY DEF NoMsg, TgMsgRow
<1>2. gone \in TgMsgRow /\ gone.at = "gone" /\ gone.row = "absent"
  BY DEF NoMsg, TgMsgRow
<1>3. new \in TgMessages
  BY DEF TgMessages
<1>4. \A m \in TgMessages :
         tgMsg'[m] = IF tgMsg[m].at = "none" /\ m = new THEN queued
                     ELSE IF tgMsg[m].at \in {"none", "worker"} \/ (m.rev = rev /\ m.attempt = attempt) THEN tgMsg[m]
                     ELSE gone
  BY DEF insertProviderIssueOutbox
<1>5. tgMsg' = [m \in TgMessages |-> tgMsg'[m]]
  BY Zenon DEF insertProviderIssueOutbox
<1>6. \A m \in TgMessages : tgMsg[m] \in TgMsgRow
  BY DEF TgTypeOK
<1> HIDE DEF new, queued, gone
<1>7. \A m \in TgMessages : tgMsg'[m] \in TgMsgRow
  BY <1>1, <1>2, <1>4, <1>6
<1>8. tgMsg' \in [TgMessages -> TgMsgRow]
  BY <1>5, <1>7
<1>9. tgMsg[new].at = "none" => tgMsg'[new].at = "queue"
  BY <1>1, <1>3, <1>4
<1>10. \A m \in TgMessages : /\ m # new /\ tgMsg[m].at = "none" => tgMsg'[m].at = "none"
                             /\ tgMsg'[m].row = "claimed" => tgMsg'[m] = tgMsg[m]
  BY <1>1, <1>2, <1>4
<1> QED BY <1>3, <1>8, <1>9, <1>10 DEF new

\* A new round of the job: its message was still to come, so nobody works on it.
LEMMA TgRoundBegins ==
    ASSUME TgInv, tgJob' \in [rev : 0..MaxTgRevisions, attempt : 1..MaxTgAttempts,
                              state : {"none", "queued", "acknowledged", "failed", "completed"}, report : Nat],
           tgJob'.state \in {"queued", "acknowledged"}, tgJob'.rev # 0,
           tgJob'.rev > tgJob.rev \/ (tgJob'.rev = tgJob.rev /\ tgJob'.attempt > tgJob.attempt),
           insertProviderIssueOutbox(IF tgJob'.state = "queued" THEN "acknowledge" ELSE "analyze",
                                     tgJob'.rev, tgJob'.attempt),
           UNCHANGED <<tgWork, tgComment, tgInstalled, tgFaults>>
    PROVE  TgInv'
<1> DEFINE topic == IF tgJob'.state = "queued" THEN "acknowledge" ELSE "analyze"
           new == [topic |-> topic, rev |-> tgJob'.rev, attempt |-> tgJob'.attempt]
<1>1. topic \in {"acknowledge", "analyze"} /\ tgJob'.rev \in 1..MaxTgRevisions /\ tgJob'.attempt \in 1..MaxTgAttempts
  BY TriageAssumption
<1>2. /\ tgMsg' \in [TgMessages -> TgMsgRow]
      /\ new \in TgMessages /\ (tgMsg[new].at = "none" => tgMsg'[new].at = "queue")
      /\ \A m \in TgMessages : /\ m # new /\ tgMsg[m].at = "none" => tgMsg'[m].at = "none"
                               /\ tgMsg'[m].row = "claimed" => tgMsg'[m] = tgMsg[m]
  BY <1>1, TgInserts DEF TgInv
<1>3. new.rev = tgJob'.rev /\ new.attempt = tgJob'.attempt /\ new.topic = topic
  OBVIOUS
<1>4. PendingMsg' = new
  BY DEF PendingMsg
<1> HIDE DEF new
<1>5. TgFuture(new)
  BY <1>2, <1>3 DEF TgFuture
<1>6. tgMsg'[PendingMsg'].at = "queue"
  BY <1>2, <1>4, <1>5 DEF TgInv, TgNotYet
<1>7. TgTypeOK'
  BY <1>2 DEF TgInv, TgTypeOK
<1>8. \A m \in TgMessages : TgFuture(m)' => TgFuture(m) /\ m # new
  <2> SUFFICES ASSUME NEW m \in TgMessages, TgFuture(m)'
               PROVE  TgFuture(m) /\ m # new
    OBVIOUS
  <2>1. /\ m.rev \in 1..MaxTgRevisions /\ m.attempt \in 1..MaxTgAttempts
        /\ tgJob.rev \in Nat /\ tgJob.attempt \in Nat /\ tgJob'.rev \in Nat /\ tgJob'.attempt \in Nat
    BY TriageAssumption DEF TgMessages, TgInv, TgTypeOK
  <2>2. m.rev > tgJob'.rev \/ (m.rev = tgJob'.rev /\ m.attempt > tgJob'.attempt)
          \/ (m.rev = tgJob'.rev /\ m.attempt = tgJob'.attempt /\ m.topic = "analyze" /\ tgJob'.state = "queued")
    BY DEF TgFuture, OfMsg
  <2>3. m # new
    BY <2>1, <2>2, <1>3
  <2> QED BY <2>1, <2>2, <2>3 DEF TgFuture
<1>9. TgNotYet'
  BY <1>2, <1>8 DEF TgInv, TgNotYet
<1>10. TgClaimHeld'
  BY <1>2 DEF TgInv, TgClaimHeld
<1>11. \A w \in TgWorkers : tgWork[w].busy => ~OfMsg(tgWork[w].msg)'
  <2> SUFFICES ASSUME NEW w \in TgWorkers, tgWork[w].busy, OfMsg(tgWork[w].msg)'
               PROVE  FALSE
    OBVIOUS
  <2>1. tgWork[w].msg \in TgMessages
    BY DEF TgInv, TgTypeOK, TgHands
  <2>2. TgFuture(tgWork[w].msg)
    BY <2>1 DEF TgFuture, OfMsg
  <2> QED BY <2>1, <2>2 DEF TgInv, TgNotYet
<1>12. \A w \in TgWorkers : tgWork[w].pc # "idle" => tgWork[w].busy
  BY DEF TgInv, TgTypeOK, TgHands, TgHand
<1>13. TgStaged'
  BY <1>11, <1>12 DEF TgInv, TgStaged
<1>14. CommentKeepsUp' /\ PendingCanBeFinished'
  BY <1>6 DEF CommentKeepsUp, PendingCanBeFinished
<1> QED BY <1>7, <1>9, <1>10, <1>13, <1>14 DEF TgInv

LEMMA TgEntersKeep ==
    ASSUME TgInv, EnqueueProviderIssueAnalysis \/ RetryProviderIssueAnalysis
    PROVE  TgInv'
<1> USE TriageAssumption
<1>0. /\ tgJob.rev \in 0..MaxTgRevisions /\ tgJob.attempt \in 1..MaxTgAttempts /\ tgJob.report \in Nat
      /\ tgJob.state # "none" => tgJob.rev # 0
  BY DEF TgInv, TgTypeOK
<1>1. CASE EnqueueProviderIssueAnalysis
  <2>1. /\ tgJob.rev < MaxTgRevisions /\ UNCHANGED <<tgWork, tgComment, tgInstalled, tgFaults>>
        /\ tgJob' = [rev |-> tgJob.rev + 1, attempt |-> 1, state |-> "queued", report |-> NoReport]
        /\ insertProviderIssueOutbox("acknowledge", tgJob.rev + 1, 1)
    BY <1>1 DEF EnqueueProviderIssueAnalysis
  <2>2. /\ tgJob'.state = "queued" /\ tgJob'.rev = tgJob.rev + 1 /\ tgJob'.attempt = 1
        /\ tgJob' \in [rev : 0..MaxTgRevisions, attempt : 1..MaxTgAttempts,
                       state : {"none", "queued", "acknowledged", "failed", "completed"}, report : Nat]
    BY <1>0, <2>1 DEF NoReport
  <2>3. insertProviderIssueOutbox(IF tgJob'.state = "queued" THEN "acknowledge" ELSE "analyze", tgJob'.rev, tgJob'.attempt)
    BY <2>1, <2>2
  <2>4. tgJob'.rev # 0 /\ tgJob'.rev > tgJob.rev
    BY <2>2, <1>0
  <2> QED BY <2>1, <2>2, <2>3, <2>4, TgRoundBegins
<1>2. CASE RetryProviderIssueAnalysis
  <2> DEFINE again == tgJob.state = "acknowledged" /\ tgJob.report # NoReport
  <2>1. /\ tgJob.attempt < MaxTgAttempts /\ Retryable /\ UNCHANGED <<tgWork, tgComment, tgInstalled, tgFaults>>
        /\ tgJob' = [tgJob EXCEPT !.attempt = @ + 1, !.state = IF again THEN "acknowledged" ELSE "queued",
                                  !.report = IF again THEN @ ELSE NoReport]
        /\ insertProviderIssueOutbox(IF again THEN "analyze" ELSE "acknowledge", tgJob.rev, tgJob.attempt + 1)
    BY <1>2 DEF RetryProviderIssueAnalysis
  <2>2. tgJob.state # "none"
    BY <2>1 DEF Retryable
  <2>3. /\ tgJob'.state = (IF again THEN "acknowledged" ELSE "queued") /\ tgJob'.rev = tgJob.rev
        /\ tgJob'.attempt = tgJob.attempt + 1
        /\ tgJob' \in [rev : 0..MaxTgRevisions, attempt : 1..MaxTgAttempts,
                       state : {"none", "queued", "acknowledged", "failed", "completed"}, report : Nat]
    <3>1. tgJob.attempt + 1 \in 1..MaxTgAttempts
      BY <1>0, <2>1
    <3>2. CASE again
      <4>1. tgJob' = [tgJob EXCEPT !.attempt = tgJob.attempt + 1, !.state = "acknowledged"]
        BY <2>1, <3>2 DEF TgInv, TgTypeOK
      <4> QED BY <3>1, <3>2, <4>1 DEF TgInv, TgTypeOK
    <3>3. CASE ~again
      <4>1. tgJob' = [tgJob EXCEPT !.attempt = tgJob.attempt + 1, !.state = "queued", !.report = NoReport]
        BY <2>1, <3>3 DEF TgInv, TgTypeOK
      <4> QED BY <3>1, <3>3, <4>1 DEF TgInv, TgTypeOK, NoReport
    <3> QED BY <3>2, <3>3
  <2> HIDE DEF again
  <2>4. insertProviderIssueOutbox(IF tgJob'.state = "queued" THEN "acknowledge" ELSE "analyze", tgJob'.rev, tgJob'.attempt)
    <3>1. CASE again
      BY <3>1, <2>1, <2>3
    <3>2. CASE ~again
      BY <3>2, <2>1, <2>3
    <3> QED BY <3>1, <3>2
  <2>5. tgJob'.rev # 0 /\ tgJob'.attempt > tgJob.attempt /\ tgJob'.state \in {"queued", "acknowledged"}
    BY <2>2, <2>3, <1>0
  <2> QED BY <2>1, <2>3, <2>4, <2>5, TgRoundBegins
<1> QED BY <1>1, <1>2

LEMMA TgSettlesKeep ==
    ASSUME TgInv,
           \/ \E m \in TgMessages : TgClaimRefused(m) \/ TgLeaseLapses(m)
           \/ \E w \in TgWorkers : TgSettle(w) \/ TgCrash(w)
    PROVE  TgInv'
<1> USE TgRowFacts
<1>0. /\ tgMsg \in [TgMessages -> TgMsgRow] /\ tgWork \in [TgWorkers -> TgHands] /\ tgFaults \in Nat
      /\ RedeliveryLimit \in Nat /\ \A m \in TgMessages : tgMsg[m] \in TgMsgRow
  BY TriageAssumption DEF TgInv, TgTypeOK
<1>1. ASSUME NEW m \in TgMessages, TgClaimRefused(m) PROVE TgInv'
  <2> DEFINE row == [tgMsg[m] EXCEPT !.at = "gone"]
  <2>1. /\ tgMsg[m].at = "queue" /\ UNCHANGED <<tgJob, tgWork, tgComment, tgInstalled, tgFaults>>
        /\ tgMsg[m].row = "completed" \/ tgMsg[m].row = "claimed"
    BY <1>1 DEF TgClaimRefused
  <2>2. tgMsg' = [tgMsg EXCEPT ![m] = row]
    BY <1>0, <1>1, Zenon DEF TgClaimRefused
  <2>3. row \in TgMsgRow /\ row.at = "gone" /\ row.row = tgMsg[m].row
    BY <1>0 DEF TgMsgRow
  <2> HIDE DEF row
  <2>4. ~TgFuture(m) /\ (tgMsg[m].row = "claimed" => tgFaults > 0)
    BY <2>1 DEF TgInv, TgNotYet, TgClaimHeld
  <2>5. /\ tgFaults' \in Nat /\ tgFaults' >= tgFaults /\ (tgFaults > 0 => tgFaults' > 0)
        /\ tgWork' \in [TgWorkers -> TgHands] /\ \A v \in TgWorkers : tgWork'[v] = tgWork[v]
    BY <1>0, <2>1
  <2> QED BY <2>1, <2>2, <2>3, <2>4, <2>5, TgMsgMoves
<1>2. ASSUME NEW m \in TgMessages, TgLeaseLapses(m) PROVE TgInv'
  <2> DEFINE row == [tgMsg[m] EXCEPT !.live = FALSE]
  <2>1. /\ tgMsg[m].row = "claimed" /\ tgMsg[m].at # "worker"
        /\ UNCHANGED <<tgJob, tgWork, tgComment, tgInstalled, tgFaults>>
    BY <1>2 DEF TgLeaseLapses
  <2>2. tgMsg' = [tgMsg EXCEPT ![m] = row]
    BY <1>0, <1>2, Zenon DEF TgLeaseLapses
  <2>3. row \in TgMsgRow /\ row.at = tgMsg[m].at /\ row.row = tgMsg[m].row
    BY <1>0 DEF TgMsgRow
  <2> HIDE DEF row
  <2>4. (TgFuture(m) => tgMsg[m].at = "none") /\ tgFaults > 0
    BY <2>1 DEF TgInv, TgNotYet, TgClaimHeld
  <2>5. /\ tgFaults' \in Nat /\ tgFaults' >= tgFaults /\ (tgFaults > 0 => tgFaults' > 0)
        /\ tgWork' \in [TgWorkers -> TgHands] /\ \A v \in TgWorkers : tgWork'[v] = tgWork[v]
    BY <1>0, <2>1
  <2> QED BY <2>1, <2>2, <2>3, <2>4, <2>5, TgMsgMoves
<1>3. ASSUME NEW w \in TgWorkers, tgWork[w].busy, tgWork' = [tgWork EXCEPT ![w] = TgNoWork],
             NEW row \in TgMsgRow, tgMsg' = [tgMsg EXCEPT ![tgWork[w].msg] = row],
             UNCHANGED <<tgJob, tgComment, tgInstalled>>, tgFaults' \in Nat, tgFaults' >= tgFaults,
             row.row = "claimed" => tgFaults' > 0,
             OfMsg(tgWork[w].msg) =>
                 \/ row.at \in {"queue", "worker"} \/ (row.row = "released" /\ row.n >= RedeliveryLimit + 1)
                 \/ row.row = "completed" \/ (row.row = "claimed" /\ tgFaults' > 0)
      PROVE  TgInv'
  <2>1. tgWork[w].msg \in TgMessages
    BY <1>0, <1>3 DEF TgHands
  <2>2. ~TgFuture(tgWork[w].msg)
    BY <1>3, <2>1 DEF TgInv, TgNotYet
  <2>3. /\ tgWork' \in [TgWorkers -> TgHands]
        /\ \A v \in TgWorkers : tgWork'[v] = tgWork[v] \/ tgWork'[v].pc = "idle"
    BY <1>0, <1>3
  <2> QED BY <1>3, <2>1, <2>2, <2>3, TgMsgMoves
<1>4. ASSUME NEW m \in TgMessages, NEW r \in {"released", "claimed"}, tgMsg' = TgRedelivered(m, r)
      PROVE  \E row \in TgMsgRow : /\ tgMsg' = [tgMsg EXCEPT ![m] = row] /\ (row.row = "claimed" => r = "claimed")
                                   /\ OfMsg(m) => /\ row.row = r
                                                  /\ row.at = "queue" \/ row.n >= RedeliveryLimit + 1
  <2>1. CASE ~OfMsg(m)
    <3> DEFINE row == [NoMsg EXCEPT !.at = "gone"]
    <3>1. row \in TgMsgRow /\ row.row = "absent"
      BY DEF NoMsg, TgMsgRow
    <3>2. tgMsg' = [tgMsg EXCEPT ![m] = row]
      BY <1>4, <2>1, Zenon DEF TgRedelivered
    <3> QED BY <3>1, <3>2, <2>1
  <2>2. CASE OfMsg(m)
    <3> DEFINE row == [tgMsg[m] EXCEPT !.row = r, !.at = IF tgMsg[m].n <= RedeliveryLimit THEN "queue" ELSE "dead"]
    <3>1. /\ row \in TgMsgRow /\ row.row = r
          /\ row.at = "queue" \/ row.n >= RedeliveryLimit + 1
      <4>1. CASE tgMsg[m].n <= RedeliveryLimit
        BY <1>0, <1>4, <4>1 DEF TgMsgRow
      <4>2. CASE ~(tgMsg[m].n <= RedeliveryLimit)
        <5>1. row = [tgMsg[m] EXCEPT !.row = r, !.at = "dead"]
          BY <4>2
        <5>2. row \in TgMsgRow /\ row.row = r /\ row.n = tgMsg[m].n /\ tgMsg[m].n \in Nat
          BY <1>0, <5>1, <1>4 DEF TgMsgRow
        <5> QED BY <1>0, <4>2, <5>2
      <4> QED BY <4>1, <4>2
    <3>2. tgMsg' = [tgMsg EXCEPT ![m] = row]
      BY <1>0, <1>4, <2>2, Zenon DEF TgRedelivered
    <3> QED BY <3>1, <3>2, <2>2
  <2> QED BY <2>1, <2>2
<1>5. ASSUME NEW w \in TgWorkers, TgSettle(w) PROVE TgInv'
  <2>1. /\ tgWork' = [tgWork EXCEPT ![w] = TgNoWork] /\ UNCHANGED <<tgJob, tgComment, tgInstalled, tgFaults>>
        /\ \/ tgWork[w].pc = "handled"
                /\ tgMsg' = [tgMsg EXCEPT ![tgWork[w].msg] = [NoMsg EXCEPT !.row = "completed", !.at = "gone"]]
           \/ tgWork[w].pc = "failed" /\ tgMsg' = TgRedelivered(tgWork[w].msg, "released")
    BY <1>5 DEF TgSettle
  <2>2. tgWork[w].busy /\ tgWork[w].msg \in TgMessages /\ tgFaults' \in Nat /\ tgFaults' >= tgFaults
    BY <1>0, <2>1 DEF TgHands, TgHand
  <2>3. CASE tgWork[w].pc = "handled"
    <3> DEFINE row == [NoMsg EXCEPT !.row = "completed", !.at = "gone"]
    <3>1. row \in TgMsgRow /\ row.row = "completed"
      BY DEF NoMsg, TgMsgRow
    <3>2. tgMsg' = [tgMsg EXCEPT ![tgWork[w].msg] = row]
      BY <2>1, <2>3
    <3> HIDE DEF row
    <3> QED BY <1>3, <2>1, <2>2, <3>1, <3>2
  <2>4. CASE tgWork[w].pc = "failed"
    <3>1. PICK row \in TgMsgRow :
             /\ tgMsg' = [tgMsg EXCEPT ![tgWork[w].msg] = row] /\ row.row # "claimed"
             /\ OfMsg(tgWork[w].msg) => /\ row.row = "released"
                                        /\ row.at = "queue" \/ row.n >= RedeliveryLimit + 1
      BY <1>4, <2>1, <2>2, <2>4
    <3> QED BY <1>3, <2>1, <2>2, <3>1
  <2> QED BY <2>1, <2>3, <2>4
<1>6. ASSUME NEW w \in TgWorkers, TgCrash(w) PROVE TgInv'
  <2>1. /\ tgWork[w].busy /\ tgFaults' = tgFaults + 1 /\ UNCHANGED <<tgJob, tgComment, tgInstalled>>
        /\ tgMsg' = TgRedelivered(tgWork[w].msg, "claimed") /\ tgWork' = [tgWork EXCEPT ![w] = TgNoWork]
    BY <1>6 DEF TgCrash
  <2>2. tgWork[w].msg \in TgMessages
    BY <1>0, <2>1 DEF TgHands
  <2>3. PICK row \in TgMsgRow :
           /\ tgMsg' = [tgMsg EXCEPT ![tgWork[w].msg] = row]
           /\ OfMsg(tgWork[w].msg) => row.row = "claimed"
    BY <1>4, <2>1, <2>2
  <2>4. tgFaults' \in Nat /\ tgFaults' >= tgFaults /\ tgFaults' > 0
    BY <1>0, <2>1
  <2> QED BY <1>3, <2>1, <2>3, <2>4
<1> QED BY <1>1, <1>2, <1>5, <1>6

\* The claim shows a worker the report that is retained now.
LEMMA TgClaimKeeps ==
    ASSUME TgInv, NEW w \in TgWorkers, NEW m \in TgMessages, TgClaim(w, m)
    PROVE  TgInv'
<1> DEFINE row == [tgMsg[m] EXCEPT !.at = "worker", !.row = "claimed", !.live = TRUE, !.n = @ + 1]
           h == tgWork'[w]
<1>0. /\ tgMsg \in [TgMessages -> TgMsgRow] /\ tgWork \in [TgWorkers -> TgHands] /\ tgFaults \in Nat
      /\ tgMsg[m] \in TgMsgRow /\ tgJob.report \in Nat
  BY DEF TgInv, TgTypeOK
<1>1. tgMsg[m].at = "queue" /\ UNCHANGED <<tgJob, tgComment, tgInstalled, tgFaults>>
  BY DEF TgClaim
<1>2. tgMsg' = [tgMsg EXCEPT ![m] = row]
  BY <1>0, Zenon DEF TgClaim
<1>3. row \in TgMsgRow /\ row.at = "worker" /\ row.row = "claimed"
  <2>1. tgMsg[m].n + 1 \in Nat
    BY <1>0 DEF TgMsgRow
  <2>2. row = [tgMsg[m] EXCEPT !.at = "worker", !.row = "claimed", !.live = TRUE, !.n = tgMsg[m].n + 1]
    BY <1>0, Zenon DEF TgMsgRow
  <2> HIDE DEF row
  <2> QED BY <1>0, <2>1, <2>2 DEF TgMsgRow
<1>4. \E pc \in {"handled", "acknowledge", "sayfailed", "publish", "analyze"} :
         /\ pc = "publish" => tgJob.state = "acknowledged" /\ tgJob.report # NoReport
         /\ tgWork' = [tgWork EXCEPT ![w] = [busy |-> TRUE, msg |-> m, pc |-> pc,
                                             report |-> IF pc = "publish" THEN tgJob.report ELSE NoReport]]
  BY DEF TgClaim
<1>5. PICK pc \in {"handled", "acknowledge", "sayfailed", "publish", "analyze"} :
         /\ pc = "publish" => tgJob.state = "acknowledged" /\ tgJob.report # NoReport
         /\ tgWork' = [tgWork EXCEPT ![w] = [busy |-> TRUE, msg |-> m, pc |-> pc,
                                             report |-> IF pc = "publish" THEN tgJob.report ELSE NoReport]]
  BY <1>4
<1>6. [busy |-> TRUE, msg |-> m, pc |-> pc, report |-> IF pc = "publish" THEN tgJob.report ELSE NoReport] \in TgHands
  BY <1>0 DEF TgHands, TgHand, TgPcs, NoReport
<1>7. /\ h.msg = m /\ h.pc = pc /\ (pc = "publish" => h.report = tgJob.report)
      /\ tgWork' \in [TgWorkers -> TgHands] /\ \A v \in TgWorkers : v # w => tgWork'[v] = tgWork[v]
  BY <1>0, <1>5, <1>6
<1> HIDE DEF row, h
<1>8. ~TgFuture(m)
  BY <1>1 DEF TgInv, TgNotYet
<1>9. tgFaults' \in Nat /\ tgFaults' >= tgFaults
  BY <1>0, <1>1
<1>10. \A v \in TgWorkers :
         \/ tgWork'[v] = tgWork[v] \/ tgWork'[v].pc = "idle"
         \/ /\ ~TgFuture(m) /\ tgWork'[v].msg = m /\ tgWork'[v].pc \notin {"stage", "complete"}
            /\ tgWork'[v].pc = "publish" =>
                 tgJob.state = "acknowledged" /\ tgWork'[v].report = tgJob.report /\ tgJob.report # NoReport
  BY <1>5, <1>7, <1>8 DEF h
<1> QED BY <1>1, <1>2, <1>3, <1>7, <1>8, <1>9, <1>10, TgMsgMoves

\* A publication writes the comment only over the row it is about.
LEMMA TgPublishes ==
    ASSUME TgInv, NEW w \in TgWorkers, tgWork[w].pc # "idle",
           NEW state \in {"queued", "failed", "acknowledged"}, NEW kind, NEW then \in {"mark", "handled", "complete"},
           NEW refused \in {"handled", "complete"}, TgPublish(w, state, kind, then, refused),
           state = "acknowledged" => kind = "report",
           then = "complete" => state = "acknowledged",
           then = "complete" \/ refused = "complete" => tgWork[w].pc = "publish" /\ state = "acknowledged"
    PROVE  TgInv'
<1> DEFINE report == tgWork[w].report
           written == [rev |-> tgWork[w].msg.rev, kind |-> kind, report |-> report]
           fence == tgOn /\ OfMsg(tgWork[w].msg) /\ tgJob.state = state /\ tgJob.report = report
<1>1. UNCHANGED <<tgJob, tgMsg, tgInstalled, tgFaults>>
  BY DEF TgPublish
<1>2. report \in Nat /\ NoReport \in Nat
  BY DEF TgInv, TgTypeOK, TgHands, TgHand, NoReport
<1>3. IF fence
         THEN \/ tgComment' = written /\ TgGoes(w, then, report)
              \/ tgComment' = written /\ TgGoes(w, "failed", NoReport)
              \/ UNCHANGED tgComment /\ TgGoes(w, "failed", NoReport)
         ELSE UNCHANGED tgComment /\ TgGoes(w, refused, report)
  BY Zenon DEF TgPublish, WithCurrentProviderIssuePublication, PublishProviderIssueAnalysis
<1>4. fence => written = TgGood \/ tgJob.state \notin {"acknowledged", "completed"}
  BY DEF TgGood, OfMsg
<1>5. fence /\ state = "acknowledged" => written = TgGood
  BY DEF TgGood, OfMsg
<1>6. tgWork[w].pc = "publish" /\ OfMsg(tgWork[w].msg) =>
        tgJob.state \in {"acknowledged", "completed"} /\ report = tgJob.report /\ report # NoReport
  BY DEF TgInv, TgStaged
<1>7. {"mark", "handled", "complete", "failed"} \subseteq TgPcs \ {"idle", "stage", "publish"}
  BY DEF TgPcs
<1>8. tgInstalled = "active" => tgOn
  BY DEF tgOn
<1> HIDE DEF written, report
<1>9. CASE fence /\ TgGoes(w, "failed", NoReport)
  BY <1>9, <1>1, <1>2, <1>3, <1>4, <1>7, TgWorkMoves
<1>10. CASE fence /\ tgComment' = written /\ TgGoes(w, then, report)
  BY <1>10, <1>1, <1>2, <1>4, <1>5, <1>6, <1>7, TgWorkMoves
<1>11. CASE ~fence /\ UNCHANGED tgComment /\ TgGoes(w, refused, report)
  <2>1. refused = "complete" /\ OfMsg(tgWork[w].msg) /\ tgInstalled = "active" => tgJob.state = "completed"
    BY <1>11, <1>6, <1>8
  <2>2. tgJob.state = "completed" /\ tgInstalled = "active" => tgComment' = TgGood
    BY <1>11 DEF TgInv, CommentKeepsUp, TgGood
  <2> QED BY <1>11, <1>1, <1>2, <1>6, <1>7, <2>1, <2>2, TgWorkMoves
<1> QED BY <1>3, <1>9, <1>10, <1>11

\* A worker that moves the job on within its attempt writes no message.
LEMMA TgJobMoves ==
    ASSUME TgInv, NEW w \in TgWorkers, tgWork[w].pc # "idle", NEW pc \in TgPcs \ {"idle"}, NEW report \in Nat,
           TgGoes(w, pc, report), UNCHANGED <<tgMsg, tgInstalled, tgFaults>>,
           NEW state \in {"acknowledged", "failed", "completed"}, NEW kept \in Nat,
           tgJob' = [tgJob EXCEPT !.state = state, !.report = kept],
           tgJob.state \in {"queued", "acknowledged"}, state = "acknowledged" => tgJob.state = "acknowledged"
    PROVE  /\ TgTypeOK' /\ TgNotYet' /\ TgClaimHeld' /\ PendingCanBeFinished'
           /\ tgJob'.rev = tgJob.rev /\ tgJob'.attempt = tgJob.attempt /\ tgJob'.state = state /\ tgJob'.report = kept
           /\ tgWork'[w].pc = pc /\ tgWork'[w].report = report
           /\ \A v \in TgWorkers : /\ v # w => tgWork'[v] = tgWork[v]
                                   /\ tgWork'[v].msg = tgWork[v].msg
<1>1. /\ tgWork' \in [TgWorkers -> TgHands]
      /\ tgWork'[w].pc = pc /\ tgWork'[w].report = report
      /\ \A v \in TgWorkers : /\ v # w => tgWork'[v] = tgWork[v]
                              /\ tgWork'[v].msg = tgWork[v].msg /\ tgWork'[v].busy = tgWork[v].busy
  BY TgGoTypes DEF TgInv
<1>2. /\ tgJob'.rev = tgJob.rev /\ tgJob'.attempt = tgJob.attempt /\ tgJob'.state = state /\ tgJob'.report = kept
      /\ tgJob' \in [rev : 0..MaxTgRevisions, attempt : 1..MaxTgAttempts,
                     state : {"none", "queued", "acknowledged", "failed", "completed"}, report : Nat]
  BY DEF TgInv, TgTypeOK
<1>3. TgTypeOK' /\ TgClaimHeld'
  BY <1>1, <1>2 DEF TgInv, TgTypeOK, TgClaimHeld
<1>4. TgNotYet'
  BY <1>1, <1>2 DEF TgInv, TgNotYet, TgFuture, OfMsg
<1>5. PendingCanBeFinished'
  BY <1>2 DEF TgInv, PendingCanBeFinished, PendingMsg, Retryable, TerminalDeliveryFailure, SkippedDelivery
<1> QED BY <1>1, <1>2, <1>3, <1>4, <1>5

LEMMA TgStageKeeps ==
    ASSUME TgInv, NEW w \in TgWorkers, StageProviderIssueAnalysis(w)
    PROVE  TgInv'
<1> DEFINE current == OfMsg(tgWork[w].msg) /\ tgJob.state = "acknowledged"
           kept == IF tgJob.report = NoReport THEN tgWork[w].report ELSE tgJob.report
<1>1. /\ tgWork[w].pc = "stage" /\ UNCHANGED <<tgMsg, tgComment, tgInstalled, tgFaults>>
      /\ IF current THEN tgJob' = [tgJob EXCEPT !.report = kept] /\ TgGoes(w, "publish", kept)
                    ELSE UNCHANGED tgJob /\ TgGoes(w, "handled", NoReport)
  BY DEF StageProviderIssueAnalysis
<1>2. kept \in Nat /\ kept # NoReport /\ NoReport \in Nat
  BY <1>1 DEF TgInv, TgTypeOK, TgHands, TgHand, TgStaged, NoReport
<1>3. {"publish", "handled"} \subseteq TgPcs \ {"idle"}
  BY DEF TgPcs
<1>4. tgJob.report # NoReport => kept = tgJob.report
  OBVIOUS
<1> HIDE DEF kept
<1>5. CASE current
  <2>1. tgJob' = [tgJob EXCEPT !.state = "acknowledged", !.report = kept]
    BY <1>1, <1>5 DEF TgInv, TgTypeOK
  <2>2. TgGoes(w, "publish", kept)
    BY <1>1, <1>5
  <2>3. /\ TgTypeOK' /\ TgNotYet' /\ TgClaimHeld' /\ PendingCanBeFinished'
        /\ tgJob'.rev = tgJob.rev /\ tgJob'.attempt = tgJob.attempt /\ tgJob'.state = "acknowledged" /\ tgJob'.report = kept
        /\ tgWork'[w].pc = "publish" /\ tgWork'[w].report = kept
        /\ \A v \in TgWorkers : /\ v # w => tgWork'[v] = tgWork[v]
                                /\ tgWork'[v].msg = tgWork[v].msg
    BY <1>1, <1>2, <1>3, <1>5, <2>1, <2>2, TgJobMoves
  <2>4. TgStaged'
    BY <1>1, <1>2, <1>4, <2>3 DEF TgInv, TgStaged, OfMsg, TgGood
  <2> QED BY <2>3, <2>4 DEF TgInv, CommentKeepsUp
<1>6. CASE ~current
  BY <1>1, <1>2, <1>3, <1>6, TgWorkMoves
<1> QED BY <1>5, <1>6

LEMMA TgFailKeeps ==
    ASSUME TgInv, NEW w \in TgWorkers, FailProviderIssueAnalysis(w)
    PROVE  TgInv'
<1>1. /\ tgWork[w].pc = "fail" /\ UNCHANGED <<tgMsg, tgComment, tgInstalled, tgFaults>>
      /\ IF OfMsg(tgWork[w].msg) /\ tgJob.state \in {"queued", "acknowledged"} /\ tgJob.report = NoReport
           THEN tgJob' = [tgJob EXCEPT !.state = "failed"] /\ TgGoes(w, "sayfailed", NoReport)
           ELSE UNCHANGED tgJob /\ TgGoes(w, "handled", NoReport)
  BY DEF FailProviderIssueAnalysis
<1>2. {"sayfailed", "handled"} \subseteq TgPcs \ {"idle"} /\ NoReport \in Nat
  BY DEF TgPcs, NoReport
<1>3. CASE OfMsg(tgWork[w].msg) /\ tgJob.state \in {"queued", "acknowledged"} /\ tgJob.report = NoReport
  <2>1. tgJob' = [tgJob EXCEPT !.state = "failed", !.report = NoReport]
    BY <1>1, <1>3 DEF TgInv, TgTypeOK
  <2>2. /\ TgTypeOK' /\ TgNotYet' /\ TgClaimHeld' /\ PendingCanBeFinished'
        /\ tgJob'.rev = tgJob.rev /\ tgJob'.attempt = tgJob.attempt /\ tgJob'.state = "failed"
        /\ tgWork'[w].pc = "sayfailed"
        /\ \A v \in TgWorkers : /\ v # w => tgWork'[v] = tgWork[v]
                                /\ tgWork'[v].msg = tgWork[v].msg
    BY <1>1, <1>2, <1>3, <2>1, TgJobMoves, ZenonT(40)
  <2>3. TgStaged'
    BY <1>1, <1>3, <2>2 DEF TgInv, TgStaged, OfMsg
  <2> QED BY <2>2, <2>3 DEF TgInv, CommentKeepsUp
<1>4. CASE ~(OfMsg(tgWork[w].msg) /\ tgJob.state \in {"queued", "acknowledged"} /\ tgJob.report = NoReport)
  BY <1>1, <1>2, <1>4, TgWorkMoves
<1> QED BY <1>3, <1>4

LEMMA TgCompleteKeeps ==
    ASSUME TgInv, NEW w \in TgWorkers, CompleteProviderIssueAnalysis(w)
    PROVE  TgInv'
<1> DEFINE current == OfMsg(tgWork[w].msg) /\ tgJob.state = "acknowledged" /\ tgJob.report = tgWork[w].report
<1>1. /\ tgWork[w].pc = "complete" /\ UNCHANGED <<tgMsg, tgComment, tgInstalled, tgFaults>>
      /\ TgGoes(w, "handled", NoReport)
      /\ IF current THEN tgJob' = [tgJob EXCEPT !.state = "completed"] ELSE UNCHANGED tgJob
  BY DEF CompleteProviderIssueAnalysis
<1>2. "handled" \in TgPcs \ {"idle"} /\ NoReport \in Nat /\ tgJob.report \in Nat
  BY DEF TgPcs, NoReport, TgInv, TgTypeOK
<1>3. CASE current
  <2>1. tgJob' = [tgJob EXCEPT !.state = "completed", !.report = tgJob.report]
    BY <1>1, <1>3 DEF TgInv, TgTypeOK
  <2>2. /\ TgTypeOK' /\ TgNotYet' /\ TgClaimHeld' /\ PendingCanBeFinished'
        /\ tgJob'.rev = tgJob.rev /\ tgJob'.attempt = tgJob.attempt /\ tgJob'.state = "completed" /\ tgJob'.report = tgJob.report
        /\ tgWork'[w].pc = "handled"
        /\ \A v \in TgWorkers : /\ v # w => tgWork'[v] = tgWork[v]
                                /\ tgWork'[v].msg = tgWork[v].msg
    BY <1>1, <1>2, <1>3, <2>1, TgJobMoves, ZenonT(40)
  <2>3. TgStaged'
    BY <1>1, <2>2 DEF TgInv, TgStaged, OfMsg, TgGood
  <2>4. CommentKeepsUp'
    BY <1>1, <1>3, <2>2 DEF TgInv, TgStaged, TgGood, CommentKeepsUp
  <2> QED BY <2>2, <2>3, <2>4 DEF TgInv
<1>4. CASE ~current
  BY <1>1, <1>2, <1>4, TgWorkMoves
<1> QED BY <1>3, <1>4

\* The acknowledged attempt gets the message that analyses it.
LEMMA TgMarkKeeps ==
    ASSUME TgInv, NEW w \in TgWorkers, MarkProviderIssueAcknowledged(w)
    PROVE  TgInv'
<1> DEFINE m == tgWork[w].msg
           new == [topic |-> "analyze", rev |-> tgJob.rev, attempt |-> tgJob.attempt]
<1>1. /\ tgWork[w].pc = "mark" /\ TgGoes(w, "handled", NoReport) /\ UNCHANGED <<tgComment, tgInstalled, tgFaults>>
      /\ IF OfMsg(m) /\ tgJob.state = "queued"
           THEN tgJob' = [tgJob EXCEPT !.state = "acknowledged"] /\ insertProviderIssueOutbox("analyze", m.rev, m.attempt)
           ELSE UNCHANGED <<tgJob, tgMsg>>
  BY DEF MarkProviderIssueAcknowledged
<1>2. "handled" \in TgPcs \ {"idle"} /\ NoReport \in Nat
  BY DEF TgPcs, NoReport
<1>3. CASE OfMsg(m) /\ tgJob.state = "queued"
  <2>1. /\ tgJob'.rev = tgJob.rev /\ tgJob'.attempt = tgJob.attempt /\ tgJob'.state = "acknowledged"
        /\ tgJob' \in [rev : 0..MaxTgRevisions, attempt : 1..MaxTgAttempts,
                       state : {"none", "queued", "acknowledged", "failed", "completed"}, report : Nat]
    BY <1>1, <1>3 DEF TgInv, TgTypeOK
  <2>2. tgJob.rev \in 1..MaxTgRevisions /\ tgJob.attempt \in 1..MaxTgAttempts
    BY <1>3, TriageAssumption DEF TgInv, TgTypeOK
  <2>3. insertProviderIssueOutbox("analyze", tgJob.rev, tgJob.attempt)
    BY <1>1, <1>3 DEF OfMsg
  <2>4. /\ tgMsg' \in [TgMessages -> TgMsgRow]
        /\ new \in TgMessages /\ (tgMsg[new].at = "none" => tgMsg'[new].at = "queue")
        /\ \A k \in TgMessages : /\ k # new /\ tgMsg[k].at = "none" => tgMsg'[k].at = "none"
                                 /\ tgMsg'[k].row = "claimed" => tgMsg'[k] = tgMsg[k]
    BY <2>2, <2>3, TgInserts DEF TgInv
  <2>5. /\ tgWork' \in [TgWorkers -> TgHands] /\ tgWork'[w].pc = "handled"
        /\ \A v \in TgWorkers : /\ v # w => tgWork'[v] = tgWork[v]
                                /\ tgWork'[v].msg = tgWork[v].msg /\ tgWork'[v].busy = tgWork[v].busy
    BY <1>1, <1>2, TgGoTypes DEF TgInv
  <2>6. PendingMsg' = new /\ new.rev = tgJob.rev /\ new.attempt = tgJob.attempt /\ new.topic = "analyze"
    BY <2>1 DEF PendingMsg
  <2> HIDE DEF new
  <2>7. TgFuture(new)
    BY <1>3, <2>6 DEF TgFuture, OfMsg
  <2>8. PendingCanBeFinished' /\ CommentKeepsUp'
    BY <2>1, <2>4, <2>6, <2>7 DEF TgInv, TgNotYet, PendingCanBeFinished, CommentKeepsUp
  <2>9. TgTypeOK' /\ TgClaimHeld'
    BY <1>1, <2>1, <2>4, <2>5 DEF TgInv, TgTypeOK, TgClaimHeld
  <2>10. \A k \in TgMessages : TgFuture(k)' => TgFuture(k) /\ k # new
    BY <2>1, <2>2, <2>6 DEF TgFuture, TgMessages
  <2>11. TgNotYet'
    BY <2>4, <2>5, <2>10 DEF TgInv, TgNotYet
  <2>12. TgStaged'
    BY <1>1, <1>3, <2>1, <2>5 DEF TgInv, TgStaged, OfMsg
  <2> QED BY <2>8, <2>9, <2>11, <2>12 DEF TgInv
<1>4. CASE ~(OfMsg(m) /\ tgJob.state = "queued")
  BY <1>1, <1>2, <1>4, TgWorkMoves
<1> QED BY <1>3, <1>4

LEMMA TgStep == TgInv /\ [TgNext]_tgVars => TgInv'
<1> SUFFICES ASSUME TgInv, [TgNext]_tgVars PROVE TgInv'
  OBVIOUS
<1>1. ASSUME NEW w \in TgWorkers,
             PublishProviderIssueAcknowledgement(w) \/ PublishFailure(w) \/ publishStagedProviderIssueAnalysis(w)
      PROVE  TgInv'
  <2>1. CASE PublishProviderIssueAcknowledgement(w)
    BY <2>1, TgPublishes DEF PublishProviderIssueAcknowledgement
  <2>2. CASE PublishFailure(w)
    BY <2>2, TgPublishes DEF PublishFailure
  <2>3. CASE publishStagedProviderIssueAnalysis(w)
    BY <2>3, TgPublishes DEF publishStagedProviderIssueAnalysis
  <2> QED BY <1>1, <2>1, <2>2, <2>3
<1>2. ASSUME NEW w \in TgWorkers, Analyze(w) PROVE TgInv'
  <2>1. /\ tgWork[w].pc = "analyze" /\ UNCHANGED <<tgJob, tgMsg, tgComment, tgInstalled, tgFaults>>
        /\ TgGoes(w, "stage", tgWork[w].msg.rev) \/ TgGoes(w, "fail", NoReport)
    BY <1>2 DEF Analyze
  <2>2. /\ tgWork[w].msg.rev \in Nat /\ tgWork[w].msg.rev # NoReport /\ NoReport \in Nat
        /\ {"stage", "fail"} \subseteq TgPcs \ {"idle"}
    BY <2>1, TriageAssumption DEF TgInv, TgTypeOK, TgHands, TgHand, TgMessages, NoReport, TgPcs
  <2> QED BY <2>1, <2>2, TgWorkMoves
<1>3. CASE InstallationTurned
  <2>1. tgInstalled' \in {"off", "again"} /\ UNCHANGED <<tgJob, tgMsg, tgWork, tgComment, tgFaults>>
    BY <1>3 DEF InstallationTurned
  <2> QED BY <2>1 DEF TgInv, TgTypeOK, TgNotYet, TgFuture, OfMsg, TgClaimHeld, TgStaged, CommentKeepsUp,
         PendingCanBeFinished, PendingMsg, Retryable, TerminalDeliveryFailure, SkippedDelivery
<1>4. CASE UNCHANGED <<tgJob, tgMsg, tgWork, tgComment, tgInstalled, tgFaults>>
  BY <1>4 DEF TgInv, TgTypeOK, TgNotYet, TgFuture, OfMsg, TgClaimHeld, TgStaged, TgGood, CommentKeepsUp,
     PendingCanBeFinished, PendingMsg, Retryable, TerminalDeliveryFailure, SkippedDelivery
<1>5. CASE \/ React \/ ClaimProviderIssueFeedbackPoll \/ CompleteProviderIssueFeedbackPoll \/ FailProviderIssueFeedbackPoll
           \/ \E created \in BOOLEAN : RecordProviderIssueReaction(created)
           \/ UNCHANGED tgVars
  <2>1. UNCHANGED <<tgJob, tgMsg, tgWork, tgComment, tgInstalled, tgFaults>>
    BY <1>5, Zenon DEF React, ClaimProviderIssueFeedbackPoll, CompleteProviderIssueFeedbackPoll,
       FailProviderIssueFeedbackPoll, RecordProviderIssueReaction, tgVars
  <2> QED BY <2>1, <1>4
<1> QED BY <1>1, <1>2, <1>3, <1>5, TgEntersKeep, TgSettlesKeep, TgClaimKeeps, TgStageKeeps, TgFailKeeps,
           TgCompleteKeeps, TgMarkKeeps, Zenon DEF TgNext

-----------------------------------------------------------------------------
(* ReviewIssues.                                                           *)

IsStatuses == {"none", "open", "regressed", "suppressed", "resolved"}
IsIssueRow == [status : IsStatuses, disposition : {"", "resolved", "false_positive", "exception"}, active : Nat]
IsSyncRow == [pc : {"idle", "upsert", "count", "refresh"}, found : BOOLEAN, prior : IsStatuses,
              status : IsStatuses, seen : Nat]
IsExceptionRow == [state : {"none", "pending", "approved", "rejected", "revoked"}, current : BOOLEAN, expired : BOOLEAN]

IsTypeOK ==
    /\ isIssue \in IsIssueRow /\ isSync \in [PullRequests -> IsSyncRow]
    /\ isFound \subseteq PullRequests /\ IsFiniteSet(isFound)
    /\ isException \in IsExceptionRow /\ isExcuse \in [person : BOOLEAN, overlap : BOOLEAN]

\* A review that found the finding holds the row from its upsert to its end,
\* and carries the status it read, which nobody else changes meanwhile.
IsLocked ==
    \A p \in PullRequests :
        /\ isSync[p].pc = "upsert" => isSync[p].found
        /\ isLock = p <=> isSync[p].found /\ isSync[p].pc \in {"count", "refresh"}
        /\ isLock = p => /\ isSync[p].status \notin {"none", "resolved"}
                         /\ isIssue.status = "suppressed" <=> isSync[p].status = "suppressed"

\* A review that counted nothing has not the finding, and neither has any
\* other, unless another review ended since.
IsCounted ==
    \A p \in PullRequests : isSync[p].pc = "refresh" /\ isSync[p].seen = 0 =>
        ~isSync[p].found /\ (isExcuse.overlap \/ isFound \subseteq {p})

IsActive == isIssue.active = 0 => isFound = {} \/ isExcuse.overlap

IsInv == IsTypeOK /\ IsLocked /\ IsCounted /\ IsActive /\ IssueTellsTheTruth

LEMMA IsInitInv == IsInit => IsInv
<1> SUFFICES ASSUME IsInit PROVE IsInv
  OBVIOUS
<1>1. IsNoSync \in IsSyncRow /\ IsNoSync.pc = "idle" /\ IsFiniteSet({})
  BY FS_EmptySet DEF IsNoSync, IsSyncRow, IsStatuses
<1>2. IsTypeOK
  BY <1>1 DEF IsInit, IsTypeOK, IsIssueRow, IsStatuses, IsExceptionRow
<1>3. IsLocked /\ IsCounted /\ IsActive
  BY <1>1, IssueAssumption DEF IsInit, IsLocked, IsCounted, IsActive, IsNobody
<1> QED BY <1>2, <1>3 DEF IsInit, IsInv, IssueTellsTheTruth, IsExcepted

\* A review moves on and leaves the issue alone.
LEMMA IsSyncMoves ==
    ASSUME IsInv, NEW p \in PullRequests, NEW row \in IsSyncRow, isSync' = [isSync EXCEPT ![p] = row],
           UNCHANGED <<isIssue, isFound, isException, isExcuse>>, isLock' = isLock \/ (isLock = IsNobody /\ isLock' = p),
           row.pc = "upsert" => row.found,
           isLock' = p <=> row.found /\ row.pc \in {"count", "refresh"},
           isLock' = p => /\ row.status \notin {"none", "resolved"}
                          /\ isIssue.status = "suppressed" <=> row.status = "suppressed",
           row.pc = "refresh" /\ row.seen = 0 => ~row.found /\ isFound \subseteq {p}
    PROVE  IsInv'
<1>1. \A q \in PullRequests : isSync'[q] = IF q = p THEN row ELSE isSync[q]
  BY DEF IsInv, IsTypeOK
<1>2. IsTypeOK' /\ IsActive' /\ IssueTellsTheTruth'
  BY DEF IsInv, IsTypeOK, IsActive, IssueTellsTheTruth, IsExcepted
<1>3. IsLocked'
  BY <1>1, IssueAssumption DEF IsInv, IsLocked, IsNobody
<1>4. IsCounted'
  BY <1>1 DEF IsInv, IsCounted
<1> QED BY <1>2, <1>3, <1>4 DEF IsInv

LEMMA IsReviewKeeps ==
    ASSUME IsInv, NEW p \in PullRequests, (\E found \in BOOLEAN : BeginSync(p, found)) \/ UpsertIssue(p) \/ CountOccurrences(p)
    PROVE  IsInv'
<1>0. isSync[p] \in IsSyncRow /\ isIssue.status \in IsStatuses /\ isIssue \in IsIssueRow /\ IsNoSync \in IsSyncRow
  BY DEF IsInv, IsTypeOK, IsIssueRow, IsNoSync, IsSyncRow, IsStatuses
<1>1. ASSUME NEW found \in BOOLEAN, BeginSync(p, found) PROVE IsInv'
  <2> DEFINE row == [IsNoSync EXCEPT !.pc = IF found THEN "upsert" ELSE "count", !.found = found,
                                     !.prior = IF p \in isFound THEN isIssue.status ELSE "none"]
  <2>1. /\ isSync[p].pc = "idle" /\ isSync' = [isSync EXCEPT ![p] = row]
        /\ UNCHANGED <<isIssue, isFound, isLock, isException, isExcuse>>
    BY <1>1, Zenon DEF BeginSync, IsSyncs
  <2>2. row \in IsSyncRow /\ (IF found THEN row.pc = "upsert" ELSE row.pc = "count") /\ row.found = found
    BY <1>0, <1>1 DEF IsNoSync, IsSyncRow, IsStatuses
  <2> HIDE DEF row
  <2>3. isLock # p
    BY <2>1 DEF IsInv, IsLocked
  <2> QED BY <2>1, <2>2, <2>3, IsSyncMoves
<1>2. CASE UpsertIssue(p)
  <2> DEFINE s == IF isIssue.status = "none" THEN "open" ELSE IF isIssue.status = "resolved" THEN "regressed" ELSE isIssue.status
             row == [isSync[p] EXCEPT !.pc = "count", !.prior = IF @ = "none" THEN isIssue.status ELSE @, !.status = s]
  <2>1. /\ isSync[p].pc = "upsert" /\ isLock = IsNobody /\ isLock' = p /\ isSync' = [isSync EXCEPT ![p] = row]
        /\ UNCHANGED <<isIssue, isFound, isException, isExcuse>>
    BY <1>2 DEF UpsertIssue, IsSyncs
  <2>2. s \in IsStatuses \ {"none", "resolved"} /\ (isIssue.status = "suppressed" <=> s = "suppressed")
    BY <1>0 DEF IsStatuses
  <2> HIDE DEF s
  <2>3. row \in IsSyncRow /\ row.pc = "count" /\ row.status = s /\ row.found = isSync[p].found
    BY <1>0, <2>2 DEF IsSyncRow
  <2> HIDE DEF row
  <2>4. isSync[p].found
    BY <2>1 DEF IsInv, IsLocked
  <2> QED BY <2>1, <2>2, <2>3, <2>4, IsSyncMoves
<1>3. CASE CountOccurrences(p)
  <2> DEFINE n == IsActiveCount(p)
             row == [isSync[p] EXCEPT !.pc = "refresh", !.seen = n]
  <2>1. /\ isSync[p].pc = "count" /\ isSync' = [isSync EXCEPT ![p] = row]
        /\ UNCHANGED <<isIssue, isFound, isLock, isException, isExcuse>>
    BY <1>3 DEF CountOccurrences, IsSyncs
  <2>2. IsFiniteSet(isFound \ {p})
    BY FS_Difference DEF IsInv, IsTypeOK
  <2>3. Cardinality(isFound \ {p}) \in Nat /\ (Cardinality(isFound \ {p}) = 0 => isFound \ {p} = {})
    BY <2>2, FS_CardinalityType, FS_EmptySet
  <2>4. n \in Nat /\ (n = 0 => ~isSync[p].found /\ isFound \subseteq {p})
    BY <2>3 DEF IsActiveCount
  <2> HIDE DEF n
  <2>5. row \in IsSyncRow /\ row.pc = "refresh" /\ row.seen = n /\ row.found = isSync[p].found /\ row.status = isSync[p].status
    BY <1>0, <2>4 DEF IsSyncRow
  <2> HIDE DEF row
  <2>6. /\ isLock = p <=> isSync[p].found
        /\ isLock = p => /\ isSync[p].status \notin {"none", "resolved"}
                         /\ isIssue.status = "suppressed" <=> isSync[p].status = "suppressed"
    BY <2>1 DEF IsInv, IsLocked
  <2> QED BY <2>1, <2>4, <2>5, <2>6, IsSyncMoves
<1> QED BY <1>1, <1>2, <1>3

\* A review ends: it writes what it read under the lock, or what it counted.
LEMMA IsRefreshKeeps ==
    ASSUME IsInv, NEW p \in PullRequests, RefreshIssue(p)
    PROVE  IsInv'
<1> DEFINE s == isSync[p]
           before == IF s.found THEN s.status ELSE isIssue.status
           status == IsRefreshed(before, s.seen)
           overlaps == \E q \in PullRequests \ {p} : isSync[q].pc = "refresh"
<1>0. /\ s \in IsSyncRow /\ isIssue \in IsIssueRow /\ isException \in IsExceptionRow
      /\ isExcuse \in [person : BOOLEAN, overlap : BOOLEAN] /\ IsNoSync \in IsSyncRow /\ IsNoSync.pc = "idle"
  BY DEF IsInv, IsTypeOK, IsNoSync, IsSyncRow, IsStatuses
<1>1. /\ s.pc = "refresh" /\ isLock \in {IsNobody, p} /\ isLock' = IsNobody
      /\ isIssue' = [isIssue EXCEPT !.status = status, !.active = s.seen]
      /\ isException' = IF status # isIssue.status THEN IsRevised ELSE isException
      /\ isFound' = IF s.found THEN isFound \cup {p} ELSE isFound \ {p}
      /\ isSync' = [isSync EXCEPT ![p] = IsNoSync]
      /\ isExcuse' = [isExcuse EXCEPT !.overlap = @ \/ overlaps]
  BY Zenon DEF RefreshIssue, IsSyncs
<1>2. before \in IsStatuses /\ (before = "suppressed" <=> isIssue.status = "suppressed") /\ (s.found => before # "resolved")
  BY <1>0, <1>1 DEF IsInv, IsLocked, IsSyncRow, IsIssueRow
<1>3. /\ status \in IsStatuses /\ (status = "suppressed" <=> isIssue.status = "suppressed")
      /\ status = "resolved" => before = "resolved" \/ s.seen = 0
  BY <1>2 DEF IsRefreshed, IsStatuses
<1>4. s.seen = 0 => ~s.found /\ (isExcuse.overlap \/ isFound \subseteq {p})
  BY <1>1 DEF IsInv, IsCounted
<1>5. status = "resolved" => /\ ~s.found
                             /\ isIssue.status = "resolved" \/ isExcuse.overlap \/ isFound \subseteq {p}
  BY <1>2, <1>3, <1>4
<1> HIDE DEF status, before, overlaps
<1>6. /\ isIssue' \in IsIssueRow /\ isIssue'.status = status /\ isIssue'.active = s.seen
      /\ isIssue'.disposition = isIssue.disposition
  BY <1>0, <1>1, <1>3 DEF IsIssueRow, IsSyncRow
<1>7. isException' \in IsExceptionRow /\ isException'.state = isException.state
  BY <1>0, <1>1 DEF IsRevised, IsExceptionRow
<1>8. /\ isExcuse' \in [person : BOOLEAN, overlap : BOOLEAN] /\ isExcuse'.person = isExcuse.person
      /\ isExcuse'.overlap <=> isExcuse.overlap \/ overlaps
  BY <1>0, <1>1, Zenon DEF overlaps
<1>9. isFound' \subseteq PullRequests /\ IsFiniteSet(isFound')
  BY <1>1, FS_AddElement, FS_Difference DEF IsInv, IsTypeOK
<1>10. /\ isSync' \in [PullRequests -> IsSyncRow] /\ isSync'[p] = IsNoSync
       /\ \A q \in PullRequests \ {p} : isSync'[q] = isSync[q]
  BY <1>0, <1>1 DEF IsInv, IsTypeOK
<1>11. IsTypeOK'
  BY <1>6, <1>7, <1>8, <1>9, <1>10 DEF IsTypeOK
<1>12. IsLocked'
  BY <1>0, <1>1, <1>10, IssueAssumption DEF IsInv, IsLocked, IsNobody
<1>13. IsCounted'
  BY <1>0, <1>8, <1>10 DEF IsInv, IsCounted, overlaps
<1>14. IsActive'
  BY <1>1, <1>4, <1>6, <1>8 DEF IsActive
<1>15. IssueTellsTheTruth'
  BY <1>1, <1>3, <1>5, <1>6, <1>7, <1>8 DEF IsInv, IssueTellsTheTruth, IsExcepted
<1> QED BY <1>11, <1>12, <1>13, <1>14, <1>15 DEF IsInv

\* People write the issue while no review holds its row.
LEMMA IsEdited ==
    ASSUME IsInv, NEW issue \in IsIssueRow, isIssue' = issue, issue.active = isIssue.active,
           isLock = IsNobody \/ issue = isIssue, UNCHANGED <<isFound, isSync, isLock>>,
           isException' \in IsExceptionRow, isExcuse' \in [person : BOOLEAN, overlap : BOOLEAN],
           isExcuse'.overlap = isExcuse.overlap, IssueTellsTheTruth'
    PROVE  IsInv'
<1>1. IsTypeOK' /\ IsActive' /\ IsCounted'
  BY DEF IsInv, IsTypeOK, IsActive, IsCounted
<1>2. IsLocked'
  BY IssueAssumption DEF IsInv, IsLocked, IsNobody
<1> QED BY <1>1, <1>2 DEF IsInv

LEMMA IsClearedFacts ==
    ASSUME IsInv
    PROVE  IsCleared \in {"open", "resolved"} /\ (IsCleared = "resolved" => isFound = {} \/ isExcuse.overlap)
<1>1. isIssue.active \in Nat
  BY DEF IsInv, IsTypeOK, IsIssueRow
<1> QED BY <1>1 DEF IsInv, IsActive, IsCleared

LEMMA IsMutateKeeps ==
    ASSUME IsInv, NEW action \in {"resolve", "reopen", "false_positive", "suppression_cleared"}, MutateIssue(action)
    PROVE  IsInv'
<1> DEFINE to == [resolve |-> [status |-> "resolved", disposition |-> "resolved"],
                  reopen |-> [status |-> "open", disposition |-> ""],
                  false_positive |-> [status |-> "suppressed", disposition |-> "false_positive"],
                  suppression_cleared |-> [status |-> IsCleared, disposition |-> ""]]
           issue == [isIssue EXCEPT !.status = to[action].status, !.disposition = to[action].disposition]
<1>0. /\ isIssue \in IsIssueRow /\ isException \in IsExceptionRow
      /\ isExcuse \in [person : BOOLEAN, overlap : BOOLEAN]
  BY DEF IsInv, IsTypeOK
<1>1. /\ isLock = IsNobody /\ isException' = IsRevised /\ UNCHANGED <<isFound, isSync, isLock>>
      /\ isExcuse' = [isExcuse EXCEPT !.person = @ \/ action = "resolve"]
  BY DEF MutateIssue, IsFree
<1>2. isIssue' = issue
  <2>1. CASE action = "resolve"
    BY <2>1, <1>0 DEF MutateIssue, IsIssueRow
  <2>2. CASE action = "reopen"
    BY <2>2, <1>0 DEF MutateIssue, IsIssueRow
  <2>3. CASE action = "false_positive"
    BY <2>3, <1>0 DEF MutateIssue, IsIssueRow
  <2>4. CASE action = "suppression_cleared"
    BY <2>4, <1>0 DEF MutateIssue, IsIssueRow
  <2> QED BY <2>1, <2>2, <2>3, <2>4
<1>3. /\ to[action].status \in IsStatuses /\ to[action].disposition \in {"", "resolved", "false_positive"}
      /\ to[action].status = "resolved" => action = "resolve" \/ isFound = {} \/ isExcuse.overlap
  <2>1. CASE action = "resolve"
    BY <2>1, IsClearedFacts DEF IsStatuses
  <2>2. CASE action = "reopen"
    BY <2>2, IsClearedFacts DEF IsStatuses
  <2>3. CASE action = "false_positive"
    BY <2>3, IsClearedFacts DEF IsStatuses
  <2>4. CASE action = "suppression_cleared"
    BY <2>4, IsClearedFacts DEF IsStatuses
  <2> QED BY <2>1, <2>2, <2>3, <2>4
<1> HIDE DEF to
<1>4. /\ issue \in IsIssueRow /\ issue.active = isIssue.active /\ issue.disposition # "exception"
      /\ issue.status = "resolved" => action = "resolve" \/ isFound = {} \/ isExcuse.overlap
  BY <1>0, <1>3 DEF IsIssueRow
<1> HIDE DEF issue
<1>5. isException' \in IsExceptionRow
  BY <1>0, <1>1 DEF IsRevised, IsExceptionRow
<1>6. /\ isExcuse' \in [person : BOOLEAN, overlap : BOOLEAN] /\ isExcuse'.overlap = isExcuse.overlap
      /\ action = "resolve" => isExcuse'.person
  BY <1>0, <1>1, Zenon
<1>7. IssueTellsTheTruth'
  BY <1>1, <1>2, <1>4, <1>6 DEF IssueTellsTheTruth, IsExcepted
<1> QED BY <1>1, <1>2, <1>4, <1>5, <1>6, <1>7, IsEdited

LEMMA IsExceptionKeeps ==
    ASSUME IsInv,
           \/ CreateRuleException \/ RevokeRuleException \/ ExceptionExpires \/ reconcileExpiredIssueExceptions
           \/ \E decision \in {"approved", "rejected"} : DecideRuleException(decision)
    PROVE  IsInv'
<1>0. /\ isIssue \in IsIssueRow /\ isException \in IsExceptionRow
      /\ isExcuse \in [person : BOOLEAN, overlap : BOOLEAN]
  BY DEF IsInv, IsTypeOK
<1>1. ASSUME clearIssueExceptionSuppression, UNCHANGED <<isFound, isSync, isLock, isExcuse>>, isException' \in IsExceptionRow
      PROVE  IsInv'
  <2>1. CASE IsExcepted
    <3> DEFINE issue == [isIssue EXCEPT !.status = IsCleared, !.disposition = ""]
    <3>1. isLock = IsNobody /\ isIssue' = issue
      BY <1>1, <2>1 DEF clearIssueExceptionSuppression
    <3>2. issue \in IsIssueRow /\ issue.status = IsCleared /\ issue.disposition = "" /\ issue.active = isIssue.active
      BY <1>0, IsClearedFacts DEF IsIssueRow, IsStatuses
    <3> HIDE DEF issue
    <3>3. IssueTellsTheTruth'
      BY <1>1, <3>1, <3>2, IsClearedFacts DEF IssueTellsTheTruth, IsExcepted
    <3> QED BY <1>0, <1>1, <3>1, <3>2, <3>3, IsEdited
  <2>2. CASE ~IsExcepted
    <3>1. isIssue' = isIssue
      BY <1>1, <2>2 DEF clearIssueExceptionSuppression
    <3>2. IssueTellsTheTruth'
      BY <1>1, <2>2, <3>1 DEF IsInv, IssueTellsTheTruth, IsExcepted
    <3> QED BY <1>0, <1>1, <3>1, <3>2, IsEdited
  <2> QED BY <2>1, <2>2
<1>2. CASE CreateRuleException
  <2>1. /\ isException.state # "approved" /\ UNCHANGED <<isIssue, isFound, isSync, isLock, isExcuse>>
        /\ isException' = [state |-> "pending", current |-> TRUE, expired |-> FALSE]
    BY <1>2 DEF CreateRuleException
  <2>2. IssueTellsTheTruth' /\ isException' \in IsExceptionRow
    BY <2>1 DEF IsInv, IssueTellsTheTruth, IsExcepted, IsExceptionRow
  <2> QED BY <1>0, <2>1, <2>2, IsEdited
<1>3. CASE RevokeRuleException
  <2>1. /\ clearIssueExceptionSuppression /\ UNCHANGED <<isFound, isSync, isLock, isExcuse>>
        /\ isException' = [isException EXCEPT !.state = "revoked", !.current = FALSE]
    BY <1>3 DEF RevokeRuleException
  <2>2. isException' \in IsExceptionRow
    BY <1>0, <2>1 DEF IsExceptionRow
  <2> QED BY <1>1, <2>1, <2>2
<1>4. CASE ExceptionExpires
  <2>1. UNCHANGED <<isIssue, isFound, isSync, isLock, isExcuse>> /\ isException' = [isException EXCEPT !.expired = TRUE]
    BY <1>4 DEF ExceptionExpires
  <2>2. isException' \in IsExceptionRow /\ isException'.state = isException.state
    BY <1>0, <2>1 DEF IsExceptionRow
  <2>3. IssueTellsTheTruth'
    BY <2>1, <2>2 DEF IsInv, IssueTellsTheTruth, IsExcepted
  <2> QED BY <1>0, <2>1, <2>2, <2>3, IsEdited
<1>5. CASE reconcileExpiredIssueExceptions
  <2>1. clearIssueExceptionSuppression /\ UNCHANGED <<isFound, isSync, isLock, isException, isExcuse>>
    BY <1>5 DEF reconcileExpiredIssueExceptions
  <2> QED BY <1>0, <1>1, <2>1
<1>6. CASE DecideRuleException("approved")
  <2> DEFINE issue == [isIssue EXCEPT !.status = "suppressed", !.disposition = "exception"]
  <2>1. /\ isLock = IsNobody /\ isIssue' = issue /\ UNCHANGED <<isFound, isSync, isLock, isExcuse>>
        /\ isException' = [isException EXCEPT !.state = "approved", !.current = FALSE]
    BY <1>6 DEF DecideRuleException, IsFree
  <2>2. issue \in IsIssueRow /\ issue.status = "suppressed" /\ issue.active = isIssue.active
    BY <1>0 DEF IsIssueRow, IsStatuses
  <2> HIDE DEF issue
  <2>3. isException' \in IsExceptionRow /\ isException'.state = "approved"
    BY <1>0, <2>1 DEF IsExceptionRow
  <2>4. IssueTellsTheTruth'
    BY <2>1, <2>2, <2>3 DEF IssueTellsTheTruth, IsExcepted
  <2> QED BY <1>0, <2>1, <2>2, <2>3, <2>4, IsEdited
<1>7. CASE DecideRuleException("rejected")
  <2>1. /\ isException.state = "pending" /\ UNCHANGED <<isIssue, isFound, isSync, isLock, isExcuse>>
        /\ isException' = [isException EXCEPT !.state = "rejected"]
    BY <1>7 DEF DecideRuleException
  <2>2. isException' \in IsExceptionRow
    BY <1>0, <2>1 DEF IsExceptionRow
  <2>3. IssueTellsTheTruth'
    BY <2>1 DEF IsInv, IssueTellsTheTruth, IsExcepted
  <2> QED BY <1>0, <2>1, <2>2, <2>3, IsEdited
<1> QED BY <1>2, <1>3, <1>4, <1>5, <1>6, <1>7

LEMMA IsStep == IsInv /\ [IsNext]_isVars => IsInv'
<1> SUFFICES ASSUME IsInv, [IsNext]_isVars PROVE IsInv'
  OBVIOUS
<1>1. CASE UNCHANGED <<isIssue, isFound, isSync, isLock, isException, isExcuse>>
  <2>1. isIssue \in IsIssueRow /\ isException \in IsExceptionRow /\ isExcuse \in [person : BOOLEAN, overlap : BOOLEAN]
    BY DEF IsInv, IsTypeOK
  <2>2. IssueTellsTheTruth'
    BY <1>1 DEF IsInv, IssueTellsTheTruth, IsExcepted
  <2> QED BY <1>1, <2>1, <2>2, IsEdited
<1>2. CASE \/ \E topic \in {"create", "close"} : \/ DropPublication(topic) \/ CallProvider(topic)
                                                 \/ \E exhausted \in BOOLEAN : PublicationFails(topic, exhausted)
           \/ MarkPublication \/ SaveIssueAutoCreatePolicy \/ UNCHANGED isVars
  <2>1. UNCHANGED <<isIssue, isFound, isSync, isLock, isException, isExcuse>>
    BY <1>2 DEF DropPublication, CallProvider, PublicationFails, MarkPublication, SaveIssueAutoCreatePolicy, isInside, isVars
  <2> QED BY <2>1, <1>1
<1> QED BY <1>2, IsReviewKeeps, IsRefreshKeeps, IsMutateKeeps, IsExceptionKeeps, Zenon DEF IsNext

-----------------------------------------------------------------------------
(* Notification.                                                           *)

NtRowStates == {"none", "pending", "failed", "delivered"}
NtHandRow == [event : NtEvents \cup {0}, todo : Seq(NtDests), answer : {"none", "ok", "error"}, failed : BOOLEAN]

\* What is left to send names every destination once.
NtHands ==
    {h \in NtHandRow : /\ h.todo # <<>> => h.event # 0
                       /\ h.answer # "none" => h.todo # <<>>
                       /\ \A i, j \in 1..Len(h.todo) : h.todo[i] = h.todo[j] => i = j}

NtEventRow == [kind : {"none", "terminal", "test", "retry"}, dest : NtDests \cup {"all"}, rev : Nat,
               state : {"none", "queued", "handled", "done", "dead"}, tries : Nat]
NtEventRows == {v \in NtEventRow : v.kind \in {"test", "retry"} => v.dest \in NtDests}

NtTypeOK ==
    /\ ntDest \in [NtDests -> [state : {"none", "enabled", "paused"}, rev : Nat]]
    /\ ntRoutes \in Seq([dest : NtDests, selects : BOOLEAN])
    /\ ntEvent \in [NtEvents -> NtEventRows]
    /\ ntRow \in [NtEvents -> [NtDests -> NtRowStates]]
    /\ ntHandler \in [NtHandlers -> NtHands]
    /\ ntTaken \in [NtEvents -> [NtDests -> {0, 1}]]

\* An event that waits is in nobody's hands, and without a fault in one pair of
\* hands at most.
NtHeld ==
    \A w \in NtHandlers, e \in NtEvents : ntHandler[w].event = e => ntEvent[e].state \notin {"none", "queued"}
NtAlone ==
    \A v, w \in NtHandlers, e \in NtEvents \ ntFault : ntHandler[v].event = e /\ ntHandler[w].event = e => v = w

\* What a destination took is recorded, or its answer is still in hand.
NtSeen(e, d) ==
    \/ ntRow[e][d] = "delivered"
    \/ \E w \in NtHandlers : ntHandler[w].event = e /\ ntHandler[w].answer = "ok" /\ ntHandler[w].todo[1] = d
NtCounted ==
    \A e \in NtEvents, d \in NtDests :
        ntTaken[e][d] # 0 => e \notin ntFault /\ ntEvent[e].state # "none" /\ NtSeen(e, d)

\* A destination still to be sent an event has not taken it, but for the one
\* whose answer is in hand.
NtOwed ==
    \A w \in NtHandlers, e \in NtEvents : ntHandler[w].event = e =>
        \A i \in 1..Len(ntHandler[w].todo) :
            ntTaken[e][ntHandler[w].todo[i]] # 0 => i = 1 /\ ntHandler[w].answer = "ok"

NtTests ==
    \A t \in ntTested : t[1] \in NtEvents /\ ntEvent[t[1]].state # "none" /\ t[2] = ntEvent[t[1]].rev

NtInv == NtTypeOK /\ NtHeld /\ NtAlone /\ NtCounted /\ NtOwed /\ NtTests

LEMMA NtInvSuffices == NtInv => NoticeSentOnce
<1> SUFFICES ASSUME NtInv PROVE NoticeSentOnce
  OBVIOUS
<1>1. \A e \in NtEvents, d \in NtDests : ntTaken[e][d] \in {0, 1}
  BY DEF NtInv, NtTypeOK
<1> QED BY <1>1 DEF NtInv, NtTests, NoticeSentOnce

LEMMA NtRowFacts ==
    /\ NtIdle \in NtHands /\ NtIdle.event = 0 /\ NtIdle.todo = <<>> /\ NtIdle.answer = "none"
    /\ NtNoEvent \in NtEventRows /\ NtNoEvent.state = "none"
<1>1. NtIdle.event = 0 /\ NtIdle.todo = <<>> /\ NtIdle.answer = "none" /\ NtIdle.failed = FALSE
  BY DEF NtIdle
<1>2. NtIdle \in NtHandRow
  BY DEF NtIdle, NtHandRow
<1> QED BY <1>1, <1>2 DEF NtHands, NtNoEvent, NtEventRows, NtEventRow

LEMMA NtEventsAreNotZero == 0 \notin NtEvents /\ NtEvents \subseteq Nat
  BY NotificationAssumption DEF NtEvents

LEMMA NtIsASeq ==
    ASSUME NEW n \in Nat, NEW S, NEW f \in [1..n -> S]
    PROVE  f \in Seq(S) /\ Len(f) = n /\ DOMAIN f = 1..n
<1>1. f \in Seq(S)
  BY SeqDef
<1>2. Len(f) \in Nat /\ DOMAIN f = 1..Len(f) /\ DOMAIN f = 1..n
  BY <1>1, LenProperties
<1> QED BY <1>1, <1>2

LEMMA NtInitInv == NtInit => NtInv
<1> SUFFICES ASSUME NtInit PROVE NtInv
  OBVIOUS
<1> USE NtRowFacts, NtEventsAreNotZero
<1>1. PICK routes \in {<<NtFirst>>} \cup [1..2 -> NtDests] :
         /\ ntRoutes = [i \in DOMAIN routes |-> [dest |-> routes[i], selects |-> TRUE]]
         /\ ntDest = [d \in NtDests |->
              [state |-> IF \E i \in DOMAIN routes : routes[i] = d THEN "enabled" ELSE "none", rev |-> 1]]
  BY DEF NtInit
<1>2. NtFirst \in NtDests
  BY NotificationAssumption DEF NtFirst
<1>3. routes \in Seq(NtDests) /\ DOMAIN routes = 1..Len(routes)
  <2>1. CASE routes = <<NtFirst>>
    BY <1>2, <2>1
  <2>2. CASE routes \in [1..2 -> NtDests]
    <3>1. 2 \in Nat
      OBVIOUS
    <3>2. routes \in Seq(NtDests) /\ Len(routes) = 2 /\ DOMAIN routes = 1..2
      BY <2>2, <3>1, NtIsASeq, Zenon
    <3> QED BY <3>2
  <2> QED BY <2>1, <2>2
<1>4. ntRoutes \in [1..Len(routes) -> [dest : NtDests, selects : BOOLEAN]]
  BY <1>1, <1>3
<1>5. ntRoutes \in Seq([dest : NtDests, selects : BOOLEAN])
  BY <1>3, <1>4, NtIsASeq, LenProperties
<1>6. ntDest \in [NtDests -> [state : {"none", "enabled", "paused"}, rev : Nat]]
  BY <1>1
<1>7. NtTypeOK
  BY <1>5, <1>6 DEF NtInit, NtTypeOK, NtRowStates
<1>8. NtHeld /\ NtAlone /\ NtOwed
  BY DEF NtInit, NtHeld, NtAlone, NtOwed
<1>9. NtCounted /\ NtTests
  BY DEF NtInit, NtCounted, NtTests
<1> QED BY <1>7, <1>8, <1>9 DEF NtInv

\* The configuration is edited.
LEMMA NtQuiet ==
    ASSUME NtInv, UNCHANGED <<ntEvent, ntRow, ntHandler, ntTaken, ntFault, ntTested>>,
           ntDest' \in [NtDests -> [state : {"none", "enabled", "paused"}, rev : Nat]],
           ntRoutes' \in Seq([dest : NtDests, selects : BOOLEAN])
    PROVE  NtInv'
  BY DEF NtInv, NtTypeOK, NtHeld, NtAlone, NtCounted, NtSeen, NtOwed, NtTests

\* A new event.
LEMMA NtQueues ==
    ASSUME NtInv, NEW e \in NtEvents, NEW kind \in {"terminal", "test", "retry"}, NEW dest \in NtDests \cup {"all"},
           NEW rev \in Nat, kind # "terminal" => dest \in NtDests, NtQueue(e, kind, dest, rev),
           UNCHANGED <<ntDest, ntRoutes, ntHandler, ntTaken, ntFault, ntTested>>,
           ntRow' \in [NtEvents -> [NtDests -> NtRowStates]],
           \A f \in NtEvents : f # e => ntRow'[f] = ntRow[f]
    PROVE  NtInv'
<1> DEFINE row == [kind |-> kind, dest |-> dest, rev |-> rev, state |-> "queued", tries |-> 0]
<1>1. ntEvent[e].state = "none" /\ ntEvent' = [ntEvent EXCEPT ![e] = row]
  BY DEF NtQueue
<1>2. row \in NtEventRows /\ row.state = "queued"
  BY DEF NtEventRows, NtEventRow
<1> HIDE DEF row
<1>3. ntEvent' \in [NtEvents -> NtEventRows] /\ \A f \in NtEvents : ntEvent'[f] = IF f = e THEN row ELSE ntEvent[f]
  BY <1>1, <1>2 DEF NtInv, NtTypeOK
<1>4. NtTypeOK' /\ NtAlone' /\ NtOwed'
  BY <1>3 DEF NtInv, NtTypeOK, NtAlone, NtOwed
<1>5. NtHeld' /\ NtTests'
  BY <1>1, <1>2, <1>3 DEF NtInv, NtHeld, NtTests
<1>6. NtCounted'
  BY <1>1, <1>2, <1>3 DEF NtInv, NtCounted, NtSeen
<1> QED BY <1>4, <1>5, <1>6 DEF NtInv

\* What an event selects are destinations, finitely many.
LEMMA NtSelectedFinite ==
    ASSUME NtTypeOK, NEW e \in NtEvents
    PROVE  NtSelected(e) \subseteq NtDests /\ IsFiniteSet(NtSelected(e))
<1> DEFINE n == Len(ntRoutes)
           dests == {ntRoutes[i].dest : i \in 1..n}
           f == [i \in 1..n |-> ntRoutes[i].dest]
<1>1. n \in Nat /\ DOMAIN ntRoutes = 1..n /\ \A i \in 1..n : ntRoutes[i] \in [dest : NtDests, selects : BOOLEAN]
  BY LenProperties, ElementOfSeq DEF NtTypeOK
<1> HIDE DEF n
<1>2. f \in Surjection(1..n, dests)
  <2>1. \A i \in 1..n : f[i] = ntRoutes[i].dest /\ f[i] \in dests
    OBVIOUS
  <2>2. f \in [1..n -> dests]
    BY <2>1
  <2>3. \A d \in dests : \E i \in 1..n : f[i] = d
    BY <2>1
  <2> HIDE DEF f, dests
  <2> QED BY <2>2, <2>3 DEF Surjection
<1>3. IsFiniteSet(1..n)
  BY <1>1, FS_Interval
<1>4. IsFiniteSet(dests)
  BY <1>2, <1>3, FS_Surjection
<1>5. CASE ntEvent[e].kind = "terminal"
  <2>1. NtSelected(e) = {r.dest : r \in NtMatched}
    BY <1>5 DEF NtSelected
  <2>2. \A r \in NtMatched : \E i \in 1..n : r = ntRoutes[i]
    BY <1>1 DEF NtMatched
  <2>3. NtSelected(e) \subseteq dests /\ dests \subseteq NtDests
    BY <1>1, <2>1, <2>2
  <2> QED BY <1>4, <2>3, FS_Subset
<1>6. CASE ntEvent[e].kind = "retry" /\ ntDest[ntEvent[e].dest].state = "enabled"
  <2>1. NtSelected(e) = {ntEvent[e].dest} /\ ntEvent[e].dest \in NtDests
    BY <1>6 DEF NtSelected, NtTypeOK, NtEventRows
  <2> QED BY <2>1, FS_Singleton
<1>7. CASE ~(ntEvent[e].kind = "terminal") /\ ~(ntEvent[e].kind = "retry" /\ ntDest[ntEvent[e].dest].state = "enabled")
  <2>1. NtSelected(e) = {}
    BY <1>7 DEF NtSelected
  <2> QED BY <2>1, FS_EmptySet
<1> QED BY <1>5, <1>6, <1>7

\* A list in the order of the routes names its destinations once.
LEMMA NtListed ==
    ASSUME NtTypeOK, NEW dests, dests \subseteq NtDests, IsFiniteSet(dests), NEW list \in NtInOrder(dests)
    PROVE  /\ list \in Seq(NtDests)
           /\ \A i \in 1..Len(list) : list[i] \in dests
           /\ \A i, j \in 1..Len(list) : list[i] = list[j] => i = j
<1>1. Cardinality(dests) \in Nat
  BY FS_CardinalityType
<1>2. list \in [1..Cardinality(dests) -> dests] /\ \A i, j \in DOMAIN list : i < j => NtAhead(list[i], list[j])
  BY DEF NtInOrder
<1>3. list \in Seq(dests) /\ Len(list) = Cardinality(dests) /\ DOMAIN list = 1..Len(list)
  BY <1>1, <1>2, NtIsASeq
<1>4. DOMAIN ntRoutes = 1..Len(ntRoutes) /\ Len(ntRoutes) \in Nat
  BY LenProperties DEF NtTypeOK
<1>5. \A d : ~NtAhead(d, d)
  BY <1>4 DEF NtAhead
<1>6. \A i, j \in 1..Len(list) : list[i] = list[j] => i = j
  BY <1>1, <1>2, <1>3, <1>5
<1> QED BY <1>2, <1>3, <1>6, SeqMonotonic

\* A fault of one event forgets what was taken of it.
LEMMA NtForgets ==
    ASSUME NtTypeOK, NEW e \in NtEvents, NtFaulty(e)
    PROVE  /\ ntTaken' \in [NtEvents -> [NtDests -> {0, 1}]] /\ ntFault' = ntFault \cup {e}
           /\ \A f \in NtEvents, d \in NtDests : ntTaken'[f][d] = IF f = e THEN 0 ELSE ntTaken[f][d]
<1> DEFINE none == [d \in NtDests |-> 0]
<1>1. ntTaken' = [ntTaken EXCEPT ![e] = none] /\ ntFault' = ntFault \cup {e}
  BY DEF NtFaulty
<1>2. none \in [NtDests -> {0, 1}] /\ \A d \in NtDests : none[d] = 0
  OBVIOUS
<1> HIDE DEF none
<1> QED BY <1>1, <1>2 DEF NtTypeOK

\* A handler takes an event with a list of what no row calls delivered.
LEMMA NtTakes ==
    ASSUME NtInv, NEW w \in NtHandlers, NEW e \in NtEvents, NtTake(w, e), NEW todo \in Seq(NtDests),
           \A i, j \in 1..Len(todo) : todo[i] = todo[j] => i = j,
           \A i \in 1..Len(todo) : ntRow[e][todo[i]] # "delivered",
           ntHandler' = [ntHandler EXCEPT ![w] = [NtIdle EXCEPT !.event = e, !.todo = todo]],
           UNCHANGED <<ntDest, ntRoutes>>,
           ntRow' \in [NtEvents -> [NtDests -> NtRowStates]],
           \A f \in NtEvents, d \in NtDests : ntRow[f][d] = "delivered" => ntRow'[f][d] = "delivered",
           \A t \in ntTested' : t \in ntTested \/ (t[1] = e /\ t[2] = ntEvent[e].rev)
    PROVE  NtInv'
<1> USE NtEventsAreNotZero
<1> DEFINE h == [NtIdle EXCEPT !.event = e, !.todo = todo]
           v == [ntEvent[e] EXCEPT !.state = "handled", !.tries = @ + 1]
<1>1. h.event = e /\ h.todo = todo /\ h.answer = "none" /\ h \in NtHands
  <2>1. NtIdle \in NtHandRow /\ NtIdle.answer = "none"
    BY NtRowFacts DEF NtHands
  <2>2. h \in NtHandRow /\ h.event = e /\ h.todo = todo /\ h.answer = "none"
    BY <2>1 DEF NtHandRow
  <2> HIDE DEF h
  <2> QED BY <2>2 DEF NtHands
<1>2. ntEvent' = [ntEvent EXCEPT ![e] = v]
  BY Zenon DEF NtTake, NtInv, NtTypeOK
<1>3. v \in NtEventRows /\ v.state = "handled" /\ v.rev = ntEvent[e].rev
  <2>1. ntEvent[e] \in NtEventRows
    BY DEF NtInv, NtTypeOK
  <2>2. ntEvent[e].tries + 1 \in Nat
    BY <2>1 DEF NtEventRows, NtEventRow
  <2> QED BY <2>1, <2>2 DEF NtEventRows, NtEventRow
<1>4. ntHandler' = [ntHandler EXCEPT ![w] = h]
  OBVIOUS
<1> HIDE DEF h, v
<1>5. /\ ntEvent' \in [NtEvents -> NtEventRows]
      /\ \A f \in NtEvents : ntEvent'[f] = IF f = e THEN v ELSE ntEvent[f]
  BY <1>2, <1>3 DEF NtInv, NtTypeOK
<1>6. /\ ntHandler' \in [NtHandlers -> NtHands]
      /\ \A x \in NtHandlers : ntHandler'[x] = IF x = w THEN h ELSE ntHandler[x]
  BY <1>1, <1>4 DEF NtInv, NtTypeOK
<1>7. /\ ntHandler[w].event = 0 /\ ntHandler[w].answer = "none" /\ ntEvent[e].state \in {"queued", "handled"}
      /\ IF ntEvent[e].state = "handled" THEN NtFaulty(e) ELSE UNCHANGED <<ntFault, ntTaken>>
  BY NtRowFacts DEF NtTake
<1>8. NtHeld' /\ NtTests'
  <2>1. NtHeld'
    BY <1>1, <1>3, <1>5, <1>6, <1>7 DEF NtInv, NtHeld
  <2>2. \A f \in NtEvents : ntEvent'[f].rev = ntEvent[f].rev /\ (ntEvent[f].state # "none" => ntEvent'[f].state # "none")
    BY <1>3, <1>5, <1>7
  <2>3. ntEvent[e].state # "none"
    BY <1>7
  <2>4. NtTests'
    BY <2>2, <2>3 DEF NtInv, NtTests
  <2> QED BY <2>1, <2>4
<1>9. \A f \in NtEvents, d \in NtDests : NtSeen(f, d) => NtSeen(f, d)'
  BY <1>6, <1>7 DEF NtSeen
<1>10. CASE ntEvent[e].state = "handled"
  <2>1. /\ ntTaken' \in [NtEvents -> [NtDests -> {0, 1}]] /\ ntFault' = ntFault \cup {e}
        /\ \A f \in NtEvents, d \in NtDests : ntTaken'[f][d] = IF f = e THEN 0 ELSE ntTaken[f][d]
    BY <1>7, <1>10, NtForgets DEF NtInv
  <2>2. NtTypeOK'
    BY <1>5, <1>6, <2>1 DEF NtInv, NtTypeOK
  <2>3. NtAlone'
    BY <1>1, <1>6, <2>1 DEF NtInv, NtAlone
  <2>4. NtCounted'
    <3>1. ASSUME NEW f \in NtEvents, NEW d \in NtDests, ntTaken'[f][d] # 0
          PROVE  f # e /\ ntTaken[f][d] # 0
      BY <2>1, <3>1
    <3>2. ASSUME NEW f \in NtEvents, NEW d \in NtDests, ntTaken'[f][d] # 0
          PROVE  f \notin ntFault' /\ ntEvent'[f].state # "none" /\ NtSeen(f, d)'
      BY <1>5, <1>9, <2>1, <3>1, <3>2 DEF NtInv, NtCounted
    <3> QED BY <3>2 DEF NtCounted
  <2>5. NtOwed'
    <3>1. ASSUME NEW x \in NtHandlers, NEW f \in NtEvents, ntHandler'[x].event = f, NEW i \in 1..Len(ntHandler'[x].todo),
                 ntTaken'[f][ntHandler'[x].todo[i]] # 0
          PROVE  i = 1 /\ ntHandler'[x].answer = "ok"
      <4>1. ntHandler'[x].todo[i] \in NtDests
        BY <1>6, ElementOfSeq DEF NtHands, NtHandRow
      <4>2. f # e
        BY <2>1, <3>1, <4>1
      <4>3. x # w
        BY <1>1, <1>6, <3>1, <4>2
      <4>4. ntHandler'[x] = ntHandler[x] /\ ntTaken'[f][ntHandler[x].todo[i]] = ntTaken[f][ntHandler[x].todo[i]]
        BY <1>6, <2>1, <4>1, <4>2, <4>3
      <4> QED BY <3>1, <4>4, ZenonT(40) DEF NtInv, NtOwed
    <3> QED BY <3>1 DEF NtOwed
  <2> QED BY <1>8, <2>2, <2>3, <2>4, <2>5 DEF NtInv
<1>11. CASE ntEvent[e].state = "queued"
  <2>1. UNCHANGED <<ntFault, ntTaken>> /\ \A x \in NtHandlers : ntHandler[x].event # e
    BY <1>7, <1>11 DEF NtInv, NtHeld
  <2>2. NtTypeOK'
    BY <1>5, <1>6, <2>1 DEF NtInv, NtTypeOK
  <2>3. NtAlone'
    BY <1>1, <1>6, <2>1 DEF NtInv, NtAlone
  <2>4. NtCounted'
    <3>1. ASSUME NEW f \in NtEvents, NEW d \in NtDests, ntTaken'[f][d] # 0
          PROVE  f \notin ntFault' /\ ntEvent'[f].state # "none" /\ NtSeen(f, d)'
      BY <1>3, <1>5, <1>9, <2>1, <3>1 DEF NtInv, NtCounted
    <3> QED BY <3>1 DEF NtCounted
  <2>5. \A i \in 1..Len(todo) : ntTaken[e][todo[i]] = 0
    BY <2>1, ElementOfSeq DEF NtInv, NtCounted, NtSeen
  <2>6. NtOwed'
    BY <1>1, <1>6, <2>1, <2>5 DEF NtInv, NtOwed
  <2> QED BY <1>8, <2>2, <2>3, <2>4, <2>6 DEF NtInv
<1> QED BY <1>7, <1>10, <1>11

LEMMA NtPrepareKeeps ==
    ASSUME NtInv, NEW w \in NtHandlers, NEW e \in NtEvents, PrepareNotificationDeliveries(w, e)
    PROVE  NtInv'
<1> DEFINE open == {d \in NtSelected(e) : ntRow[e][d] # "delivered"}
           row == [d \in NtDests |-> IF ntRow[e][d] = "none" /\ d \in open THEN "pending" ELSE ntRow[e][d]]
<1>1. NtTake(w, e) /\ UNCHANGED <<ntDest, ntRoutes, ntEdits, ntTested>>
  BY DEF PrepareNotificationDeliveries, ntConfig
<1>2. ntRow' = [ntRow EXCEPT ![e] = row]
  BY Zenon DEF PrepareNotificationDeliveries, NtInv, NtTypeOK
<1>3. PICK todo \in NtInOrder(open) :
         ntHandler' = [ntHandler EXCEPT ![w] = [NtIdle EXCEPT !.event = e, !.todo = todo]]
  BY DEF PrepareNotificationDeliveries
<1>4. open \subseteq NtDests /\ IsFiniteSet(open)
  <2>1. open \subseteq NtSelected(e)
    OBVIOUS
  <2> HIDE DEF open
  <2> QED BY <2>1, NtSelectedFinite, FS_Subset DEF NtInv
<1>5. /\ todo \in Seq(NtDests) /\ \A i \in 1..Len(todo) : todo[i] \in open
      /\ \A i, j \in 1..Len(todo) : todo[i] = todo[j] => i = j
  BY <1>4, NtListed DEF NtInv
<1>6. \A d \in open : ntRow[e][d] # "delivered"
  OBVIOUS
<1> HIDE DEF open
<1>7. row \in [NtDests -> NtRowStates] /\ \A d \in NtDests : ntRow[e][d] = "delivered" => row[d] = "delivered"
  BY DEF NtInv, NtTypeOK, NtRowStates
<1> HIDE DEF row
<1>8. /\ ntRow' \in [NtEvents -> [NtDests -> NtRowStates]]
      /\ \A f \in NtEvents, d \in NtDests : ntRow[f][d] = "delivered" => ntRow'[f][d] = "delivered"
  BY <1>2, <1>7 DEF NtInv, NtTypeOK
<1>9. \A i \in 1..Len(todo) : ntRow[e][todo[i]] # "delivered"
  BY <1>5, <1>6
<1> QED BY <1>1, <1>3, <1>5, <1>8, <1>9, NtTakes

LEMMA NtTestKeeps ==
    ASSUME NtInv, NEW w \in NtHandlers, NEW e \in NtEvents, prepareNotificationTestDelivery(w, e)
    PROVE  NtInv'
<1> DEFINE d == ntEvent[e].dest
           open == ntRow[e][d] \in {"pending", "failed"}
           current == ntDest[d] = [state |-> "enabled", rev |-> ntEvent[e].rev]
           todo == IF open /\ current THEN <<d>> ELSE <<>>
<1>1. /\ ntEvent[e].kind = "test" /\ NtTake(w, e) /\ UNCHANGED <<ntDest, ntRoutes>>
      /\ ntRow' = IF open /\ ~current THEN [ntRow EXCEPT ![e][d] = "failed"] ELSE ntRow
      /\ ntHandler' = [ntHandler EXCEPT ![w] = [NtIdle EXCEPT !.event = e, !.todo = todo]]
      /\ ntTested' = IF open /\ current THEN ntTested \cup {<<e, ntDest[d].rev>>} ELSE ntTested
  BY Zenon DEF prepareNotificationTestDelivery, ntConfig
<1>2. d \in NtDests
  BY <1>1 DEF NtInv, NtTypeOK, NtEventRows
<1>3. current => ntDest[d].rev = ntEvent[e].rev
  OBVIOUS
<1> HIDE DEF d, current
<1>4. /\ todo \in Seq(NtDests) /\ \A i, j \in 1..Len(todo) : todo[i] = todo[j] => i = j
      /\ \A i \in 1..Len(todo) : ntRow[e][todo[i]] # "delivered"
  <2>1. CASE open /\ current
    BY <1>2, <2>1
  <2>2. CASE ~(open /\ current)
    BY <2>2
  <2> QED BY <2>1, <2>2
<1>5. /\ ntRow' \in [NtEvents -> [NtDests -> NtRowStates]]
      /\ \A f \in NtEvents, g \in NtDests : ntRow[f][g] = "delivered" => ntRow'[f][g] = "delivered"
  <2>1. CASE open /\ ~current
    <3> DEFINE row == [ntRow[e] EXCEPT ![d] = "failed"]
    <3>1. ntRow' = [ntRow EXCEPT ![e] = row]
      BY <1>1, <2>1, Zenon DEF NtInv, NtTypeOK
    <3>2. row \in [NtDests -> NtRowStates] /\ \A g \in NtDests : ntRow[e][g] = "delivered" => row[g] = "delivered"
      BY <1>2, <2>1 DEF NtInv, NtTypeOK, NtRowStates
    <3> HIDE DEF row
    <3> QED BY <3>1, <3>2 DEF NtInv, NtTypeOK
  <2>2. CASE ~(open /\ ~current)
    BY <1>1, <2>2 DEF NtInv, NtTypeOK
  <2> QED BY <2>1, <2>2
<1>6. \A t \in ntTested' : t \in ntTested \/ (t[1] = e /\ t[2] = ntEvent[e].rev)
  BY <1>1, <1>3
<1> HIDE DEF todo
<1> QED BY <1>1, <1>4, <1>5, <1>6, NtTakes

LEMMA NtSendKeeps ==
    ASSUME NtInv, NEW w \in NtHandlers, NEW outcome \in {"taken", "refused", "lost"}, NtSend(w, outcome)
    PROVE  NtInv'
<1> USE NtEventsAreNotZero
<1> DEFINE h == ntHandler[w]
           e == h.event
           d == Head(h.todo)
           ans == IF outcome = "taken" THEN "ok" ELSE "error"
           k == [h EXCEPT !.answer = ans]
<1>0. h \in NtHands /\ h \in NtHandRow
  BY DEF NtInv, NtTypeOK, NtHands
<1>1. /\ h.todo # <<>> /\ h.answer = "none" /\ UNCHANGED <<ntDest, ntRoutes, ntEvent, ntRow, ntTested>>
      /\ ntHandler' = [ntHandler EXCEPT ![w].answer = ans]
  BY DEF NtSend, ntConfig
<1>2. ntHandler' = [ntHandler EXCEPT ![w] = k]
  BY <1>1, Zenon DEF NtInv, NtTypeOK
<1>3. e \in NtEvents /\ h.todo \in Seq(NtDests)
  BY <1>0, <1>1 DEF NtHands, NtHandRow
<1>4. d \in NtDests /\ d = h.todo[1] /\ Len(h.todo) \in Nat /\ 1 \in 1..Len(h.todo)
  BY <1>1, <1>3
<1>5. /\ k \in NtHands /\ k.event = e /\ k.todo = h.todo /\ k.answer = ans
  <2>1. k \in NtHandRow /\ k.event = e /\ k.todo = h.todo /\ k.answer = ans
    BY <1>0 DEF NtHandRow
  <2> HIDE DEF k
  <2> QED BY <1>0, <1>1, <2>1 DEF NtHands
<1> HIDE DEF k
<1>6. /\ ntHandler' \in [NtHandlers -> NtHands]
      /\ \A x \in NtHandlers : ntHandler'[x] = IF x = w THEN k ELSE ntHandler[x]
      /\ \A x \in NtHandlers : ntHandler'[x].event = ntHandler[x].event /\ ntHandler'[x].todo = ntHandler[x].todo
  BY <1>2, <1>5 DEF NtInv, NtTypeOK
<1>7. ntTaken[e][d] = 0
  <2>1. ntTaken[e][h.todo[1]] # 0 => h.answer = "ok"
    BY <1>3, <1>4 DEF NtInv, NtOwed
  <2> HIDE DEF d
  <2> QED BY <1>1, <1>4, <2>1
<1>8. NtHeld' /\ NtTests'
  BY <1>1, <1>6 DEF NtInv, NtHeld, NtTests
<1>9. ASSUME NEW f \in NtEvents, NEW g \in NtDests, NtSeen(f, g)
      PROVE  NtSeen(f, g)'
  BY <1>1, <1>6, <1>9 DEF NtSeen
<1>10. \A x \in NtHandlers, i \in Nat : i \in 1..Len(ntHandler[x].todo) => ntHandler[x].todo[i] \in NtDests
  BY ElementOfSeq DEF NtInv, NtTypeOK, NtHands, NtHandRow
<1> HIDE DEF e, d, h, ans
<1>11. CASE outcome = "lost"
  <2>1. NtFaulty(e)
    BY <1>11 DEF NtSend, h, e
  <2>2. /\ ntTaken' \in [NtEvents -> [NtDests -> {0, 1}]] /\ ntFault' = ntFault \cup {e}
        /\ \A f \in NtEvents, g \in NtDests : ntTaken'[f][g] = IF f = e THEN 0 ELSE ntTaken[f][g]
    BY <1>3, <2>1, NtForgets DEF NtInv
  <2>3. NtTypeOK' /\ NtAlone'
    BY <1>1, <1>6, <2>2 DEF NtInv, NtTypeOK, NtAlone
  <2>4. NtCounted'
    BY <1>1, <1>9, <2>2 DEF NtInv, NtCounted
  <2>5. NtOwed'
    <3>1. ASSUME NEW x \in NtHandlers, NEW f \in NtEvents, ntHandler[x].event = f, NEW i \in 1..Len(ntHandler[x].todo),
                 ntTaken'[f][ntHandler[x].todo[i]] # 0
          PROVE  i = 1 /\ ntHandler'[x].answer = "ok"
      <4>1. ntHandler[x].todo[i] \in NtDests
        BY <1>10
      <4>2. f # e /\ ntTaken[f][ntHandler[x].todo[i]] # 0
        BY <2>2, <3>1, <4>1
      <4>3. x # w
        BY <3>1, <4>2 DEF e, h
      <4> QED BY <1>6, <3>1, <4>2, <4>3 DEF NtInv, NtOwed
    <3> QED BY <1>6, <3>1 DEF NtOwed
  <2> QED BY <1>8, <2>3, <2>4, <2>5 DEF NtInv
<1>12. CASE outcome = "taken" /\ e \notin ntFault
  <2> DEFINE taken == [ntTaken[e] EXCEPT ![d] = 1]
  <2>1. UNCHANGED ntFault /\ ntTaken' = [ntTaken EXCEPT ![e][d] = @ + 1]
    BY <1>12 DEF NtSend, h, e, d
  <2>2. ntTaken' = [ntTaken EXCEPT ![e] = taken]
    <3>1. ntTaken' = [ntTaken EXCEPT ![e] = [ntTaken[e] EXCEPT ![d] = ntTaken[e][d] + 1]]
      BY <1>3, <1>4, <2>1, Zenon DEF NtInv, NtTypeOK
    <3>2. ntTaken[e][d] + 1 = 1
      BY <1>7
    <3> QED BY <3>1, <3>2
  <2>3. taken \in [NtDests -> {0, 1}] /\ \A g \in NtDests : taken[g] = IF g = d THEN 1 ELSE ntTaken[e][g]
    BY <1>3, <1>4 DEF NtInv, NtTypeOK
  <2> HIDE DEF taken
  <2>4. /\ ntTaken' \in [NtEvents -> [NtDests -> {0, 1}]]
        /\ \A f \in NtEvents, g \in NtDests : ntTaken'[f][g] = IF f = e /\ g = d THEN 1 ELSE ntTaken[f][g]
    BY <1>3, <2>2, <2>3 DEF NtInv, NtTypeOK
  <2>5. NtTypeOK' /\ NtAlone'
    BY <1>1, <1>6, <2>1, <2>4 DEF NtInv, NtTypeOK, NtAlone
  <2>6. k.answer = "ok" /\ k.event = e /\ k.todo[1] = d
    BY <1>4, <1>5, <1>12 DEF ans
  <2>7. /\ \A f \in NtEvents, g \in NtDests : f = e /\ g = d => NtSeen(f, g)'
        /\ ntEvent[e].state # "none"
    <3>1. ntHandler'[w].answer = "ok" /\ ntHandler'[w].event = e /\ ntHandler'[w].todo[1] = d
      BY <1>6, <2>6
    <3>2. ntEvent[e].state # "none"
      BY <1>3 DEF NtInv, NtHeld, h, e
    <3> QED BY <3>1, <3>2 DEF NtSeen
  <2>8. NtCounted'
    BY <1>1, <1>9, <1>12, <2>1, <2>4, <2>7 DEF NtInv, NtCounted
  <2>9. NtOwed'
    <3>1. ASSUME NEW x \in NtHandlers, NEW f \in NtEvents, ntHandler[x].event = f, NEW i \in 1..Len(ntHandler[x].todo),
                 ntTaken'[f][ntHandler[x].todo[i]] # 0
          PROVE  i = 1 /\ ntHandler'[x].answer = "ok"
      <4>1. ntHandler[x].todo[i] \in NtDests
        BY <1>10
      <4>2. CASE x = w
        <5>1. ntHandler'[x].answer = "ok" /\ f = e
          BY <1>6, <2>6, <3>1, <4>2 DEF e, h
        <5>2. CASE ntHandler[x].todo[i] = d
          BY <1>0, <1>4, <4>2, <5>1, <5>2 DEF NtHands, h
        <5>3. CASE ntHandler[x].todo[i] # d
          BY <1>3, <2>4, <3>1, <4>1, <5>1, <5>3 DEF NtInv, NtOwed
        <5> QED BY <5>2, <5>3
      <4>3. CASE x # w
        <5>1. f # e
          BY <1>3, <1>12, <3>1, <4>3 DEF NtInv, NtAlone, e, h
        <5>2. ntTaken[f][ntHandler[x].todo[i]] # 0
          BY <2>4, <3>1, <4>1, <5>1
        <5> QED BY <1>6, <3>1, <4>3, <5>2 DEF NtInv, NtOwed
      <4> QED BY <4>2, <4>3
    <3> QED BY <1>6, <3>1 DEF NtOwed
  <2> QED BY <1>8, <2>5, <2>8, <2>9 DEF NtInv
<1>13. CASE ~(outcome = "lost") /\ ~(outcome = "taken" /\ e \notin ntFault)
  <2>1. UNCHANGED <<ntTaken, ntFault>>
    BY <1>13 DEF NtSend, h, e
  <2>2. NtTypeOK' /\ NtAlone'
    BY <1>1, <1>6, <2>1 DEF NtInv, NtTypeOK, NtAlone
  <2>3. NtCounted'
    BY <1>1, <1>9, <2>1 DEF NtInv, NtCounted
  <2>4. NtOwed'
    <3>1. ASSUME NEW x \in NtHandlers, NEW f \in NtEvents, ntHandler[x].event = f, NEW i \in 1..Len(ntHandler[x].todo),
                 ntTaken[f][ntHandler[x].todo[i]] # 0
          PROVE  i = 1 /\ ntHandler'[x].answer = "ok"
      <4>1. i = 1 /\ ntHandler[x].answer = "ok"
        BY <3>1 DEF NtInv, NtOwed
      <4> QED BY <1>1, <1>6, <4>1 DEF h
    <3> QED BY <1>6, <2>1, <3>1 DEF NtOwed
  <2> QED BY <1>8, <2>2, <2>3, <2>4 DEF NtInv
<1> QED BY <1>11, <1>12, <1>13

LEMMA NtFinishKeeps ==
    ASSUME NtInv, NEW w \in NtHandlers, FinishNotificationDelivery(w)
    PROVE  NtInv'
<1> USE NtEventsAreNotZero
<1> DEFINE h == ntHandler[w]
           e == h.event
           d == Head(h.todo)
           state == IF h.answer = "ok" THEN "delivered" ELSE "failed"
           row == [ntRow[e] EXCEPT ![d] = state]
           k == [h EXCEPT !.todo = Tail(h.todo), !.answer = "none", !.failed = h.failed \/ h.answer = "error"]
<1>0. h \in NtHands /\ h \in NtHandRow
  BY DEF NtInv, NtTypeOK, NtHands
<1>1. /\ h.answer # "none" /\ h.todo # <<>> /\ UNCHANGED <<ntDest, ntRoutes, ntEvent, ntTaken, ntFault, ntTested>>
      /\ ntRow' = [ntRow EXCEPT ![e][d] = state]
  BY <1>0 DEF FinishNotificationDelivery, ntConfig, ntHistory, NtHands
<1>2. ntHandler' = [ntHandler EXCEPT ![w] = k]
  BY <1>0, Zenon DEF FinishNotificationDelivery, NtHandRow
<1>3. e \in NtEvents /\ h.todo \in Seq(NtDests)
  BY <1>0, <1>1 DEF NtHands, NtHandRow
<1>4. /\ d \in NtDests /\ d = h.todo[1] /\ Len(h.todo) \in Nat /\ 1 \in 1..Len(h.todo)
      /\ Tail(h.todo) \in Seq(NtDests) /\ Len(Tail(h.todo)) = Len(h.todo) - 1
      /\ \A i \in 1..Len(Tail(h.todo)) : Tail(h.todo)[i] = h.todo[i + 1]
  BY <1>1, <1>3, HeadTailProperties, LenProperties
<1>5. /\ k \in NtHands /\ k.event = e /\ k.todo = Tail(h.todo) /\ k.answer = "none"
  <2>1. k \in NtHandRow /\ k.event = e /\ k.todo = Tail(h.todo) /\ k.answer = "none"
    BY <1>0, <1>4 DEF NtHandRow
  <2> HIDE DEF k
  <2>2. \A i, j \in 1..Len(k.todo) : k.todo[i] = k.todo[j] => i = j
    <3>1. ASSUME NEW i \in 1..Len(k.todo), NEW j \in 1..Len(k.todo), k.todo[i] = k.todo[j]
          PROVE  i = j
      <4>1. /\ i + 1 \in 1..Len(h.todo) /\ j + 1 \in 1..Len(h.todo)
            /\ k.todo[i] = h.todo[i + 1] /\ k.todo[j] = h.todo[j + 1]
        BY <1>4, <2>1
      <4>2. i + 1 = j + 1
        BY <1>0, <3>1, <4>1 DEF NtHands
      <4> QED BY <4>2
    <3> QED BY <3>1
  <2> QED BY <1>3, <2>1, <2>2 DEF NtHands
<1> HIDE DEF k
<1>6. /\ ntHandler' \in [NtHandlers -> NtHands]
      /\ \A x \in NtHandlers : ntHandler'[x] = IF x = w THEN k ELSE ntHandler[x]
      /\ \A x \in NtHandlers : ntHandler'[x].event = ntHandler[x].event
  BY <1>2, <1>5 DEF NtInv, NtTypeOK
<1>7. \A i \in 1..Len(h.todo) : ntTaken[e][h.todo[i]] # 0 => i = 1 /\ h.answer = "ok"
  BY <1>3 DEF NtInv, NtOwed
<1>8. ntRow' = [ntRow EXCEPT ![e] = row]
  BY <1>1, Zenon DEF NtInv, NtTypeOK
<1>9. row \in [NtDests -> NtRowStates] /\ \A g \in NtDests : row[g] = IF g = d THEN state ELSE ntRow[e][g]
  BY <1>3, <1>4 DEF NtInv, NtTypeOK, NtRowStates
<1> HIDE DEF row
<1>10. /\ ntRow' \in [NtEvents -> [NtDests -> NtRowStates]]
       /\ \A f \in NtEvents, g \in NtDests : ntRow'[f][g] = IF f = e /\ g = d THEN state ELSE ntRow[f][g]
  BY <1>3, <1>8, <1>9 DEF NtInv, NtTypeOK
<1> HIDE DEF e, d, h
<1>11. NtTypeOK' /\ NtHeld' /\ NtAlone' /\ NtTests'
  <2>1. NtTypeOK'
    BY <1>1, <1>6, <1>10 DEF NtInv, NtTypeOK
  <2>2. NtHeld' /\ NtAlone'
    BY <1>1, <1>6 DEF NtInv, NtHeld, NtAlone
  <2>3. NtTests'
    BY <1>1 DEF NtInv, NtTests
  <2> QED BY <2>1, <2>2, <2>3
<1>12. NtCounted'
  <2>1. ASSUME NEW f \in NtEvents, NEW g \in NtDests, ntTaken[f][g] # 0
        PROVE  NtSeen(f, g)'
    <3>1. CASE f = e /\ g = d
      <4>1. h.answer = "ok"
        BY <1>4, <1>7, <2>1, <3>1
      <4>2. ntRow'[f][g] = "delivered"
        BY <1>10, <3>1, <4>1
      <4> QED BY <4>2 DEF NtSeen
    <3>2. CASE ~(f = e /\ g = d)
      <4>1. ntRow'[f][g] = ntRow[f][g]
        BY <1>10, <3>2
      <4>2. \A x \in NtHandlers : ntHandler[x].event = f /\ ntHandler[x].todo[1] = g => ntHandler'[x] = ntHandler[x]
        BY <1>4, <1>6, <3>2 DEF e, h
      <4>3. NtSeen(f, g)
        BY <2>1 DEF NtInv, NtCounted
      <4> QED BY <4>1, <4>2, <4>3 DEF NtSeen
    <3> QED BY <3>1, <3>2
  <2> QED BY <1>1, <2>1 DEF NtInv, NtCounted
<1>13. NtOwed'
  <2>1. ASSUME NEW x \in NtHandlers, NEW f \in NtEvents, ntHandler'[x].event = f, NEW i \in 1..Len(ntHandler'[x].todo),
               ntTaken[f][ntHandler'[x].todo[i]] # 0
        PROVE  i = 1 /\ ntHandler'[x].answer = "ok"
    <3>1. CASE x = w
      <4>1. f = e /\ ntHandler'[x].todo[i] = h.todo[i + 1] /\ i + 1 \in 1..Len(h.todo)
        <5>1. ntHandler'[x].event = e /\ ntHandler'[x].todo = Tail(h.todo)
          BY <1>5, <1>6, <3>1
        <5> QED BY <1>4, <2>1, <5>1
      <4>2. i + 1 = 1
        BY <1>7, <2>1, <4>1
      <4> QED BY <4>2
    <3>2. CASE x # w
      BY <1>6, <2>1, <3>2 DEF NtInv, NtOwed
    <3> QED BY <3>1, <3>2
  <2> QED BY <1>1, <2>1 DEF NtOwed
<1> QED BY <1>11, <1>12, <1>13 DEF NtInv

\* A handler lets its event go.
LEMMA NtLetsGo ==
    ASSUME NtInv, NEW w \in NtHandlers, NEW e \in NtEvents, ntHandler[w].event = e, ntHandler' = [ntHandler EXCEPT ![w] = NtIdle],
           NEW state \in {"none", "queued", "handled", "done", "dead"}, state # "none",
           ntEvent' = [ntEvent EXCEPT ![e].state = state],
           state = "queued" => \A x \in NtHandlers \ {w} : ntHandler[x].event # e,
           UNCHANGED <<ntDest, ntRoutes, ntRow, ntTested>>,
           \/ UNCHANGED <<ntTaken, ntFault>> /\ ntHandler[w].todo = <<>>
           \/ NtFaulty(e)
    PROVE  NtInv'
<1> USE NtEventsAreNotZero, NtRowFacts
<1>1. /\ ntEvent' \in [NtEvents -> NtEventRows]
      /\ \A f \in NtEvents : /\ ntEvent'[f].state = IF f = e THEN state ELSE ntEvent[f].state
                             /\ ntEvent'[f].rev = ntEvent[f].rev
  <2> DEFINE v == [ntEvent[e] EXCEPT !.state = state]
  <2>1. ntEvent' = [ntEvent EXCEPT ![e] = v]
    BY Zenon DEF NtInv, NtTypeOK
  <2>2. ntEvent[e] \in NtEventRow /\ (ntEvent[e].kind \in {"test", "retry"} => ntEvent[e].dest \in NtDests)
    BY DEF NtInv, NtTypeOK, NtEventRows
  <2>3. v \in NtEventRow /\ v.state = state /\ v.rev = ntEvent[e].rev /\ v.kind = ntEvent[e].kind /\ v.dest = ntEvent[e].dest
    BY <2>2 DEF NtEventRow
  <2> HIDE DEF v
  <2>4. v \in NtEventRows
    BY <2>2, <2>3 DEF NtEventRows
  <2>5. ntEvent \in [NtEvents -> NtEventRows]
    BY DEF NtInv, NtTypeOK
  <2>6. ntEvent' \in [NtEvents -> NtEventRows] /\ \A f \in NtEvents : ntEvent'[f] = IF f = e THEN v ELSE ntEvent[f]
    BY <2>1, <2>4, <2>5
  <2> QED BY <2>3, <2>6
<1>2. /\ ntHandler' \in [NtHandlers -> NtHands]
      /\ \A x \in NtHandlers : ntHandler'[x] = IF x = w THEN NtIdle ELSE ntHandler[x]
  BY DEF NtInv, NtTypeOK
<1>3. \A x \in NtHandlers, f \in NtEvents : ntHandler'[x].event = f => x # w /\ ntHandler'[x] = ntHandler[x]
  BY <1>2
<1>4. NtHeld'
  BY <1>1, <1>3 DEF NtInv, NtHeld
<1>5. NtTests'
  BY <1>1 DEF NtInv, NtTests
<1>6. CASE UNCHANGED <<ntTaken, ntFault>> /\ ntHandler[w].todo = <<>>
  <2>1. NtTypeOK' /\ NtAlone' /\ NtOwed'
    BY <1>1, <1>2, <1>3, <1>6 DEF NtInv, NtTypeOK, NtAlone, NtOwed
  <2>2. ntHandler[w].answer # "ok"
    BY <1>6 DEF NtInv, NtTypeOK, NtHands
  <2>3. \A f \in NtEvents, g \in NtDests : NtSeen(f, g) => NtSeen(f, g)'
    BY <1>2, <2>2 DEF NtSeen
  <2>4. NtCounted'
    BY <1>1, <1>6, <2>3 DEF NtInv, NtCounted
  <2> QED BY <1>4, <1>5, <2>1, <2>4 DEF NtInv
<1>7. CASE NtFaulty(e)
  <2>1. /\ ntTaken' \in [NtEvents -> [NtDests -> {0, 1}]] /\ ntFault' = ntFault \cup {e}
        /\ \A f \in NtEvents, g \in NtDests : ntTaken'[f][g] = IF f = e THEN 0 ELSE ntTaken[f][g]
    BY <1>7, NtForgets DEF NtInv
  <2>2. NtTypeOK' /\ NtAlone'
    BY <1>1, <1>2, <1>3, <2>1 DEF NtInv, NtTypeOK, NtAlone
  <2>3. \A f \in NtEvents, g \in NtDests : f # e /\ NtSeen(f, g) => NtSeen(f, g)'
    BY <1>2 DEF NtSeen
  <2>4. NtCounted'
    <3>1. ASSUME NEW f \in NtEvents, NEW g \in NtDests, ntTaken'[f][g] # 0
          PROVE  f \notin ntFault' /\ ntEvent'[f].state # "none" /\ NtSeen(f, g)'
      <4>1. f # e /\ ntTaken[f][g] # 0
        BY <2>1, <3>1
      <4>2. f \notin ntFault /\ ntEvent[f].state # "none" /\ NtSeen(f, g)
        BY <4>1 DEF NtInv, NtCounted
      <4> QED BY <1>1, <2>1, <2>3, <4>1, <4>2
    <3> QED BY <3>1 DEF NtCounted
  <2>5. NtOwed'
    <3>1. ASSUME NEW x \in NtHandlers, NEW f \in NtEvents, ntHandler'[x].event = f, NEW i \in 1..Len(ntHandler'[x].todo),
                 ntTaken'[f][ntHandler'[x].todo[i]] # 0
          PROVE  i = 1 /\ ntHandler'[x].answer = "ok"
      <4>1. ntHandler'[x].todo[i] \in NtDests
        BY <1>2, ElementOfSeq DEF NtHands, NtHandRow
      <4>2. f # e /\ ntTaken[f][ntHandler'[x].todo[i]] # 0
        BY <2>1, <3>1, <4>1
      <4>3. ntHandler'[x] = ntHandler[x]
        BY <1>3, <3>1
      <4> QED BY <3>1, <4>2, <4>3 DEF NtInv, NtOwed
    <3> QED BY <3>1 DEF NtOwed
  <2> QED BY <1>4, <1>5, <2>2, <2>4, <2>5 DEF NtInv
<1> QED BY <1>6, <1>7

LEMMA NtEndsKeep ==
    ASSUME NtInv, NEW w \in NtHandlers, Handle(w) \/ NtCrash(w)
    PROVE  NtInv'
<1> DEFINE e == ntHandler[w].event
<1>1. e \in NtEvents
  BY DEF Handle, NtCrash, NtInv, NtTypeOK, NtHands, NtHandRow
<1>2. ntEvent[e].state \in {"queued", "handled", "done", "dead"} \ {"none", "queued"}
  BY <1>1 DEF NtInv, NtHeld, NtTypeOK, NtEventRows, NtEventRow
<1>3. CASE Handle(w)
  <2> DEFINE other == \E v \in NtHandlers \ {w} : ntHandler[v].event = e
             state == IF ntEvent[e].state # "handled" \/ other THEN ntEvent[e].state
                      ELSE IF ~ntHandler[w].failed THEN "done"
                      ELSE IF ntEvent[e].tries < MaxHandlings THEN "queued" ELSE "dead"
  <2>1. /\ ntHandler[w].todo = <<>> /\ ntHandler' = [ntHandler EXCEPT ![w] = NtIdle]
        /\ UNCHANGED <<ntDest, ntRoutes, ntRow, ntTaken, ntFault, ntTested>>
    BY <1>3 DEF Handle, ntConfig, ntHistory
  <2>2. ntEvent' = [ntEvent EXCEPT ![e].state = state]
    BY <1>1, <1>3, Zenon DEF Handle, NtInv, NtTypeOK
  <2>3. /\ state \in {"none", "queued", "handled", "done", "dead"} /\ state # "none"
        /\ state = "queued" => ~other
    BY <1>2
  <2>4. ~other => \A x \in NtHandlers \ {w} : ntHandler[x].event # e
    OBVIOUS
  <2> HIDE DEF state, other
  <2>5. \E f \in NtEvents : f = e
    BY <1>1
  <2>6. PICK f \in NtEvents : f = e
    BY <2>5
  <2> HIDE DEF e
  <2>7. ntHandler[w].event = f
    BY <2>6 DEF e
  <2> QED BY <2>1, <2>2, <2>3, <2>4, <2>6, <2>7, NtLetsGo
<1>4. CASE NtCrash(w)
  <2> DEFINE state == IF ntEvent[e].state = "handled" /\ ntEvent[e].tries = MaxHandlings THEN "dead" ELSE ntEvent[e].state
  <2>1. /\ ntHandler' = [ntHandler EXCEPT ![w] = NtIdle] /\ NtFaulty(e)
        /\ UNCHANGED <<ntDest, ntRoutes, ntRow, ntTested>>
    BY <1>4 DEF NtCrash, ntConfig
  <2>2. ntEvent' = [ntEvent EXCEPT ![e].state = state]
    BY <1>1, <1>4, Zenon DEF NtCrash, NtInv, NtTypeOK
  <2>3. state \in {"none", "queued", "handled", "done", "dead"} /\ state # "none" /\ state # "queued"
    BY <1>2
  <2> HIDE DEF state
  <2>4. PICK f \in NtEvents : f = e
    BY <1>1
  <2> HIDE DEF e
  <2>5. ntHandler[w].event = f
    BY <2>4 DEF e
  <2> QED BY <2>1, <2>2, <2>3, <2>4, <2>5, NtLetsGo
<1> QED BY <1>3, <1>4

LEMMA NtConfigKeeps ==
    ASSUME NtInv,
           \/ \E d \in NtDests : \/ CreateNotificationDestination(d)
                                 \/ \E s \in {"enabled", "paused"} : UpdateNotificationDestination(d, s)
                                 \/ \E selects \in BOOLEAN : CreateNotificationRoute(d, selects)
           \/ \E i \in DOMAIN ntRoutes, selects \in BOOLEAN : UpdateNotificationRoute(i, selects)
           \/ ReorderNotificationRoutes
    PROVE  NtInv'
<1> DEFINE Route == [dest : NtDests, selects : BOOLEAN]
           Dest == [state : {"none", "enabled", "paused"}, rev : Nat]
<1>0. /\ ntDest \in [NtDests -> Dest] /\ ntRoutes \in Seq(Route)
      /\ Len(ntRoutes) \in Nat /\ DOMAIN ntRoutes = 1..Len(ntRoutes)
      /\ \A i \in 1..Len(ntRoutes) : ntRoutes[i] \in Route
  BY LenProperties, ElementOfSeq DEF NtInv, NtTypeOK
<1>1. ASSUME NEW d \in NtDests, CreateNotificationDestination(d) PROVE NtInv'
  <2>1. ntDest' = [ntDest EXCEPT ![d] = [ntDest[d] EXCEPT !.state = "enabled"]]
    BY <1>0, <1>1, Zenon DEF CreateNotificationDestination
  <2>2. [ntDest[d] EXCEPT !.state = "enabled"] \in Dest
    BY <1>0
  <2>3. ntDest' \in [NtDests -> Dest]
    BY <1>0, <2>1, <2>2
  <2> QED BY <1>0, <1>1, <2>3, NtQuiet DEF CreateNotificationDestination, ntHistory
<1>2. ASSUME NEW d \in NtDests, NEW s \in {"enabled", "paused"}, UpdateNotificationDestination(d, s) PROVE NtInv'
  <2>1. ntDest' = [ntDest EXCEPT ![d] = [state |-> s, rev |-> ntDest[d].rev + 1]]
    BY <1>0, <1>2, Zenon DEF UpdateNotificationDestination
  <2>2. [state |-> s, rev |-> ntDest[d].rev + 1] \in Dest
    BY <1>0
  <2>3. ntDest' \in [NtDests -> Dest]
    BY <1>0, <2>1, <2>2
  <2> QED BY <1>0, <1>2, <2>3, NtQuiet DEF UpdateNotificationDestination, ntHistory
<1>3. ASSUME NEW d \in NtDests, NEW selects \in BOOLEAN, CreateNotificationRoute(d, selects) PROVE NtInv'
  <2>1. ntRoutes' = Append(ntRoutes, [dest |-> d, selects |-> selects])
    BY <1>3 DEF CreateNotificationRoute
  <2>2. [dest |-> d, selects |-> selects] \in Route
    OBVIOUS
  <2>3. ntRoutes' \in Seq(Route)
    BY <1>0, <2>1, <2>2, AppendProperties
  <2> QED BY <1>0, <1>3, <2>3, NtQuiet DEF CreateNotificationRoute, ntHistory
<1>4. ASSUME NEW i \in DOMAIN ntRoutes, NEW selects \in BOOLEAN, UpdateNotificationRoute(i, selects) PROVE NtInv'
  <2> DEFINE r == [ntRoutes[i] EXCEPT !.selects = selects]
  <2>1. ntRoutes' = [ntRoutes EXCEPT ![i] = r]
    BY <1>0, <1>4, Zenon DEF UpdateNotificationRoute
  <2>2. r \in Route
    BY <1>0
  <2> HIDE DEF r
  <2>3. ntRoutes' \in Seq(Route)
    BY <1>0, <2>1, <2>2, ExceptSeq
  <2> QED BY <1>0, <1>4, <2>3, NtQuiet DEF UpdateNotificationRoute, ntHistory
<1>5. CASE ReorderNotificationRoutes
  <2>1. PICK p \in [DOMAIN ntRoutes -> DOMAIN ntRoutes] : /\ ntRoutes' = [i \in DOMAIN ntRoutes |-> ntRoutes[p[i]]]
                                                          /\ UNCHANGED <<ntDest, ntEvent, ntRow, ntHandler, ntHistory>>
    BY <1>5 DEF ReorderNotificationRoutes
  <2>2. ntRoutes' \in [1..Len(ntRoutes) -> Route]
    BY <1>0, <2>1
  <2>3. ntRoutes' \in Seq(Route)
    BY <1>0, <2>2, NtIsASeq
  <2> QED BY <1>0, <2>1, <2>3, NtQuiet DEF ntHistory
<1> QED BY <1>1, <1>2, <1>3, <1>4, <1>5

LEMMA NtEventKeeps ==
    ASSUME NtInv, NEW e \in NtEvents,
           \/ RunEndQueued(e)
           \/ \E d \in NtDests : RequestNotificationTest(e, d) \/ \E f \in NtEvents : RetryNotificationDelivery(e, f, d)
    PROVE  NtInv'
<1>0. ntRow \in [NtEvents -> [NtDests -> NtRowStates]] /\ \A d \in NtDests : ntDest[d].rev \in Nat
  BY DEF NtInv, NtTypeOK
<1>1. CASE RunEndQueued(e)
  <2>1. NtQueue(e, "terminal", "all", 0) /\ UNCHANGED <<ntDest, ntRoutes, ntRow, ntHandler, ntTaken, ntFault, ntTested>>
    BY <1>1 DEF RunEndQueued, ntConfig, ntHistory
  <2> QED BY <1>0, <2>1, NtQueues
<1>2. ASSUME NEW d \in NtDests, RequestNotificationTest(e, d) PROVE NtInv'
  <2> DEFINE row == [ntRow[e] EXCEPT ![d] = "pending"]
  <2>1. /\ NtQueue(e, "test", d, ntDest[d].rev) /\ UNCHANGED <<ntDest, ntRoutes, ntHandler, ntTaken, ntFault, ntTested>>
        /\ ntRow' = [ntRow EXCEPT ![e][d] = "pending"]
    BY <1>2 DEF RequestNotificationTest, ntConfig, ntHistory
  <2>2. ntRow' = [ntRow EXCEPT ![e] = row]
    BY <1>0, <2>1, Zenon
  <2>3. row \in [NtDests -> NtRowStates]
    BY <1>0 DEF NtRowStates
  <2> HIDE DEF row
  <2>4. ntRow' \in [NtEvents -> [NtDests -> NtRowStates]] /\ \A f \in NtEvents : f # e => ntRow'[f] = ntRow[f]
    BY <1>0, <2>2, <2>3
  <2>5. PICK rev \in Nat : rev = ntDest[d].rev
    BY <1>0
  <2> QED BY <2>1, <2>4, <2>5, NtQueues
<1>3. ASSUME NEW d \in NtDests, NEW f \in NtEvents, RetryNotificationDelivery(e, f, d) PROVE NtInv'
  <2>1. NtQueue(e, "retry", d, 0) /\ UNCHANGED <<ntDest, ntRoutes, ntRow, ntHandler, ntTaken, ntFault, ntTested>>
    BY <1>3 DEF RetryNotificationDelivery, ntConfig, ntHistory
  <2> QED BY <1>0, <2>1, NtQueues
<1> QED BY <1>1, <1>2, <1>3

LEMMA NtStep == NtInv /\ [NtNext]_ntVars => NtInv'
<1> SUFFICES ASSUME NtInv, [NtNext]_ntVars PROVE NtInv'
  OBVIOUS
<1>1. CASE UNCHANGED ntVars
  <2>1. /\ UNCHANGED <<ntEvent, ntRow, ntHandler, ntTaken, ntFault, ntTested>>
        /\ ntDest' \in [NtDests -> [state : {"none", "enabled", "paused"}, rev : Nat]]
        /\ ntRoutes' \in Seq([dest : NtDests, selects : BOOLEAN])
    BY <1>1 DEF ntVars, NtInv, NtTypeOK
  <2> QED BY <2>1, NtQuiet
<1> QED BY <1>1, NtConfigKeeps, NtEventKeeps, NtPrepareKeeps, NtTestKeeps, NtSendKeeps, NtFinishKeeps, NtEndsKeep,
           Zenon DEF NtNext

-----------------------------------------------------------------------------
(* What people are told.                                                   *)

NoticeInv == IsInv /\ NtInv /\ TgInv

\* The inductive invariants of issues, notices and triage hold of the
\* composition.
THEOREM NoticeInvariant == Spec => []NoticeInv
<1>1. Init => NoticeInv
  BY IsInitInv, NtInitInv, TgInitInv DEF Init, NoticeInv
<1>2. NoticeInv /\ [Next]_vars => NoticeInv'
  BY PartsMove, IsStep, NtStep, TgStep DEF NoticeInv
<1> QED BY <1>1, <1>2, PTL DEF Spec

\* The tracked issue, each notice and the triage comment follow the state
\* inside the platform, but for the faults their statements name.
THEOREM NoticesProved == Spec => []NoticesTellTheTruth
<1>1. NoticeInv => NoticesTellTheTruth
  BY NtInvSuffices DEF NoticeInv, NoticesTellTheTruth, IsInv, TgInv
<1> QED BY <1>1, NoticeInvariant, PTL

\* A pending analysis has a message that is yet to be handled, or can be
\* retried by hand, unless a process died with it.
THEOREM PendingProved == Spec => []PendingCanBeFinished
<1>1. NoticeInv => PendingCanBeFinished
  BY DEF NoticeInv, TgInv
<1> QED BY <1>1, NoticeInvariant, PTL
=============================================================================
