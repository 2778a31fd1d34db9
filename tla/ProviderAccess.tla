--------------------------- MODULE ProviderAccess ---------------------------
(***************************************************************************)
(* Connections to the code hosts: provider installations with their        *)
(* repository scope and credential (store/postgres.go), the local GitLab   *)
(* OAuth credentials (store/provider_oauth_credentials.go), and the health *)
(* probes that verify an installation before it may route reviews          *)
(* (store/provider_health.go, providerhealth/probe.go).                    *)
(*                                                                         *)
(* Transactions are READ COMMITTED: every statement sees what is committed *)
(* when it starts, so an administrator's transaction is a step for what it *)
(* reads, where needed one for the statement that takes the row locks, and *)
(* one for the commit that shows its writes.  The installations are GitLab *)
(* ones: they are routed by scope alone and own a local credential.  A     *)
(* scope is the set of repositories it covers.                             *)
(***************************************************************************)
EXTENDS Integers, FiniteSets

CONSTANTS
    PaAdmins,       \* administrators, each with at most one open transaction
    Installations,  \* provider identities (external IDs)
    PaRepos,        \* repositories of the host
    PaCredentials,  \* OAuth credential references
    PaWorkers,      \* processes that probe installations
    MaxPaEdits,     \* bound: transactions of administrators
    MaxPaProbes     \* bound: probes claimed

ASSUME AccessAssumption == MaxPaEdits \in Nat /\ MaxPaProbes \in Nat

VARIABLES
    paInst,     \* provider_installations rows
    paProbe,    \* provider_health_probes rows: state, worker and lease
    paCred,     \* provider_oauth_credentials: "none", "live" or "revoked"
    paTx,       \* the open transaction of an administrator
    paWork,     \* what a worker claimed: installation, scope and credential
    paSeen,     \* scope and credential of the probe that last verified each
    paCount     \* edits and probes begun

paVars == <<paInst, paProbe, paCred, paTx, paWork, paSeen, paCount>>

Scopes == SUBSET PaRepos \ {{}}
NobodyPa == "nobody"
NoRef == [scope |-> {}, cred |-> NobodyPa]
NoPaTx == [op |-> "none", inst |-> NobodyPa, scope |-> {}, cred |-> NobodyPa, revoke |-> FALSE, locked |-> FALSE]
NoPaWork == [inst |-> NobodyPa, scope |-> {}, cred |-> NobodyPa, usable |-> FALSE]
IdleProbe == [state |-> "none", worker |-> NobodyPa, live |-> FALSE]
QueuedProbe == [IdleProbe EXCEPT !.state = "queued"]

PaInit ==
    /\ paInst = [i \in Installations |-> [state |-> "none", scope |-> {}, cred |-> NobodyPa, ver |-> "none"]]
    /\ paProbe = [i \in Installations |-> IdleProbe]
    /\ paCred = [c \in PaCredentials |-> "none"]
    /\ paTx = [a \in PaAdmins |-> NoPaTx]
    /\ paWork = [w \in PaWorkers |-> NoPaWork]
    /\ paSeen = [i \in Installations |-> NoRef]
    /\ paCount = [edits |-> 0, probes |-> 0]

PaActive(i) == paInst[i].state = "active"

-----------------------------------------------------------------------------
(* Locks of the open transactions.                                         *)

\* An installation's row: held from the statement that writes or locks it.
RowHeld(i) == \E a \in PaAdmins : paTx[a].inst = i /\ paTx[a].op \in {"authorized", "rescope", "deactivate"}
SharedBy(c) == {a \in PaAdmins : paTx[a].op = "authorized" /\ paTx[a].cred = c}
Exclusive(c) == \E a \in PaAdmins : paTx[a].op = "deactivate" /\ paTx[a].cred = c /\ paTx[a].locked

repositoryScopesOverlap(s, t) == s \cap t # {}
ScopeFree(i, s) == \A j \in Installations \ {i} : PaActive(j) => ~repositoryScopesOverlap(paInst[j].scope, s)

\* Begin, or go on with, the transaction of an administrator.
PaBegin(a, tx) ==
    /\ paTx[a] = NoPaTx /\ paCount.edits < MaxPaEdits
    /\ paTx' = [paTx EXCEPT ![a] = tx] /\ paCount' = [paCount EXCEPT !.edits = @ + 1]
    /\ UNCHANGED <<paInst, paProbe, paCred, paWork, paSeen>>

-----------------------------------------------------------------------------
(* Credentials.                                                            *)

CreateProviderOAuthCredential(c) ==
    /\ paCred[c] = "none" /\ paCred' = [paCred EXCEPT ![c] = "live"]
    /\ UNCHANGED <<paInst, paProbe, paTx, paWork, paSeen, paCount>>

\* Skips credentials an installation being created holds, and reads again who
\* uses the credential once it holds it.
RevokeOrphanedProviderOAuthCredentials(c) ==
    /\ paCred[c] = "live" /\ SharedBy(c) = {} /\ ~Exclusive(c)
    /\ ~\E i \in Installations : PaActive(i) /\ paInst[i].cred = c
    /\ paCred' = [paCred EXCEPT ![c] = "revoked"]
    /\ UNCHANGED <<paInst, paProbe, paTx, paWork, paSeen, paCount>>

-----------------------------------------------------------------------------
(* Installations.                                                          *)

\* An identity that is active is a replay or a conflict; overlapping scopes
\* are refused.
CreateInstallation(a, i, s, c) ==
    /\ ~PaActive(i) /\ ScopeFree(i, s)
    /\ PaBegin(a, [NoPaTx EXCEPT !.op = "create", !.inst = i, !.scope = s, !.cred = c])

\* The row is written, the credential must be live and is held.  A lost race
\* for the identity, or a credential revoked meanwhile, ends in ErrConflict.
AuthorizeInstallation(a) ==
    LET t == paTx[a] IN
    /\ t.op = "create" /\ ~RowHeld(t.inst) /\ ~Exclusive(t.cred)
    /\ paTx' = [paTx EXCEPT ![a] = IF ~PaActive(t.inst) /\ paCred[t.cred] = "live"
                                     THEN [@ EXCEPT !.op = "authorized"] ELSE NoPaTx]
    /\ UNCHANGED <<paInst, paProbe, paCred, paWork, paSeen, paCount>>

\* A mutated form: the probe in flight keeps its claim.
ReauthorizedUnfenced(i) == IF paProbe[i].state = "none" THEN QueuedProbe ELSE paProbe[i]

\* The probe a new authorization starts from: whoever probed the previous
\* credential has lost the claim.
ReauthorizedProbe(i) == QueuedProbe

CommitInstallation(a) ==
    LET t == paTx[a] IN
    /\ t.op = "authorized"
    /\ paInst' = [paInst EXCEPT ![t.inst] = [state |-> "active", scope |-> t.scope, cred |-> t.cred, ver |-> "pending"]]
    /\ paProbe' = [paProbe EXCEPT ![t.inst] = ReauthorizedProbe(t.inst)]
    /\ paTx' = [paTx EXCEPT ![a] = NoPaTx]
    /\ UNCHANGED <<paCred, paWork, paSeen, paCount>>

\* Refused while a probe runs, even one whose worker is gone.
UpdateInstallationRepositoryScope(a, i, s) ==
    /\ PaActive(i) /\ ~RowHeld(i) /\ paProbe[i].state # "running" /\ paInst[i].scope # s /\ ScopeFree(i, s)
    /\ PaBegin(a, [NoPaTx EXCEPT !.op = "rescope", !.inst = i, !.scope = s])

CommitScope(a) ==
    LET t == paTx[a] IN
    /\ t.op = "rescope"
    /\ paInst' = [paInst EXCEPT ![t.inst].scope = t.scope, ![t.inst].ver = "pending"]
    /\ paProbe' = [paProbe EXCEPT ![t.inst] = QueuedProbe]
    /\ paTx' = [paTx EXCEPT ![a] = NoPaTx]
    /\ UNCHANGED <<paCred, paWork, paSeen, paCount>>

\* The statement that revokes the credential looks for another active
\* installation when it starts; while one being created holds the credential,
\* it waits, and then goes on with what it saw.
DeactivateInstallation(a, i) ==
    LET c == paInst[i].cred
        revoke == paCred[c] = "live" /\ ~\E j \in Installations \ {i} : PaActive(j) /\ paInst[j].cred = c IN
    /\ PaActive(i) /\ ~RowHeld(i) /\ ~Exclusive(c)
    /\ PaBegin(a, [NoPaTx EXCEPT !.op = "deactivate", !.inst = i, !.cred = c, !.revoke = revoke,
                                 !.locked = revoke /\ SharedBy(c) = {}])

CommitDeactivation(a) ==
    LET t == paTx[a] IN
    /\ t.op = "deactivate" /\ (t.revoke /\ ~t.locked => SharedBy(t.cred) = {} /\ ~Exclusive(t.cred))
    /\ paInst' = [paInst EXCEPT ![t.inst].state = "inactive"]
    /\ paCred' = IF t.revoke THEN [paCred EXCEPT ![t.cred] = "revoked"] ELSE paCred
    /\ paTx' = [paTx EXCEPT ![a] = NoPaTx]
    /\ UNCHANGED <<paProbe, paWork, paSeen, paCount>>

\* A verified installation stays verified while it is checked again.
RequestInstallationVerification(i) ==
    /\ PaActive(i) /\ ~RowHeld(i) /\ paProbe[i].state # "running" /\ paCount.edits < MaxPaEdits
    /\ paProbe' = [paProbe EXCEPT ![i] = QueuedProbe]
    /\ paInst' = [paInst EXCEPT ![i].ver = IF @ = "verified" THEN @ ELSE "pending"]
    /\ paCount' = [paCount EXCEPT !.edits = @ + 1]
    /\ UNCHANGED <<paCred, paTx, paWork, paSeen>>

-----------------------------------------------------------------------------
(* Probes.                                                                 *)

\* Queued, due again, or left by a worker whose lease lapsed.
ClaimProviderHealthProbe(w, i) ==
    /\ paWork[w] = NoPaWork /\ PaActive(i) /\ ~RowHeld(i) /\ paCount.probes < MaxPaProbes
    /\ paProbe[i].state \in {"queued", "completed"} \/ (paProbe[i].state = "running" /\ ~paProbe[i].live)
    /\ paProbe' = [paProbe EXCEPT ![i] = [state |-> "running", worker |-> w, live |-> TRUE]]
    /\ paInst' = [paInst EXCEPT ![i].ver = IF @ \in {"pending", "failed"} THEN "checking" ELSE @]
    /\ paWork' = [paWork EXCEPT ![w] = [inst |-> i, scope |-> paInst[i].scope, cred |-> paInst[i].cred,
                                        usable |-> paCred[paInst[i].cred] = "live"]]
    /\ paCount' = [paCount EXCEPT !.probes = @ + 1]
    /\ UNCHANGED <<paCred, paTx, paSeen>>

PaLeaseLapses(i) ==
    /\ paProbe[i].live /\ paProbe' = [paProbe EXCEPT ![i].live = FALSE]
    /\ UNCHANGED <<paInst, paCred, paTx, paWork, paSeen, paCount>>

PaWorkerDies(w) ==
    /\ paWork[w] # NoPaWork /\ paWork' = [paWork EXCEPT ![w] = NoPaWork]
    /\ UNCHANGED <<paInst, paProbe, paCred, paTx, paSeen, paCount>>

\* What the host answers: a credential that was revoked when the probe began
\* cannot be resolved, one revoked while it runs may have been; the host may
\* be down or out of quota.
ProbeHealth(w) == IF paWork[w].usable THEN {"live", "degraded", "critical"} ELSE {"critical"}

\* The repositories the host shows under the credential, archived ones left out.
VerifiedRepositories == SUBSET PaRepos

\* Live only with a repository seen for every entry of the claimed scope.
currentProbeVerifiesScope(w, seen) == paWork[w].scope \subseteq seen

\* A failing recheck takes a verification back only when it is critical.
Verification(ver, health) ==
    IF ver \in {"pending", "checking", "failed"} THEN (IF health = "live" THEN "verified" ELSE "failed")
    ELSE IF ver = "verified" /\ health = "critical" THEN "failed" ELSE ver

CompleteProviderHealthProbe(w, found, seen) ==
    LET k == paWork[w]
        health == IF found = "live" /\ ~currentProbeVerifiesScope(w, seen) THEN "critical" ELSE found
        i == k.inst
        owned == paProbe[i].state = "running" /\ paProbe[i].worker = w /\ paProbe[i].live IN
    /\ ~RowHeld(i)
    /\ paProbe' = IF owned THEN [paProbe EXCEPT ![i] = [IdleProbe EXCEPT !.state = "completed"]] ELSE paProbe
    /\ paInst' = IF owned /\ PaActive(i) THEN [paInst EXCEPT ![i].ver = Verification(@, health)] ELSE paInst
    /\ paSeen' = IF owned /\ PaActive(i) /\ health = "live"
                   THEN [paSeen EXCEPT ![i] = [scope |-> k.scope, cred |-> k.cred]] ELSE paSeen

\* The rest of a worker's round after its claim.
ProberRunOnce(w) ==
    /\ paWork[w] # NoPaWork
    /\ \E found \in ProbeHealth(w), seen \in VerifiedRepositories : CompleteProviderHealthProbe(w, found, seen)
    /\ paWork' = [paWork EXCEPT ![w] = NoPaWork]
    /\ UNCHANGED <<paCred, paTx, paCount>>

PaNext ==
    \/ \E c \in PaCredentials : CreateProviderOAuthCredential(c) \/ RevokeOrphanedProviderOAuthCredentials(c)
    \/ \E a \in PaAdmins :
          \/ \E i \in Installations, s \in Scopes, c \in PaCredentials : CreateInstallation(a, i, s, c)
          \/ \E i \in Installations, s \in Scopes : UpdateInstallationRepositoryScope(a, i, s)
          \/ \E i \in Installations : DeactivateInstallation(a, i)
          \/ AuthorizeInstallation(a) \/ CommitInstallation(a) \/ CommitScope(a) \/ CommitDeactivation(a)
    \/ \E i \in Installations : RequestInstallationVerification(i) \/ PaLeaseLapses(i)
    \/ \E w \in PaWorkers : ProberRunOnce(w) \/ PaWorkerDies(w) \/ \E i \in Installations : ClaimProviderHealthProbe(w, i)

-----------------------------------------------------------------------------
(* Properties.                                                             *)

\* An installation that may route webhooks was verified under the scope and
\* the credential it has now: no probe that began before a scope change or a
\* new authorization vouches for it (postgres.go:273, provider_health.go:205).
VerifiedIsCurrent ==
    \A i \in Installations : PaActive(i) /\ paInst[i].ver = "verified" =>
        paSeen[i] = [scope |-> paInst[i].scope, cred |-> paInst[i].cred]
=============================================================================
