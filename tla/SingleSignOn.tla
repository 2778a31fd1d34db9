---------------------------- MODULE SingleSignOn ----------------------------
(***************************************************************************)
(* Single sign-on of one workspace from draft to enforcement               *)
(* (store/sso.go), and the workers that probe the identity provider        *)
(* (sso/probe.go).                                                         *)
(*                                                                         *)
(* Every call is one transaction that holds the configuration's row, so it *)
(* is one step.  Callers are owners or administrators, revisions are       *)
(* optimistic, and a refused call changes nothing.  The probe itself lies  *)
(* between a worker's claim and its completion.                            *)
(***************************************************************************)
EXTENDS Integers

CONSTANTS
    SoWorkers,          \* the processes that probe identity providers
    MaxSsoRevisions,    \* bound: saved SSO configurations
    MaxSsoProbes        \* bound: probes requested

ASSUME SsoAssumption == MaxSsoRevisions \in Nat \ {0} /\ MaxSsoProbes \in Nat \ {0}

VARIABLES
    soConfig,   \* the workspace_sso_configurations row, domain and mapping
    soReceipt,  \* the newest probe receipt: the older ones have all ended
    soWork,     \* the receipt and revision a worker probes (id 0 when idle)
    soReached   \* revisions whose identity provider a probe found sound

soVars == <<soConfig, soReceipt, soWork, soReached>>

NoSsoWork == [id |-> 0, rev |-> 0]
NoSsoWorker == "none"

SoInit ==
    /\ soConfig = [state |-> "none", rev |-> 0, tested |-> 0, domain |-> "none", mapping |-> FALSE]
    /\ soReceipt = [id |-> 0, rev |-> 0, state |-> "none", worker |-> NoSsoWorker, live |-> FALSE]
    /\ soWork = [w \in SoWorkers |-> NoSsoWork]
    /\ soReached = {}

-----------------------------------------------------------------------------
(* Readiness.                                                              *)

\* A mutated form: readiness no longer asks which revision was tested.
RefreshUntested(sso) ==
    [sso EXCEPT !.state =
        IF sso.state \in {"none", "enforced", "suspended"} THEN sso.state
        ELSE IF sso.domain = "verified" /\ sso.mapping THEN "enforcement_ready" ELSE "verified"]

\* Readiness as computed from what is stored, whatever the state was.
refreshSSOReadinessState(sso) ==
    [sso EXCEPT !.state =
        IF sso.state \in {"none", "enforced", "suspended"} THEN sso.state
        ELSE IF sso.tested # sso.rev THEN "draft_saved"
        ELSE IF sso.domain = "verified" /\ sso.mapping THEN "enforcement_ready" ELSE "verified"]

-----------------------------------------------------------------------------
(* The configuration and its probes.                                       *)

\* A new revision has not been tested, and the probe of an older one is void.
SaveSSOConfiguration ==
    /\ soConfig.state # "enforced" /\ soConfig.rev < MaxSsoRevisions
    /\ soConfig' = [soConfig EXCEPT !.state = "draft_saved", !.rev = @ + 1, !.tested = 0]
    /\ soReceipt' = IF soReceipt.state \in {"queued", "running"}
                      THEN [soReceipt EXCEPT !.state = "failed", !.live = FALSE] ELSE soReceipt
    /\ UNCHANGED <<soWork, soReached>>

RequestSSOProbe ==
    /\ soConfig.state \notin {"none", "enforced"} /\ soReceipt.state \notin {"queued", "running"}
    /\ soReceipt.id < MaxSsoProbes
    /\ soReceipt' = [id |-> soReceipt.id + 1, rev |-> soConfig.rev, state |-> "queued",
                     worker |-> NoSsoWorker, live |-> FALSE]
    /\ soConfig' = [soConfig EXCEPT !.state = "testing"]
    /\ UNCHANGED <<soWork, soReached>>

ClaimSSOProbe(w) ==
    /\ soWork[w] = NoSsoWork /\ soReceipt.rev = soConfig.rev
    /\ soReceipt.state = "queued" \/ (soReceipt.state = "running" /\ ~soReceipt.live)
    /\ soReceipt' = [soReceipt EXCEPT !.state = "running", !.worker = w, !.live = TRUE]
    /\ soWork' = [soWork EXCEPT ![w] = [id |-> soReceipt.id, rev |-> soReceipt.rev]]
    /\ UNCHANGED <<soConfig, soReached>>

SsoLeaseLapses ==
    /\ soReceipt.live /\ soReceipt' = [soReceipt EXCEPT !.live = FALSE]
    /\ UNCHANGED <<soConfig, soWork, soReached>>

\* The answer of the identity provider: its metadata is sound or it is not.
Probe(w, sound) == soReached' = IF sound THEN soReached \cup {soWork[w].rev} ELSE soReached

\* What a probe learnt moves the configuration it was made for, as long as
\* that is still being tested.
Learnt(sso, rev, sound) ==
    IF sso.rev = rev /\ sso.state = "testing"
      THEN IF sound THEN [sso EXCEPT !.tested = rev, !.state = "verified"] ELSE [sso EXCEPT !.state = "draft_saved"]
      ELSE sso

\* A worker that lost its claim changes nothing.
CompleteSSOProbe(w, sound) ==
    LET owned == soReceipt.id = soWork[w].id /\ soReceipt.worker = w /\ soReceipt.state = "running" /\ soReceipt.live IN
    /\ soReceipt' = IF owned THEN [soReceipt EXCEPT !.state = IF sound THEN "succeeded" ELSE "failed", !.live = FALSE]
                    ELSE soReceipt
    /\ soConfig' = IF owned /\ sound THEN refreshSSOReadinessState(Learnt(soConfig, soWork[w].rev, sound))
                   ELSE IF owned THEN Learnt(soConfig, soWork[w].rev, sound) ELSE soConfig

\* The rest of a worker's round after its claim.
RunOnce(w) ==
    /\ soWork[w] # NoSsoWork
    /\ \E sound \in BOOLEAN : Probe(w, sound) /\ CompleteSSOProbe(w, sound)
    /\ soWork' = [soWork EXCEPT ![w] = NoSsoWork]

SsoWorkerDies(w) ==
    /\ soWork[w] # NoSsoWork /\ soWork' = [soWork EXCEPT ![w] = NoSsoWork]
    /\ UNCHANGED <<soConfig, soReceipt, soReached>>

-----------------------------------------------------------------------------
(* Domains, role mappings and enforcement.                                 *)

SsoRestSame == UNCHANGED <<soReceipt, soWork, soReached>>

AddSSODomain ==
    soConfig.domain = "none" /\ soConfig' = [soConfig EXCEPT !.domain = "pending"] /\ SsoRestSame

\* Only with the challenge in the domain's DNS; again, it changes readiness.
VerifySSODomain ==
    soConfig.domain # "none" /\ soConfig' = refreshSSOReadinessState([soConfig EXCEPT !.domain = "verified"]) /\ SsoRestSame

CreateSSORoleMapping ==
    ~soConfig.mapping /\ soConfig' = refreshSSOReadinessState([soConfig EXCEPT !.mapping = TRUE]) /\ SsoRestSame

DeleteSSORoleMapping ==
    soConfig.mapping /\ soConfig' = refreshSSOReadinessState([soConfig EXCEPT !.mapping = FALSE]) /\ SsoRestSame

\* By an owner, with a break-glass subject who is an active owner.
EnforceSSO ==
    /\ soConfig.state = "enforcement_ready" /\ soConfig.tested = soConfig.rev
    /\ soConfig' = [soConfig EXCEPT !.state = "enforced"] /\ SsoRestSame

SuspendSSO ==
    soConfig.state = "enforced" /\ soConfig' = [soConfig EXCEPT !.state = "suspended"] /\ SsoRestSame

SoNext ==
    \/ SaveSSOConfiguration \/ RequestSSOProbe \/ SsoLeaseLapses
    \/ \E w \in SoWorkers : ClaimSSOProbe(w) \/ RunOnce(w) \/ SsoWorkerDies(w)
    \/ AddSSODomain \/ VerifySSODomain \/ CreateSSORoleMapping \/ DeleteSSORoleMapping
    \/ EnforceSSO \/ SuspendSSO

-----------------------------------------------------------------------------
(* Properties.                                                             *)

\* Single sign-on is enforced, or offered for enforcement, only under a
\* configuration revision whose own identity provider a probe found sound:
\* not one that a probe of an older revision, a probe that lost its claim, or
\* a readiness refresh between edit and test vouched for (sso.go:253, 542).
EnforcedWasTested ==
    soConfig.state \in {"enforcement_ready", "enforced"} => soConfig.rev \in soReached
=============================================================================
