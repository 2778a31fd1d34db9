--------------------------- MODULE AgentCredential ---------------------------
(***************************************************************************)
(* Provider tokens for a running adapter job: agentcredentials/service.go  *)
(* with the issuance records of store/agent_task_credentials.go.  The      *)
(* adapter asks over HTTP and may ask again when no answer came; the       *)
(* broker may stop between any two of its calls.                           *)
(***************************************************************************)
EXTENDS Integers, Sequences, FiniteSets

CONSTANTS
    CredentialCalls,  \* requests served at the same time
    CrLimit           \* maxAgentCredentialIssuancesPerJob

ASSUME CredentialAssumption == CrLimit \in Nat \ {0}

VARIABLES
    crGranted,   \* the attempt runs, started, leased, approved, installed
    crIssuance,  \* states of the issuance records, in order
    crCall,      \* step of each request and the record it reserved
    crMinted     \* tokens the provider made

crVars == <<crGranted, crIssuance, crCall, crMinted>>

CrIdle == [pc |-> "idle", n |-> 0]
CrInit ==
    /\ crGranted = TRUE /\ crIssuance = <<>> /\ crMinted = 0
    /\ crCall = [c \in CredentialCalls |-> CrIdle]

CrStep(c, pc) == crCall' = [crCall EXCEPT ![c].pc = pc]

\* LoadAgentTaskCredentialGrant: the request matches a grant that is live.
LoadAgentTaskCredentialGrant(c) ==
    /\ crCall[c].pc = "idle" /\ crGranted
    /\ CrStep(c, "reserve")
    /\ UNCHANGED <<crGranted, crIssuance, crMinted>>

\* Mutant: only the tokens that were handed out count.
ReserveIssuedOnly(c) ==
    /\ crCall[c].pc = "reserve" /\ crGranted
    /\ Cardinality({i \in DOMAIN crIssuance : crIssuance[i] = "issued"}) < CrLimit
    /\ Len(crIssuance) < 2 * CrLimit
    /\ crIssuance' = crIssuance \o <<"reserved">>
    /\ crCall' = [crCall EXCEPT ![c] = [pc |-> "issue", n |-> Len(crIssuance) + 1]]
    /\ UNCHANGED <<crGranted, crMinted>>

\* The rows of the grant are locked: every record counts, also the ones that
\* failed or whose process died, for "a remote token may already exist".
ReserveAgentTaskCredentialIssuance(c) ==
    /\ crCall[c].pc = "reserve"
    /\ IF crGranted /\ Len(crIssuance) < CrLimit
       THEN /\ crIssuance' = crIssuance \o <<"reserved">>
            /\ crCall' = [crCall EXCEPT ![c] = [pc |-> "issue", n |-> Len(crIssuance) + 1]]
       ELSE CrStep(c, "idle") /\ UNCHANGED crIssuance
    /\ UNCHANGED <<crGranted, crMinted>>

\* Issuer.Issue: a token, or an error with or without one at the provider.
IssueToken(c) ==
    /\ crCall[c].pc = "issue"
    /\ \E made \in {0, 1}, pc \in {"complete", "failed"} :
          /\ pc = "complete" => made = 1
          /\ crMinted' = crMinted + made /\ CrStep(c, pc)
    /\ UNCHANGED <<crGranted, crIssuance>>

updateAgentTaskCredentialIssuance(c, state) ==
    crIssuance' = [crIssuance EXCEPT ![crCall[c].n] = IF @ = "reserved" THEN state ELSE @]

\* "issued" asks for the whole grant again; otherwise the token is withheld.
CompleteAgentTaskCredentialIssuance(c) ==
    /\ \/ /\ crCall[c].pc = "complete" /\ crGranted
          /\ updateAgentTaskCredentialIssuance(c, "issued") /\ CrStep(c, "answer")
       \/ /\ crCall[c].pc = "complete" /\ ~crGranted
          /\ updateAgentTaskCredentialIssuance(c, "withheld") /\ CrStep(c, "idle")
       \/ /\ crCall[c].pc = "failed"
          /\ updateAgentTaskCredentialIssuance(c, "failed") /\ CrStep(c, "idle")
    /\ UNCHANGED <<crGranted, crMinted>>

\* The response leaves, or the broker stops, at any point.
CrReturns(c) ==
    /\ crCall[c].pc # "idle"
    /\ crCall' = [crCall EXCEPT ![c] = CrIdle]
    /\ UNCHANGED <<crGranted, crIssuance, crMinted>>

\* Cancellation, a lapsed lease, a new plan, a deactivated installation.
CrRevoked ==
    /\ crGranted /\ crGranted' = FALSE
    /\ UNCHANGED <<crIssuance, crCall, crMinted>>

CrNext ==
    \/ \E c \in CredentialCalls :
          \/ LoadAgentTaskCredentialGrant(c) \/ ReserveAgentTaskCredentialIssuance(c)
          \/ IssueToken(c) \/ CompleteAgentTaskCredentialIssuance(c) \/ CrReturns(c)
    \/ CrRevoked

-----------------------------------------------------------------------------
\* A job never makes the provider mint more tokens than its limit, however
\* often the adapter asks, requests overlap or the broker dies; and a request
\* that completes after the grant went away hands no token out.
TokensStayBounded ==
    /\ crMinted' <= CrLimit
    /\ \A c \in CredentialCalls :
          (crCall'[c].pc = "answer" /\ crCall[c].pc # "answer") => crGranted
=============================================================================
