---------------------------- MODULE ModelBroker -----------------------------
(***************************************************************************)
(* The model broker of one coding job (agentadapter/model_broker.go,       *)
(* model_upstream.go, anthropic_model_broker.go): an HTTP endpoint that    *)
(* forwards the coding CLI's model calls with the deployment's key, under  *)
(* ceilings for calls, output tokens and request bytes, and that latches   *)
(* on the first terminal failure.                                          *)
(*                                                                         *)
(* The CLI may send calls concurrently and leave at any moment; a call the *)
(* model answered may have spent anything up to its token limit, and only  *)
(* a complete Anthropic answer says how much.                              *)
(***************************************************************************)
EXTENDS Integers

CONSTANTS
    MbCalls,                        \* the CLI's calls
    NoCall,                         \* requestMu is free
    modelBrokerRequestLimit,        \* upstream calls of a job (24 in the code)
    modelBrokerOutputTokens,        \* output tokens of a call (8192)
    modelBrokerTotalOutputTokens,   \* output tokens of a job (65536)
    modelBrokerTotalRequestBytes,   \* request bytes of a job (1 MiB), a call has one or two
    modelUpstreamRetries            \* retries of a call (2)

ASSUME BrokerAssumption ==
    /\ {modelBrokerRequestLimit, modelBrokerOutputTokens, modelBrokerTotalOutputTokens,
        modelBrokerTotalRequestBytes, modelUpstreamRetries} \subseteq Nat
    /\ NoCall \notin MbCalls

VARIABLES
    mbWire,     \* "responses" or "anthropic"
    mbCall,     \* each call: stage, reserved tokens, bytes, retries made
    mbMutex,    \* the call that holds requestMu
    mbReserved, \* the counters: requests, tokens, bytes
    mbBlocked,  \* the latch
    mbSent,     \* calls that reached the model's provider
    mbSpent     \* output tokens the provider generated

mbVars == <<mbWire, mbCall, mbMutex, mbReserved, mbBlocked, mbSent, mbSpent>>

MbInit ==
    /\ mbWire \in {"responses", "anthropic"}
    /\ mbCall = [c \in MbCalls |-> [stage |-> "new", tokens |-> 0, bytes |-> 0, retry |-> 0]]
    /\ mbMutex = NoCall /\ mbReserved = [requests |-> 0, tokens |-> 0, bytes |-> 0]
    /\ mbBlocked = FALSE /\ mbSent = 0 /\ mbSpent = 0

Within(r) ==
    /\ r.requests <= modelBrokerRequestLimit
    /\ r.tokens <= modelBrokerTotalOutputTokens /\ r.bytes <= modelBrokerTotalRequestBytes

\* The counters are added to one after the other, up to the first that overruns
\* its ceiling; what was added stays.
Reserve(r, tokens, bytes) ==
    LET called == [r EXCEPT !.requests = @ + 1]
        spent == [called EXCEPT !.tokens = @ + tokens] IN
    IF ~Within(called) THEN called ELSE IF ~Within(spent) THEN spent ELSE [spent EXCEPT !.bytes = @ + bytes]

\* A mutated form: calls are not serialized.
Unserialized == TRUE
requestMuFree == mbMutex = NoCall

Ends(c) == mbCall' = [mbCall EXCEPT ![c].stage = "done"] /\ mbMutex' = NoCall

-----------------------------------------------------------------------------
(* A call.                                                                 *)

\* A call that arrives after the latch is refused without a reservation.
Refuse(c) ==
    /\ mbCall[c].stage = "new" /\ requestMuFree /\ mbBlocked
    /\ mbCall' = [mbCall EXCEPT ![c].stage = "done"]
    /\ UNCHANGED <<mbWire, mbMutex, mbReserved, mbBlocked, mbSent, mbSpent>>

\* A body the broker does not accept has used a call of the budget.
RejectBody(c) ==
    LET called == [mbReserved EXCEPT !.requests = @ + 1] IN
    /\ mbCall[c].stage = "new" /\ requestMuFree /\ ~mbBlocked
    /\ mbReserved' = called /\ mbBlocked' = ~Within(called)
    /\ mbCall' = [mbCall EXCEPT ![c].stage = "done"]
    /\ UNCHANGED <<mbWire, mbMutex, mbSent, mbSpent>>

\* The call's whole token limit is reserved before it is sent.
handle(c, tokens, bytes) ==
    LET r == Reserve(mbReserved, tokens, bytes) IN
    /\ mbCall[c].stage = "new" /\ requestMuFree /\ ~mbBlocked
    /\ mbReserved' = r /\ mbBlocked' = ~Within(r)
    /\ IF Within(r)
       THEN /\ mbCall' = [mbCall EXCEPT ![c] = [stage |-> "sent", tokens |-> tokens, bytes |-> bytes, retry |-> 0]]
            /\ mbMutex' = c /\ mbSent' = mbSent + 1
       ELSE mbCall' = [mbCall EXCEPT ![c].stage = "done"] /\ UNCHANGED <<mbMutex, mbSent>>
    /\ UNCHANGED <<mbWire, mbSpent>>

\* The connection fails, or the CLI has gone: the provider may have generated.
TransportFails(c) ==
    /\ mbCall[c].stage \in {"sent", "streaming"}
    /\ mbBlocked' = TRUE /\ Ends(c)
    /\ \E used \in 0 .. mbCall[c].tokens : mbSpent' = mbSpent + used
    /\ UNCHANGED <<mbWire, mbReserved, mbSent>>

\* A redirect or a client error: latched, nothing generated.
TerminalAnswer(c) ==
    /\ mbCall[c].stage = "sent" /\ mbBlocked' = TRUE /\ Ends(c)
    /\ UNCHANGED <<mbWire, mbReserved, mbSent, mbSpent>>

\* A mutated form: a retry is covered by the call's first reservation.
RetryFreely(c) ==
    /\ mbCall[c].stage = "sent"
    /\ IF mbCall[c].retry < modelUpstreamRetries
       THEN mbCall' = [mbCall EXCEPT ![c].stage = "backoff", ![c].retry = @ + 1] /\ UNCHANGED <<mbBlocked, mbMutex>>
       ELSE mbBlocked' = TRUE /\ Ends(c)
    /\ UNCHANGED <<mbWire, mbReserved, mbSent, mbSpent>>

\* A definite failure of the provider is retried under a reservation of its
\* own, or latched when retries or budget are used up.
sendModelRequest(c) ==
    LET call == mbCall[c]
        r == Reserve(mbReserved, call.tokens, call.bytes) IN
    /\ call.stage = "sent"
    /\ IF call.retry < modelUpstreamRetries
       THEN mbReserved' = r /\ mbBlocked' = ~Within(r) ELSE mbBlocked' = TRUE /\ UNCHANGED mbReserved
    /\ IF mbBlocked' THEN Ends(c)
       ELSE mbCall' = [mbCall EXCEPT ![c].stage = "backoff", ![c].retry = @ + 1] /\ UNCHANGED mbMutex
    /\ UNCHANGED <<mbWire, mbSent, mbSpent>>

\* The delay ends, or the CLI leaves during it.
waitModelRetry(c) ==
    /\ mbCall[c].stage = "backoff"
    /\ \/ /\ mbCall' = [mbCall EXCEPT ![c].stage = "sent"] /\ mbSent' = mbSent + 1
          /\ UNCHANGED <<mbMutex, mbBlocked>>
       \/ Ends(c) /\ UNCHANGED <<mbSent, mbBlocked>>
    /\ UNCHANGED <<mbWire, mbReserved, mbSpent>>

StreamStarts(c) ==
    /\ mbCall[c].stage = "sent" /\ mbCall' = [mbCall EXCEPT ![c].stage = "streaming"]
    /\ UNCHANGED <<mbWire, mbMutex, mbReserved, mbBlocked, mbSent, mbSpent>>

\* Only a complete Anthropic answer with a positive usage is refunded.
refund(c, used, complete) ==
    IF mbWire = "anthropic" /\ complete /\ used > 0 THEN mbCall[c].tokens - used ELSE 0

\* The stream ends, or the CLI stops reading it; neither latches.
StreamEnds(c) ==
    /\ mbCall[c].stage = "streaming" /\ Ends(c)
    /\ \E used \in 0 .. mbCall[c].tokens, complete \in BOOLEAN :
          /\ mbSpent' = mbSpent + used
          /\ mbReserved' = [mbReserved EXCEPT !.tokens = @ - refund(c, used, complete)]
    /\ UNCHANGED <<mbWire, mbBlocked, mbSent>>

MbNext ==
    \E c \in MbCalls :
       \/ Refuse(c) \/ RejectBody(c)
       \/ \E tokens \in 1 .. modelBrokerOutputTokens, bytes \in 1 .. 2 : handle(c, tokens, bytes)
       \/ TransportFails(c) \/ TerminalAnswer(c) \/ sendModelRequest(c) \/ waitModelRetry(c)
       \/ StreamStarts(c) \/ StreamEnds(c)

-----------------------------------------------------------------------------
(* Properties.                                                             *)

\* Whatever the CLI retries, abandons or sends at once, the job's calls reach
\* the provider at most modelBrokerRequestLimit times and generate at most
\* modelBrokerTotalOutputTokens, refunds included (model_broker.go:231,
\* anthropic_model_broker.go:178).
SpendWithinCeiling ==
    mbSent <= modelBrokerRequestLimit /\ mbSpent <= modelBrokerTotalOutputTokens

\* Once latched, no call reaches the provider any more, retries of a call in
\* flight included (model_upstream.go:38 "never spend another reservation").
LatchIsFinal == mbBlocked => mbSent' = mbSent /\ mbBlocked'
=============================================================================
