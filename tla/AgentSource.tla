----------------------------- MODULE AgentSource -----------------------------
(***************************************************************************)
(* The capture of a task's source: cmd/agent-task-source-admitter with the *)
(* bounded retry chain of store/agent_task_source_decision_retry.go, and   *)
(* the version-fenced status comment that the interaction responder keeps  *)
(* on the provider.                                                        *)
(*                                                                         *)
(* A message of the chain may be delivered again while its first handling  *)
(* still runs (InboxConsumer), so a worker acts on what it read before.    *)
(***************************************************************************)
EXTENDS Integers, FiniteSets, FiniteSetsExt

CONSTANTS
    Admitters,       \* source admitter processes
    MaxReopenings    \* bound: source retries by a person

ASSUME SourceAssumption == MaxReopenings \in Nat

VARIABLES
    srTask,     \* state, revision and source state of the task
    srReopened, \* source retries so far
    srMail,     \* messages of the source chain, until handled
    srAdmitter, \* the message a worker handles
    srStatus,   \* versions of the status comment in the outbox
    srShown     \* version the provider shows, 0 for none

srVars == <<srTask, srReopened, srMail, srAdmitter, srStatus, srShown>>

maxAgentSourceDecisionAttempts == 3
SrNoMessage == [rev |-> 0, attempt |-> 0]
SrInit ==
    /\ srTask = [state |-> "received", rev |-> 1, source |-> "pending"]
    /\ srReopened = 0
    /\ srMail = {[rev |-> 1, attempt |-> 1]}
    /\ srAdmitter = [w \in Admitters |-> SrNoMessage]
    /\ srStatus = {} /\ srShown = 0

SrPending == srTask.state = "received" /\ srTask.source = "pending"
SrMoved(state, source) ==
    /\ srTask' = [state |-> state, rev |-> srTask.rev + 1, source |-> source]
    /\ srStatus' = srStatus \cup {srTask.rev + 1}
SrHandled(w) ==
    /\ srMail' = srMail \ {srAdmitter[w]}
    /\ srAdmitter' = [srAdmitter EXCEPT ![w] = SrNoMessage]

\* LoadAgentTaskSourceTarget and the revision check, then the provider read.
BeginSource(w, m) ==
    /\ srAdmitter[w] = SrNoMessage /\ m \in srMail
    /\ SrPending /\ srTask.rev = m.rev
    /\ srAdmitter' = [srAdmitter EXCEPT ![w] = m]
    /\ UNCHANGED <<srTask, srReopened, srMail, srStatus, srShown>>

\* "An old delayed retry cannot evaluate a task reopened": it is dropped.
DropStaleSource(w, m) ==
    /\ srAdmitter[w] = SrNoMessage /\ m \in srMail
    /\ ~SrPending \/ srTask.rev # m.rev
    /\ srMail' = srMail \ {m}
    /\ UNCHANGED <<srTask, srReopened, srAdmitter, srStatus, srShown>>

\* Mutant: the retry does not hand its message on.
ScheduleNothing(w) ==
    /\ srAdmitter[w].attempt \in 1..2
    /\ SrHandled(w)
    /\ UNCHANGED <<srTask, srReopened, srStatus, srShown>>

\* A transient failure: the successor is in the outbox before the message is
\* acknowledged, and only while the task still waits at that revision.
ScheduleAgentTaskSourceRetry(w) ==
    LET m == srAdmitter[w]
        next == [m EXCEPT !.attempt = @ + 1] IN
    /\ m.attempt \in 1..(maxAgentSourceDecisionAttempts - 1)
    /\ srAdmitter' = [srAdmitter EXCEPT ![w] = SrNoMessage]
    /\ srMail' = (srMail \ {m}) \cup (IF SrPending /\ srTask.rev = m.rev THEN {next} ELSE {})
    /\ UNCHANGED <<srTask, srReopened, srStatus, srShown>>

\* RecordAgentTaskSourceSnapshot, FailAgentTaskSourceSnapshot: the row must
\* wait for a source; its revision is not asked for again.
SourceOutcome(w, source) ==
    /\ srAdmitter[w] # SrNoMessage
    /\ IF SrPending
       THEN SrMoved(IF source = "ready" THEN "received" ELSE "needs_attention", source)
       ELSE UNCHANGED <<srTask, srStatus>>
    /\ SrHandled(w)
    /\ UNCHANGED <<srReopened, srShown>>

\* A person reopens a failed capture; a plan or a cancellation moves on.
SrRetryAgentTaskSource ==
    /\ srTask.state = "needs_attention" /\ srTask.source = "failed"
    /\ srReopened < MaxReopenings
    /\ srReopened' = srReopened + 1
    /\ srTask' = [state |-> "received", rev |-> srTask.rev + 1, source |-> "pending"]
    /\ srMail' = srMail \cup {[rev |-> srTask.rev + 1, attempt |-> 1]}
    /\ UNCHANGED <<srAdmitter, srStatus, srShown>>

SrPlanned ==
    /\ srTask.state = "received" /\ srTask.source = "ready"
    /\ SrMoved("awaiting_approval", "ready")
    /\ UNCHANGED <<srReopened, srMail, srAdmitter, srShown>>

SrCancelled ==
    /\ srTask.state # "cancelled"
    /\ srTask' = [srTask EXCEPT !.state = "cancelled", !.rev = @ + 1]
    /\ UNCHANGED <<srReopened, srMail, srAdmitter, srStatus, srShown>>

\* Mutant: an older status is published when it is the first to arrive.
PublishAnyStatus(version) ==
    /\ version \in srStatus /\ version <= srTask.rev
    /\ srShown' = version
    /\ UNCHANGED <<srTask, srReopened, srMail, srAdmitter, srStatus>>

\* Published under the task's row lock, and only the newest of the task as it
\* is now.  The message may come again.
WithAgentTaskSourcePublicationFence(version) ==
    /\ version \in srStatus /\ version = srTask.rev /\ version = Max(srStatus)
    /\ srShown' = version
    /\ UNCHANGED <<srTask, srReopened, srMail, srAdmitter, srStatus>>

SrNext ==
    \/ \E w \in Admitters :
          \/ \E m \in srMail : BeginSource(w, m) \/ DropStaleSource(w, m)
          \/ ScheduleAgentTaskSourceRetry(w)
          \/ \E source \in {"ready", "failed"} : SourceOutcome(w, source)
    \/ SrRetryAgentTaskSource \/ SrPlanned \/ SrCancelled
    \/ \E version \in srStatus : WithAgentTaskSourcePublicationFence(version)

\* A handler returns: it retries, records or fails.
SourceReturns(w) ==
    \/ ScheduleAgentTaskSourceRetry(w)
    \/ \E source \in {"ready", "failed"} : SourceOutcome(w, source)

-----------------------------------------------------------------------------
\* "An older queued source result can never overwrite a newer plan revision":
\* the comment on the provider never goes back to an older version.
StatusNeverGoesBack == srShown' >= srShown

\* The chain of retries is not lost: a task that waits for its source stops
\* waiting, whatever was redelivered, retried or reopened in between.
SourceSettles == SrPending ~> ~SrPending
=============================================================================
