---------------------------- MODULE ReviewIssues ----------------------------
(***************************************************************************)
(* One issue, the aggregate of the findings with one fingerprint in        *)
(* several pull requests (store/issues.go), the exception that suppresses  *)
(* it (store/rule_exceptions.go) and the ticket that mirrors it at the     *)
(* provider (store/issue_automation.go, internal/issuepublisher).          *)
(*                                                                         *)
(* syncIssueOccurrences is one transaction of the review that just ended.  *)
(* A review that finds the fingerprint again locks the issue row; one that *)
(* does not only updates it, with counts that its statement read before it *)
(* waited for the row.  That transaction therefore has its own steps here. *)
(***************************************************************************)
EXTENDS Integers, FiniteSets

CONSTANTS
    PullRequests,   \* pull requests with findings of this fingerprint
    MaxSyncs,       \* bound: reviews that end
    MaxIssueActs    \* bound: actions of people on issue, exception and policy

ASSUME IssueAssumption == MaxSyncs \in Nat /\ MaxIssueActs \in Nat /\ "nobody" \notin PullRequests

VARIABLES
    isIssue,     \* the row: status, disposition, count of active occurrences
    isFound,     \* pull requests whose newest review has the finding (committed)
    isSync,      \* transaction of each pull request
    isLock,      \* who holds the issue row
    isException, \* the exception, and whether its issue revision is current
    isReceipt,   \* state of the external issue receipt
    isTicket,    \* the ticket at the provider
    isMail,      \* create and close messages not acknowledged yet
    isPublisher, \* message whose provider call was made and not recorded yet
    isPolicy,    \* automatic publication is allowed
    isCount,     \* reviews and acts so far
    isExcuse     \* history: a person resolved it, or two transactions overlapped

isVars == <<isIssue, isFound, isSync, isLock, isException, isReceipt, isTicket, isMail,
            isPublisher, isPolicy, isCount, isExcuse>>
isOutside == <<isReceipt, isTicket, isMail, isPublisher, isPolicy>>

IsNobody == "nobody"
IsNoSync == [pc |-> "idle", found |-> FALSE, prior |-> "none", status |-> "none", seen |-> 0]

IsInit ==
    /\ isIssue = [status |-> "none", disposition |-> "", active |-> 0]
    /\ isFound = {} /\ isLock = IsNobody
    /\ isSync = [p \in PullRequests |-> IsNoSync]
    /\ isException = [state |-> "none", current |-> FALSE, expired |-> FALSE]
    /\ isReceipt = "none" /\ isTicket = "none" /\ isMail = {} /\ isPublisher = "none"
    /\ isPolicy = TRUE /\ isCount = [syncs |-> 0, acts |-> 0]
    /\ isExcuse = [person |-> FALSE, overlap |-> FALSE]

IsRevised == [isException EXCEPT !.current = FALSE]
IsSyncs(p, changed) == isSync' = [isSync EXCEPT ![p] = changed]

-----------------------------------------------------------------------------
(* syncIssueOccurrences.                                                   *)

\* The occurrences of this pull request are deactivated, the status of the
\* issue they had is read without a lock.
BeginSync(p, found) ==
    /\ isSync[p].pc = "idle" /\ (found \/ p \in isFound)
    /\ isCount.syncs < MaxSyncs
    /\ isCount' = [isCount EXCEPT !.syncs = @ + 1]
    /\ IsSyncs(p, [IsNoSync EXCEPT !.pc = IF found THEN "upsert" ELSE "count", !.found = found,
                                   !.prior = IF p \in isFound THEN isIssue.status ELSE "none"])
    /\ UNCHANGED <<isIssue, isFound, isLock, isException, isOutside, isExcuse>>

\* The finding is there: lock the row, or insert it.
UpsertIssue(p) ==
    /\ isSync[p].pc = "upsert" /\ isLock = IsNobody
    /\ isLock' = p
    /\ IsSyncs(p, [isSync[p] EXCEPT
           !.pc = "count",
           !.prior = IF @ = "none" THEN isIssue.status ELSE @,
           !.status = CASE isIssue.status = "none" -> "open"
                        [] isIssue.status = "resolved" -> "regressed"
                        [] OTHER -> isIssue.status])
    /\ UNCHANGED <<isIssue, isFound, isException, isOutside, isCount, isExcuse>>

\* The aggregate of the last statement, read before its row is locked.
IsActiveCount(p) == Cardinality(isFound \ {p}) + (IF isSync[p].found THEN 1 ELSE 0)
CountOccurrences(p) ==
    /\ isSync[p].pc = "count"
    /\ IsSyncs(p, [isSync[p] EXCEPT !.pc = "refresh", !.seen = IsActiveCount(p)])
    /\ UNCHANGED <<isIssue, isFound, isLock, isException, isOutside, isCount, isExcuse>>

\* Mutant: an exception does not keep a suppressed issue suppressed.
RefreshedAnyway(status, seen) == IF seen = 0 THEN "resolved" ELSE status
IsRefreshed(status, seen) ==
    IF status # "suppressed" /\ seen = 0 THEN "resolved" ELSE status

\* queueExternalIssueResolution
IsCloses(prior, status) ==
    /\ prior \notin {"none", "resolved"} /\ status = "resolved"
    /\ isReceipt \notin {"none", "cancelled", "closed"}
\* queueExternalIssuePublication: first seen, or regressed
IsPublishes(prior, status) ==
    /\ isPolicy /\ status \in {"open", "regressed"} /\ isReceipt = "none"
    /\ prior = "none" \/ (prior = "resolved" /\ status = "regressed")

RefreshIssue(p) ==
    LET s == isSync[p]
        before == IF s.found THEN s.status ELSE isIssue.status
        status == IsRefreshed(before, s.seen) IN
    /\ s.pc = "refresh" /\ isLock \in {IsNobody, p}
    /\ isIssue' = [isIssue EXCEPT !.status = status, !.active = s.seen]
    /\ isException' = IF status # isIssue.status THEN IsRevised ELSE isException
    /\ isFound' = IF s.found THEN isFound \cup {p} ELSE isFound \ {p}
    /\ isReceipt' = IF IsPublishes(s.prior, status) THEN "queued" ELSE isReceipt
    /\ isMail' = isMail \cup (IF IsCloses(s.prior, status) THEN {"close"} ELSE {})
                        \cup (IF IsPublishes(s.prior, status) THEN {"create"} ELSE {})
    /\ isLock' = IsNobody /\ IsSyncs(p, IsNoSync)
    /\ isExcuse' = [isExcuse EXCEPT !.overlap = @ \/ \E q \in PullRequests \ {p} :
                                                       isSync[q].pc = "refresh"]
    /\ UNCHANGED <<isTicket, isPublisher, isPolicy, isCount>>

-----------------------------------------------------------------------------
(* People: MutateIssue, exceptions, the policy.                            *)

IsActs == isCount.acts < MaxIssueActs /\ isCount' = [isCount EXCEPT !.acts = @ + 1]
IsFree == isIssue.status # "none" /\ isLock = IsNobody
IsExcepted == isIssue.status = "suppressed" /\ isIssue.disposition = "exception"
IsCleared == IF isIssue.active > 0 THEN "open" ELSE "resolved"

MutateIssue(action) ==
    /\ IsFree /\ IsActs /\ ~IsExcepted
    /\ CASE action = "resolve" ->
              /\ isIssue.status # "resolved"
              /\ isIssue' = [isIssue EXCEPT !.status = "resolved", !.disposition = "resolved"]
         [] action = "reopen" ->
              /\ isIssue.status # "open"
              /\ isIssue' = [isIssue EXCEPT !.status = "open", !.disposition = ""]
         [] action = "false_positive" ->
              /\ isIssue.status # "suppressed"
              /\ isIssue' = [isIssue EXCEPT !.status = "suppressed",
                                            !.disposition = "false_positive"]
         [] action = "suppression_cleared" ->
              /\ isIssue.status = "suppressed"
              /\ isIssue' = [isIssue EXCEPT !.status = IsCleared, !.disposition = ""]
    /\ isException' = IsRevised
    /\ isExcuse' = [isExcuse EXCEPT !.person = @ \/ action = "resolve"]
    /\ UNCHANGED <<isFound, isSync, isLock, isOutside>>

CreateRuleException ==
    /\ IsFree /\ IsActs /\ isIssue.status \in {"open", "regressed"}
    /\ isException.state \in {"none", "rejected", "revoked"}
    /\ isException' = [state |-> "pending", current |-> TRUE, expired |-> FALSE]
    /\ UNCHANGED <<isIssue, isFound, isSync, isLock, isOutside, isExcuse>>

\* Approval suppresses the issue at the revision the request saw, or conflicts.
DecideRuleException(decision) ==
    /\ isException.state = "pending" /\ ~isException.expired
    /\ IF decision = "approved"
       THEN /\ IsFree /\ isException.current /\ isIssue.status \in {"open", "regressed"}
            /\ isIssue' = [isIssue EXCEPT !.status = "suppressed", !.disposition = "exception"]
            /\ isException' = [isException EXCEPT !.state = "approved", !.current = FALSE]
       ELSE /\ isException' = [isException EXCEPT !.state = "rejected"]
            /\ UNCHANGED isIssue
    /\ UNCHANGED <<isFound, isSync, isLock, isOutside, isCount, isExcuse>>

\* clearIssueExceptionSuppression, after a revocation or an expiry.
clearIssueExceptionSuppression ==
    IF IsExcepted
    THEN /\ isLock = IsNobody
         /\ isIssue' = [isIssue EXCEPT !.status = IsCleared, !.disposition = ""]
    ELSE UNCHANGED isIssue
RevokeRuleException ==
    /\ isException.state = "approved" /\ clearIssueExceptionSuppression
    /\ isException' = [isException EXCEPT !.state = "revoked", !.current = FALSE]
    /\ UNCHANGED <<isFound, isSync, isLock, isOutside, isCount, isExcuse>>
ExceptionExpires ==
    /\ isException.state \in {"pending", "approved"} /\ ~isException.expired
    /\ isException' = [isException EXCEPT !.expired = TRUE]
    /\ UNCHANGED <<isIssue, isFound, isSync, isLock, isOutside, isCount, isExcuse>>
reconcileExpiredIssueExceptions ==
    /\ isException.state = "approved" /\ isException.expired /\ IsExcepted
    /\ clearIssueExceptionSuppression
    /\ UNCHANGED <<isFound, isSync, isLock, isException, isOutside, isCount, isExcuse>>

SaveIssueAutoCreatePolicy ==
    /\ IsActs /\ isPolicy' = ~isPolicy
    /\ isReceipt' = IF isPolicy /\ isReceipt \in {"queued", "failed"} THEN "cancelled" ELSE isReceipt
    /\ UNCHANGED <<isIssue, isFound, isSync, isLock, isException, isTicket, isMail, isPublisher,
                   isExcuse>>

-----------------------------------------------------------------------------
(* The issue publisher.                                                    *)

isInside == <<isIssue, isFound, isSync, isLock, isException, isPolicy, isCount, isExcuse>>
IsDone(topic) == isMail' = isMail \ {topic}

\* Nothing is to be done, or nothing is allowed any more.
DropPublication(topic) ==
    /\ topic \in isMail /\ isPublisher = "none" /\ IsDone(topic)
    /\ \/ /\ ~isPolicy \/ isReceipt = "cancelled"
          /\ isReceipt' = IF isReceipt \in {"queued", "failed"} THEN "cancelled" ELSE isReceipt
       \/ /\ isPolicy /\ (isReceipt = "closed" \/ (topic = "create" /\ isReceipt = "created"))
          /\ UNCHANGED isReceipt
    /\ UNCHANGED <<isTicket, isPublisher, isInside>>

\* The provider call: a ticket with the marker is found or created; a close
\* waits until the receipt knows the ticket.
CallProvider(topic) ==
    /\ topic \in isMail /\ isPublisher = "none" /\ isPolicy
    /\ isReceipt \in (IF topic = "create" THEN {"queued", "failed"} ELSE {"created"})
    /\ isPublisher' = topic
    /\ isTicket' = IF topic = "close" THEN "closed" ELSE IF isTicket = "none" THEN "open" ELSE isTicket
    /\ UNCHANGED <<isReceipt, isMail, isInside>>
MarkPublication ==
    /\ isPublisher # "none" /\ isPublisher' = "none" /\ IsDone(isPublisher)
    /\ isReceipt' = CASE isPublisher = "create" /\ isReceipt \in {"queued", "failed"} -> "created"
                      [] isPublisher = "close" /\ isReceipt = "created" -> "closed"
                      [] OTHER -> isReceipt
    /\ UNCHANGED <<isTicket, isInside>>
\* The call or the process fails; the message comes again, or is dead-lettered.
PublicationFails(topic, exhausted) ==
    /\ topic \in isMail /\ isPublisher \in {"none", topic} /\ isPublisher' = "none"
    /\ isMail' = IF exhausted THEN isMail \ {topic} ELSE isMail
    /\ isReceipt' = IF topic = "create" /\ isReceipt = "queued" THEN "failed" ELSE isReceipt
    /\ UNCHANGED <<isTicket, isInside>>

IsNext ==
    \/ \E p \in PullRequests :
          \/ \E found \in BOOLEAN : BeginSync(p, found)
          \/ UpsertIssue(p) \/ CountOccurrences(p) \/ RefreshIssue(p)
    \/ \E action \in {"resolve", "reopen", "false_positive", "suppression_cleared"} :
          MutateIssue(action)
    \/ CreateRuleException \/ RevokeRuleException \/ ExceptionExpires
    \/ reconcileExpiredIssueExceptions \/ SaveIssueAutoCreatePolicy
    \/ \E decision \in {"approved", "rejected"} : DecideRuleException(decision)
    \/ \E topic \in {"create", "close"} :
          \/ DropPublication(topic) \/ CallProvider(topic)
          \/ \E exhausted \in BOOLEAN : PublicationFails(topic, exhausted)
    \/ MarkPublication

-----------------------------------------------------------------------------
\* The issue tells the truth between two transactions: an approved exception
\* that was not cleared is what suppresses it, and it is resolved while a pull
\* request still has the finding only where a person resolved it, or where a
\* review that lost the finding counted before another one committed
\* (issues.go:570, the counts are read before the row is locked).
IssueTellsTheTruth ==
    /\ IsExcepted => isException.state = "approved"
    /\ isIssue.disposition = "exception" => isIssue.status = "suppressed"
    /\ (isIssue.status = "resolved" /\ isFound # {}) => (isExcuse.person \/ isExcuse.overlap)
=============================================================================
