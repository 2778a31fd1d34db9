----------------------------- MODULE Interaction -----------------------------
(***************************************************************************)
(* Commands in the comments of one pull request (ProcessInteraction and    *)
(* what follows it in store/workflow.go, cmd/interaction-responder,        *)
(* cmd/interaction-admitter, store/interaction_response_recovery.go).      *)
(*                                                                         *)
(* A command is answered by a response message; the responder publishes at *)
(* the provider and then releases what waits for the answer: the admission *)
(* of a review, or a run that is held acknowledged.  The admission reads   *)
(* the head of the pull request, creates a run in one transaction and      *)
(* links it to the command in a second one.                                *)
(***************************************************************************)
EXTENDS Integers, Sequences, FiniteSets

CONSTANTS
    Comments,         \* comments with a command
    InHeads,          \* heads the provider can answer with
    MaxCommentRuns,   \* bound: runs of the pull request
    maxManualInteractionResponseRetries

ASSUME InteractionAssumption ==
    MaxCommentRuns \in Nat /\ maxManualInteractionResponseRetries \in Nat

VARIABLES
    inComment,   \* result and linked run of each comment
    inRuns,      \* runs, oldest first
    inReply,     \* response messages: what they release and how far they are
    inAdmission, \* step of the admission message of each comment
    inMade,      \* run that the admission of a comment created
    inReacted,   \* comments with a reaction at the provider
    inBroken     \* history: admissions that failed after their run was created

inVars == <<inComment, inRuns, inReply, inAdmission, inMade, inReacted, inBroken>>

InNone == "none"
InTerminal == {"ended"}
InCurrent == Len(inRuns)
InActive == InCurrent > 0 /\ inRuns[InCurrent].state \notin InTerminal

InInit ==
    /\ inComment = [c \in Comments |-> [result |-> InNone, run |-> 0]]
    /\ inRuns = <<>> /\ inReply = {}
    /\ inAdmission = [c \in Comments |-> InNone]
    /\ inMade = [c \in Comments |-> 0]
    /\ inReacted = {} /\ inBroken = {}

\* queueInteractionResponse: the message releases a run, an admission or
\* nothing, and its key makes it unique.
InNothing == 0
InAdmit == -1
InReply(c, key, release) ==
    [comment |-> c, key |-> key, retry |-> 0, release |-> release, step |-> "queued"]
InQueued(m) == IF \E n \in inReply : n.comment = m.comment /\ n.key = m.key
               THEN inReply ELSE inReply \cup {m}

acceptInteraction(c, run, release) ==
    /\ inComment' = [inComment EXCEPT ![c] = [result |-> "accepted", run |-> run]]
    /\ inReply' = InQueued(InReply(c, "response", release))
rejectInteraction(c) ==
    /\ inComment' = [inComment EXCEPT ![c].result = "rejected"]
    /\ inReply' = InQueued(InReply(c, "response", InNothing))

\* ProcessInteraction.  A redelivered comment changes nothing.
InFresh(c) == inComment[c].result = InNone

\* The role, the policy, the setup or an argument does not allow the command;
\* help, status and explain are only answered.
RefuseCommand(c) ==
    /\ InFresh(c) /\ rejectInteraction(c)
    /\ UNCHANGED <<inRuns, inAdmission, inMade, inReacted, inBroken>>
AnswerCommand(c) ==
    /\ InFresh(c) /\ acceptInteraction(c, InCurrent, InNothing)
    /\ UNCHANGED <<inRuns, inAdmission, inMade, inReacted, inBroken>>

\* deferProviderInteractionAdmission, unless a run is active: then the command
\* is accepted and shows that run.
ReviewCommand(c) ==
    /\ InFresh(c)
    /\ IF InActive THEN acceptInteraction(c, InCurrent, InNothing)
                   ELSE acceptInteraction(c, 0, InAdmit)
    /\ UNCHANGED <<inRuns, inAdmission, inMade, inReacted, inBroken>>

CancelCommand(c) ==
    /\ InFresh(c)
    /\ IF InActive
       THEN /\ inRuns' = [inRuns EXCEPT ![InCurrent].state = "ended"]
            /\ acceptInteraction(c, InCurrent, InNothing)
       ELSE rejectInteraction(c) /\ UNCHANGED inRuns
    /\ UNCHANGED <<inAdmission, inMade, inReacted, inBroken>>

\* createCommentRun: a run of the old head, held until the reaction is there.
\* An active run fails the insert and the whole command.
RetryCommand(c) ==
    /\ InFresh(c)
    /\ IF InCurrent = 0 \/ InActive
       THEN rejectInteraction(c) /\ UNCHANGED inRuns
       ELSE /\ InCurrent < MaxCommentRuns
            /\ \E state \in {"acknowledged", "ended"} :
                  /\ inRuns' = Append(inRuns, [inRuns[InCurrent] EXCEPT !.state = state,
                                                                        !.released = FALSE])
                  /\ acceptInteraction(c, InCurrent + 1,
                         IF state = "acknowledged" THEN InCurrent + 1 ELSE InNothing)
    /\ UNCHANGED <<inAdmission, inMade, inReacted, inBroken>>

-----------------------------------------------------------------------------
\* publishAndReleaseInteraction: the provider call, then the release.
InStep(m, step) == inReply' = (inReply \ {m}) \cup {[m EXCEPT !.step = step]}

PublishInteractionResponse(m) ==
    /\ m.step = "queued" /\ InStep(m, "published")
    /\ inReacted' = inReacted \cup {m.comment}
    /\ UNCHANGED <<inComment, inRuns, inAdmission, inMade, inBroken>>

\* Mutant: the release of a run is lost.
ReleaseAdmissionOnly(m) ==
    /\ m.step = "published" /\ InStep(m, "done")
    /\ inAdmission' = [inAdmission EXCEPT ![m.comment] =
           IF m.release = InAdmit /\ @ = InNone THEN "queued" ELSE @]
    /\ UNCHANGED <<inComment, inRuns, inMade, inReacted, inBroken>>

\* ReleaseInitialInteractionAdmission, ReleaseAcknowledgedRun, or nothing.
ReleaseInteraction(m) ==
    LET c == m.comment IN
    /\ m.step = "published" /\ InStep(m, "done")
    /\ CASE m.release = InAdmit ->
              /\ inAdmission' = [inAdmission EXCEPT ![c] =
                     IF @ = InNone /\ inComment[c] = [result |-> "accepted", run |-> 0]
                     THEN "queued" ELSE @]
              /\ UNCHANGED inRuns
         [] m.release = InNothing -> UNCHANGED <<inAdmission, inRuns>>
         [] OTHER ->
              /\ inRuns' = IF inRuns[m.release].state = "acknowledged"
                           THEN [inRuns EXCEPT ![m.release].released = TRUE] ELSE inRuns
              /\ UNCHANGED inAdmission
    /\ UNCHANGED <<inComment, inMade, inReacted, inBroken>>

\* The responder dies or fails and the message comes again; after its last
\* delivery it stays in the dead letter queue.
ResponderFails(m, exhausted) ==
    /\ m.step \in {"queued", "published"} /\ (exhausted \/ m.step = "published")
    /\ InStep(m, IF exhausted THEN "dead" ELSE "queued")
    /\ UNCHANGED <<inComment, inRuns, inAdmission, inMade, inReacted, inBroken>>

\* RetryInteractionResponse: an administrator publishes a dead answer again.
\* Every retry has a key of its own.
InRetries(c) == {m \in inReply : m.comment = c /\ m.key = "retry"}
InRecoverable(m) ==
    /\ m.step = "dead" /\ m.release \in DOMAIN inRuns
    /\ inRuns[m.release].state = "acknowledged"
    /\ inComment[m.comment].run = m.release
    /\ ~\E n \in inReply : n.release = m.release /\ n.comment = m.comment /\ n.step # "dead"
    /\ Cardinality(InRetries(m.comment)) < maxManualInteractionResponseRetries
RetryInteractionResponse(m) ==
    /\ InRecoverable(m)
    /\ inReply' = inReply \cup {[InReply(m.comment, "retry", m.release) EXCEPT
                                    !.retry = Cardinality(InRetries(m.comment)) + 1]}
    /\ UNCHANGED <<inComment, inRuns, inAdmission, inMade, inReacted, inBroken>>

-----------------------------------------------------------------------------
\* FailInitialInteractionAdmission.
InFails(c) ==
    IF inComment[c] = [result |-> "accepted", run |-> 0]
    THEN /\ inComment' = [inComment EXCEPT ![c].result = "rejected"]
         /\ inReply' = InQueued(InReply(c, "failed", InNothing))
    ELSE UNCHANGED <<inComment, inReply>>

\* The provider cannot be read, perhaps after a first pass created the run.
FailInitialInteractionAdmission(c) ==
    /\ inAdmission[c] = "queued" /\ InFails(c)
    /\ inAdmission' = [inAdmission EXCEPT ![c] = "done"]
    /\ inBroken' = inBroken \cup {inMade[c]}
    /\ UNCHANGED <<inRuns, inMade, inReacted>>

\* AdmitInitialInteractionReview, first transaction: Enqueue under the delivery
\* of this command.  A run of this head that is active takes the delivery and
\* the command is answered as failed; another head's run is superseded.
AdmitEnqueue(c, h) ==
    /\ inAdmission[c] = "queued"
    /\ IF inMade[c] # 0
       THEN /\ inAdmission' = [inAdmission EXCEPT ![c] = "linking"]
            /\ UNCHANGED <<inComment, inRuns, inReply, inMade>>
       ELSE IF InActive /\ inRuns[InCurrent].head = h
       THEN /\ inAdmission' = [inAdmission EXCEPT ![c] = "done"] /\ InFails(c)
            /\ UNCHANGED <<inRuns, inMade>>
       ELSE /\ InCurrent < MaxCommentRuns
            /\ \E state \in {"acknowledged", "ended"} :
                  inRuns' = Append([r \in DOMAIN inRuns |-> [inRuns[r] EXCEPT !.state = "ended"]],
                                   [head |-> h, state |-> state, released |-> FALSE])
            /\ inMade' = [inMade EXCEPT ![c] = InCurrent + 1]
            /\ inAdmission' = [inAdmission EXCEPT ![c] = "linking"]
            /\ UNCHANGED <<inComment, inReply>>
    /\ UNCHANGED <<inReacted, inBroken>>

\* Second transaction: the link, and an answer that releases the run.
AdmitLink(c) ==
    /\ inAdmission[c] = "linking"
    /\ inAdmission' = [inAdmission EXCEPT ![c] = "done"]
    /\ IF inComment[c].result = "accepted"
       THEN /\ inComment' = [inComment EXCEPT ![c].run = inMade[c]]
            /\ inReply' = InQueued(InReply(c, "admitted",
                   IF inRuns[inMade[c]].state = "acknowledged" THEN inMade[c] ELSE InNothing))
       ELSE UNCHANGED <<inComment, inReply>>
    /\ UNCHANGED <<inRuns, inMade, inReacted, inBroken>>

\* The second transaction fails: the command is answered as failed, the run
\* of the first one stays.
AdmitLinkFails(c) ==
    /\ inAdmission[c] = "linking" /\ InFails(c)
    /\ inAdmission' = [inAdmission EXCEPT ![c] = "done"]
    /\ inBroken' = inBroken \cup {inMade[c]}
    /\ UNCHANGED <<inRuns, inMade, inReacted>>

\* The admitter dies; the message comes again.
AdmitterDies(c) ==
    /\ inAdmission[c] = "linking"
    /\ inAdmission' = [inAdmission EXCEPT ![c] = "queued"]
    /\ UNCHANGED <<inComment, inRuns, inReply, inMade, inReacted, inBroken>>

\* The acknowledger takes a released run; a run ends.
InExecute(r) ==
    /\ inRuns[r].state = "acknowledged" /\ inRuns[r].released
    /\ inRuns' = [inRuns EXCEPT ![r].state = "running"]
    /\ UNCHANGED <<inComment, inReply, inAdmission, inMade, inReacted, inBroken>>
InEnd(r) ==
    /\ inRuns[r].state = "running"
    /\ inRuns' = [inRuns EXCEPT ![r].state = "ended"]
    /\ UNCHANGED <<inComment, inReply, inAdmission, inMade, inReacted, inBroken>>

InNext ==
    \/ \E c \in Comments :
          \/ RefuseCommand(c) \/ AnswerCommand(c) \/ ReviewCommand(c) \/ CancelCommand(c)
          \/ RetryCommand(c)
          \/ FailInitialInteractionAdmission(c) \/ \E h \in InHeads : AdmitEnqueue(c, h)
          \/ AdmitLink(c) \/ AdmitLinkFails(c) \/ AdmitterDies(c)
    \/ \E m \in inReply :
          \/ PublishInteractionResponse(m) \/ ReleaseInteraction(m)
          \/ \E exhausted \in BOOLEAN : ResponderFails(m, exhausted)
          \/ RetryInteractionResponse(m)
    \/ \E r \in DOMAIN inRuns : InExecute(r) \/ InEnd(r)

-----------------------------------------------------------------------------
\* A run that waits for an answer is never forgotten: it is released, or an
\* answer that releases it is on its way, or its admission will queue one, or
\* an administrator can publish the dead answer again, whichever processes
\* died.  Two ways out are the code's own: the manual retries are used up, or
\* the admission failed between its two transactions (workflow.go:1297).
HeldRunHasAWayOut ==
    \A r \in DOMAIN inRuns : (inRuns[r].state = "acknowledged" /\ r \notin inBroken) =>
        \/ inRuns[r].released
        \/ \E m \in inReply : m.release = r /\ m.step \in {"queued", "published"}
        \/ \E c \in Comments : inMade[c] = r /\ inAdmission[c] \in {"queued", "linking"}
        \/ \E m \in inReply : InRecoverable(m) /\ m.release = r
        \/ \E c \in Comments :
              Cardinality(InRetries(c)) = maxManualInteractionResponseRetries

\* A run starts only after its own command has its reaction at the provider.
StartedWasAnswered ==
    \A c \in Comments : LET r == inComment[c].run IN
        (r # 0 /\ inRuns[r].released /\ \E m \in inReply : m.comment = c /\ m.release = r)
        => c \in inReacted
=============================================================================
