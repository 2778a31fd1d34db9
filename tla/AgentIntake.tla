----------------------------- MODULE AgentIntake -----------------------------
(***************************************************************************)
(* How agent tasks of one Issue come to be (internal/store/agent_tasks.go):*)
(* comments, label webhooks, the API and the Issue page all ask for work   *)
(* on the Issue, whose text and labels change in between.  Webhooks arrive *)
(* late, repeatedly and in any order.  Every request is one transaction    *)
(* behind the policy row of the repository, so each is one step.           *)
(*                                                                         *)
(* An explicit request freezes the text of the Issue, an automatic one the *)
(* text and the labels: the two kinds of origin_revision.                  *)
(***************************************************************************)
EXTENDS Integers, Sequences, FiniteSets

CONSTANTS
    Texts,         \* revisions of the Issue's title and body
    MaxDeliveries, \* bound: webhook deliveries
    MaxTasks       \* bound: tasks

ASSUME IntakeAssumption == MaxDeliveries \in Nat /\ MaxTasks \in Nat /\ Texts # {}

VARIABLES
    aiEvents,   \* webhook deliveries sent so far, by delivery id
    aiAccepted, \* agent_task_interactions: the task of each handled delivery
    aiRetained, \* the snapshots triage holds: at most one
    aiPolicy,   \* the repository's policy: off, manual, or automatic with it
    aiTasks     \* agent_tasks

aiVars == <<aiEvents, aiAccepted, aiRetained, aiPolicy, aiTasks>>

\* A snapshot of the Issue; opted: it carries the automatic-admission label.
AiSnapshots == [text : Texts, opted : BOOLEAN]
AiCommands == {"implement", "cancel", "status", "approve", "automatic"}
AiTaskIds == DOMAIN aiTasks
AiRejected == 0
AiPolicies == {"off", "manual", "automatic"}

AiInit ==
    /\ aiEvents = <<>> /\ aiAccepted = [d \in {} |-> AiRejected] /\ aiRetained = {}
    /\ aiPolicy \in AiPolicies
    /\ aiTasks = <<>>

\* The origin revision of a task, and the two a snapshot can match.
Plain(snapshot) == <<"text", snapshot.text>>
Automatic(snapshot) == <<"text and labels", snapshot.text, snapshot.opted>>
agentIssueCommandRevisions(snapshot) == {Plain(snapshot), Automatic(snapshot)}
AiMatches(revisions) == {t \in AiTaskIds : aiTasks[t].revision \in revisions}

\* Mutant: the newest of several matching tasks is taken.
findNewestIssueAgentTask(snapshot, t) ==
    LET found == AiMatches(agentIssueCommandRevisions(snapshot)) IN
    t \in found /\ \A u \in found : u <= t

\* Exactly one task matches the snapshot: with two, none is chosen.
findIssueAgentTask(snapshot, t) == AiMatches(agentIssueCommandRevisions(snapshot)) = {t}
AiUnknown(snapshot) == AiMatches(agentIssueCommandRevisions(snapshot)) = {}

AiNewTask(revision, state) ==
    /\ Len(aiTasks) < MaxTasks
    /\ aiTasks' = Append(aiTasks, [revision |-> revision, state |-> state])
AiFresh(d) == d \in DOMAIN aiEvents /\ d \notin DOMAIN aiAccepted
AiRecord(d, t) == aiAccepted' = [e \in DOMAIN aiAccepted \cup {d} |->
                                    IF e = d THEN t ELSE aiAccepted[e]]

-----------------------------------------------------------------------------
\* A comment or an Issue event is sent with the snapshot of its time: the
\* Issue may be edited and relabelled at any time in between.
AiSend(command, snapshot) ==
    /\ Len(aiEvents) < MaxDeliveries
    /\ aiEvents' = Append(aiEvents, [command |-> command, at |-> snapshot])
    /\ UNCHANGED <<aiAccepted, aiRetained, aiPolicy, aiTasks>>

\* Triage keeps the snapshot of an Issue event it handles.
AiTriage(d) ==
    /\ d \in DOMAIN aiEvents /\ aiEvents[d].command = "automatic"
    /\ aiRetained' = {aiEvents[d].at}
    /\ UNCHANGED <<aiEvents, aiAccepted, aiPolicy, aiTasks>>

SaveAgentTaskPolicy ==
    /\ aiPolicy' \in AiPolicies
    /\ UNCHANGED <<aiEvents, aiAccepted, aiRetained, aiTasks>>

-----------------------------------------------------------------------------
(* ProcessAgentTaskCommand.                                                *)

\* An unusable command, an actor without the role, or nothing to act upon.
CommandRejected(d) ==
    /\ AiFresh(d) /\ aiEvents[d].command # "automatic"
    /\ AiRecord(d, AiRejected)
    /\ UNCHANGED <<aiEvents, aiRetained, aiPolicy, aiTasks>>

ImplementCommand(d) ==
    LET snapshot == aiEvents[d].at IN
    /\ AiFresh(d) /\ aiEvents[d].command = "implement" /\ aiPolicy # "off"
    /\ \/ /\ AiUnknown(snapshot)
          /\ \E state \in {"received", "rejected"} : AiNewTask(Plain(snapshot), state)
          /\ AiRecord(d, Len(aiTasks) + 1)
       \/ \E t \in AiTaskIds : /\ findIssueAgentTask(snapshot, t) /\ AiRecord(d, t)
                               /\ UNCHANGED aiTasks
    /\ UNCHANGED <<aiEvents, aiRetained, aiPolicy>>

\* The plan of the one matching task is approved, or the task cancelled.
TaskCommand(d, t) ==
    /\ AiFresh(d) /\ aiEvents[d].command \in {"cancel", "status", "approve"}
    /\ findIssueAgentTask(aiEvents[d].at, t)
    /\ CASE aiEvents[d].command = "cancel" ->
              /\ aiTasks[t].state \in {"received", "approved"}
              /\ aiTasks' = [aiTasks EXCEPT ![t].state = "cancelled"]
         [] aiEvents[d].command = "approve" ->
              /\ aiTasks[t].state = "received"
              /\ aiTasks' = [aiTasks EXCEPT ![t].state = "approved"]
         [] OTHER -> UNCHANGED aiTasks
    /\ AiRecord(d, t)
    /\ UNCHANGED <<aiEvents, aiRetained, aiPolicy>>

\* A label webhook makes a candidate; two matching tasks fail it, and it is
\* not recorded.
ProcessAutomaticAgentTask(d) ==
    LET snapshot == aiEvents[d].at IN
    /\ AiFresh(d) /\ aiEvents[d].command = "automatic"
    /\ aiPolicy = "automatic" /\ snapshot.opted
    /\ \/ /\ AiUnknown(snapshot)
          /\ \E state \in {"received", "rejected"} : AiNewTask(Automatic(snapshot), state)
          /\ AiRecord(d, Len(aiTasks) + 1)
       \/ \E t \in AiTaskIds : /\ findIssueAgentTask(snapshot, t) /\ AiRecord(d, t)
                               /\ UNCHANGED aiTasks
    /\ UNCHANGED <<aiEvents, aiRetained, aiPolicy>>

\* The API knows the text only.  Labels come from what triage retained of that
\* text; without them any automatic task of the Issue refuses the request.
createAgentTask(text) ==
    LET known == {s \in aiRetained : s.text = text} IN
    /\ aiPolicy # "off"
    /\ IF known = {} THEN \A t \in AiTaskIds : aiTasks[t].revision[1] # "text and labels"
       ELSE \A s \in known : AiMatches({Automatic(s)}) = {}
    /\ AiMatches({<<"text", text>>}) = {}
    /\ AiNewTask(<<"text", text>>, "received")
    /\ UNCHANGED <<aiEvents, aiAccepted, aiRetained, aiPolicy>>

\* The Issue page asks for the text that triage retained.
CreateAgentTaskFromProviderIssue == \E s \in aiRetained : createAgentTask(s.text)

AiNext ==
    \/ SaveAgentTaskPolicy
    \/ \E c \in AiCommands, s \in AiSnapshots : AiSend(c, s)
    \/ \E d \in DOMAIN aiEvents : \/ AiTriage(d) \/ CommandRejected(d) \/ ImplementCommand(d)
                                  \/ ProcessAutomaticAgentTask(d)
                                  \/ \E t \in AiTaskIds : TaskCommand(d, t)
    \/ \E text \in Texts : createAgentTask(text)
    \/ CreateAgentTaskFromProviderIssue

-----------------------------------------------------------------------------
\* "Both identify the same work when the current Issue snapshot matches.
\* Never choose one arbitrarily": however late, relabelled or repeated the
\* requests are, two that were accepted for the same snapshot of the Issue act
\* on the same task.
SameSnapshotSameTask ==
    \A d, e \in DOMAIN aiAccepted :
        (aiEvents[d].at = aiEvents[e].at /\ AiRejected \notin {aiAccepted[d], aiAccepted[e]})
            => aiAccepted[d] = aiAccepted[e]
=============================================================================
