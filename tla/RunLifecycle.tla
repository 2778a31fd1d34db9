---------------------------- MODULE RunLifecycle ----------------------------
(***************************************************************************)
(* What the platform promises about one review run: it appears once, moves *)
(* forward through the stages one at a time, may be stopped from any       *)
(* active state, and never changes again once it has ended.  The revision  *)
(* numbers its transitions, so a client can tell a late event from a new   *)
(* one (internal/domain/workflow.go, RunState).                            *)
(***************************************************************************)
EXTENDS RunStates

CONSTANT RunIds

VARIABLES state, revision

lifecycle == <<state, revision>>

Init ==
    /\ state = [r \in RunIds |-> "absent"]
    /\ revision = [r \in RunIds |-> 0]

\* Admission: a run starts acknowledged, or it is rejected by the quota in
\* the transaction that creates it and is never seen as active.
Appear(r, s, v) ==
    /\ state[r] = "absent"
    /\ <<s, v>> \in {<<"acknowledged", 1>>, <<"failed", 2>>}
    /\ state' = [state EXCEPT ![r] = s]
    /\ revision' = [revision EXCEPT ![r] = v]

\* A transition of the table, or a stop requested from outside.
Allowed(s, next) ==
    \/ CanTransitionTo(s, next)
    \/ s \in ActiveStates /\ next \in {"cancelled", "superseded"}

Transition(r, next) ==
    /\ Allowed(state[r], next)
    /\ state' = [state EXCEPT ![r] = next]
    /\ revision' = [revision EXCEPT ![r] = @ + 1]

\* A new head replaces the run of an older one in a single transaction.
Replace(old, new, s, v) ==
    /\ state[new] = "absent"
    /\ state[old] \in ActiveStates
    /\ <<s, v>> \in {<<"acknowledged", 1>>, <<"failed", 2>>}
    /\ state' = [state EXCEPT ![new] = s, ![old] = "superseded"]
    /\ revision' = [revision EXCEPT ![new] = v, ![old] = @ + 1]

Next ==
    \/ \E r \in RunIds, s \in {"acknowledged", "failed"}, v \in {1, 2} :
          Appear(r, s, v)
    \/ \E r \in RunIds, next \in RunStates : Transition(r, next)
    \/ \E old, new \in RunIds, s \in {"acknowledged", "failed"}, v \in {1, 2} :
          Replace(old, new, s, v)

Spec == Init /\ [][Next]_lifecycle
=============================================================================
