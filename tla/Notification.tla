----------------------------- MODULE Notification -----------------------------
(***************************************************************************)
(* Notices to chat and webhook destinations: destinations, routes, tests   *)
(* and retries (store/notifications.go), and the consumer that sends them  *)
(* (notification/service.go, sender.go).                                   *)
(*                                                                         *)
(* The ends of one review run make terminal events.  Glob, severity and    *)
(* event-type matching of a route and its enabled column come to one flag, *)
(* selects: whether the route would send this run's end.  The requests     *)
(* fenced by a revision change nothing where it is stale, so only accepted *)
(* ones are steps.  The broker and the inbox (InboxConsumer) hand an event *)
(* to a handler again after an error, a crash or a lapsed lease.           *)
(***************************************************************************)
EXTENDS Integers, Sequences, FiniteSets

CONSTANTS
    NtDests,        \* destinations
    NtHandlers,     \* handlers of events
    MaxNotices,     \* bound: events
    MaxNtEdits,     \* bound: configuration changes
    MaxHandlings    \* bound: handlings of one event, its delivery limit

ASSUME NotificationAssumption ==
    /\ NtDests # {} /\ MaxNotices \in Nat \ {0} /\ MaxNtEdits \in Nat
    /\ MaxHandlings \in Nat \ {0}

VARIABLES
    ntDest,     \* destinations: none, enabled or paused; revision
    ntRoutes,   \* routes in the order of their priority
    ntEvent,    \* outbox events
    ntRow,      \* notification_deliveries: state by event and destination
    ntHandler,  \* handlers: their event, what is left to send, the answer got
    ntEdits,
    ntTaken,    \* history: how often a destination took an event, while it had no fault
    ntFault,    \* history: events with a crash, lapsed lease or lost answer
    ntTested    \* history: tests sent, by event and revision used

ntVars == <<ntDest, ntRoutes, ntEvent, ntRow, ntHandler, ntEdits, ntTaken, ntFault, ntTested>>
ntConfig == <<ntDest, ntRoutes, ntEdits>>
ntHistory == <<ntTaken, ntFault, ntTested>>

NtEvents == 1..MaxNotices
NtNoEvent == [kind |-> "none", dest |-> "all", rev |-> 0, state |-> "none", tries |-> 0]
NtIdle == [event |-> 0, todo |-> <<>>, answer |-> "none", failed |-> FALSE]

NtFirst == CHOOSE d \in NtDests : TRUE

\* Some destinations exist, with a route each.
NtInit ==
    /\ \E routes \in {<<NtFirst>>} \cup [1..2 -> NtDests] :
         /\ routes[1] = NtFirst
         /\ ntRoutes = [i \in DOMAIN routes |-> [dest |-> routes[i], selects |-> TRUE]]
         /\ ntDest = [d \in NtDests |->
              [state |-> IF \E i \in DOMAIN routes : routes[i] = d THEN "enabled" ELSE "none", rev |-> 1]]
    /\ ntEdits = 0
    /\ ntEvent = [e \in NtEvents |-> NtNoEvent]
    /\ ntRow = [e \in NtEvents |-> [d \in NtDests |-> "none"]]
    /\ ntHandler = [w \in NtHandlers |-> NtIdle]
    /\ ntTaken = [e \in NtEvents |-> [d \in NtDests |-> 0]]
    /\ ntFault = {} /\ ntTested = {}

-----------------------------------------------------------------------------
(* Configuration.                                                          *)

NtEdit == ntEdits < MaxNtEdits /\ ntEdits' = ntEdits + 1

CreateNotificationDestination(d) ==
    /\ ntDest[d].state = "none" /\ NtEdit
    /\ ntDest' = [ntDest EXCEPT ![d].state = "enabled"]
    /\ UNCHANGED <<ntRoutes, ntEvent, ntRow, ntHandler, ntHistory>>

UpdateNotificationDestination(d, state) ==
    /\ ntDest[d].state # "none" /\ NtEdit
    /\ ntDest' = [ntDest EXCEPT ![d] = [state |-> state, rev |-> @.rev + 1]]
    /\ UNCHANGED <<ntRoutes, ntEvent, ntRow, ntHandler, ntHistory>>

\* The tenant's row is locked, the new route comes last.
CreateNotificationRoute(d, selects) ==
    /\ ntDest[d].state # "none" /\ Len(ntRoutes) < 2 /\ NtEdit
    /\ ntRoutes' = Append(ntRoutes, [dest |-> d, selects |-> selects])
    /\ UNCHANGED <<ntDest, ntEvent, ntRow, ntHandler, ntHistory>>

UpdateNotificationRoute(i, selects) ==
    /\ i \in DOMAIN ntRoutes /\ NtEdit
    /\ ntRoutes' = [ntRoutes EXCEPT ![i].selects = selects]
    /\ UNCHANGED <<ntDest, ntEvent, ntRow, ntHandler, ntHistory>>

\* The request names every route once, in the new order.
ReorderNotificationRoutes ==
    \E p \in [DOMAIN ntRoutes -> DOMAIN ntRoutes] :
        /\ \A i, j \in DOMAIN ntRoutes : p[i] = p[j] => i = j
        /\ p # [i \in DOMAIN ntRoutes |-> i] /\ NtEdit
        /\ ntRoutes' = [i \in DOMAIN ntRoutes |-> ntRoutes[p[i]]]
        /\ UNCHANGED <<ntDest, ntEvent, ntRow, ntHandler, ntHistory>>

-----------------------------------------------------------------------------
(* Events.                                                                 *)

NtQueue(e, kind, dest, rev) ==
    /\ ntEvent[e].state = "none" /\ \A f \in 1..(e - 1) : ntEvent[f].state # "none"
    /\ ntEvent' = [ntEvent EXCEPT ![e] =
                     [kind |-> kind, dest |-> dest, rev |-> rev, state |-> "queued", tries |-> 0]]

\* A review run ends.
RunEndQueued(e) ==
    /\ NtQueue(e, "terminal", "all", 0)
    /\ UNCHANGED <<ntConfig, ntRow, ntHandler, ntHistory>>

RequestNotificationTest(e, d) ==
    /\ ntDest[d].state = "enabled"
    /\ NtQueue(e, "test", d, ntDest[d].rev)
    /\ ntRow' = [ntRow EXCEPT ![e][d] = "pending"]
    /\ UNCHANGED <<ntConfig, ntHandler, ntHistory>>

\* The failed row stays failed; a new event carries the destination.
RetryNotificationDelivery(e, f, d) ==
    /\ ntRow[f][d] = "failed" /\ ntEvent[f].kind # "test" /\ ntDest[d].state = "enabled"
    /\ NtQueue(e, "retry", d, 0)
    /\ UNCHANGED <<ntConfig, ntRow, ntHandler, ntHistory>>

-----------------------------------------------------------------------------
(* The consumer.                                                           *)

notificationRouteMatches(r) == r.selects /\ ntDest[r.dest].state = "enabled"

\* A route that matches sends to d, and none before it or itself to f.
NtAhead(d, f) ==
    \E i \in DOMAIN ntRoutes :
        /\ ntRoutes[i].dest = d /\ notificationRouteMatches(ntRoutes[i])
        /\ \A j \in 1..i : notificationRouteMatches(ntRoutes[j]) => ntRoutes[j].dest # f

\* Destinations, each once, in the order of their first matching route.
NtInOrder(dests) ==
    {list \in [1..Cardinality(dests) -> dests] :
        \A i, j \in DOMAIN list : i < j => NtAhead(list[i], list[j])}

NtMatched == {r \in {ntRoutes[i] : i \in DOMAIN ntRoutes} : notificationRouteMatches(r)}

NtSelected(e) ==
    CASE ntEvent[e].kind = "terminal" -> {r.dest : r \in NtMatched}
      [] ntEvent[e].kind = "retry" /\ ntDest[ntEvent[e].dest].state = "enabled" -> {ntEvent[e].dest}
      [] OTHER -> {}

\* A fault of e: from now on its destinations may take it again.
NtFaulty(e) == ntFault' = ntFault \cup {e} /\ ntTaken' = [ntTaken EXCEPT ![e] = [d \in NtDests |-> 0]]

\* A handler takes the event: at first, after an error, or while another still
\* works on it (its lease lapsed).
NtTake(w, e) ==
    /\ ntHandler[w] = NtIdle /\ ntEvent[e].state \in {"queued", "handled"}
    /\ ntEvent[e].tries < MaxHandlings
    /\ ntEvent' = [ntEvent EXCEPT ![e].state = "handled", ![e].tries = @ + 1]
    /\ IF ntEvent[e].state = "handled" THEN NtFaulty(e) ELSE UNCHANGED <<ntFault, ntTaken>>

\* A mutated form: delivered destinations are sent a redelivered event again.
PrepareEverySelected(w, e) ==
    /\ ntEvent[e].kind \in {"terminal", "retry"} /\ NtTake(w, e)
    /\ ntRow' = ntRow
    /\ \E todo \in NtInOrder(NtSelected(e)) :
         ntHandler' = [ntHandler EXCEPT ![w] = [NtIdle EXCEPT !.event = e, !.todo = todo]]
    /\ UNCHANGED <<ntConfig, ntTested>>

\* Every selected destination without a delivered row is to be sent.  Each row
\* is written by a statement of its own, without a claim on it.
PrepareNotificationDeliveries(w, e) ==
    LET open == {d \in NtSelected(e) : ntRow[e][d] # "delivered"} IN
    /\ ntEvent[e].kind \in {"terminal", "retry"} /\ NtTake(w, e)
    /\ ntRow' = [ntRow EXCEPT ![e] =
                   [d \in NtDests |-> IF @[d] = "none" /\ d \in open THEN "pending" ELSE @[d]]]
    /\ \E todo \in NtInOrder(open) :
         ntHandler' = [ntHandler EXCEPT ![w] = [NtIdle EXCEPT !.event = e, !.todo = todo]]
    /\ UNCHANGED <<ntConfig, ntTested>>

\* A test is sent with the revision its requester saw, or not at all.
prepareNotificationTestDelivery(w, e) ==
    LET d == ntEvent[e].dest
        open == ntRow[e][d] \in {"pending", "failed"}
        current == ntDest[d] = [state |-> "enabled", rev |-> ntEvent[e].rev]
    IN  /\ ntEvent[e].kind = "test" /\ NtTake(w, e)
        /\ ntRow' = IF open /\ ~current THEN [ntRow EXCEPT ![e][d] = "failed"] ELSE ntRow
        /\ ntHandler' = [ntHandler EXCEPT ![w] =
                           [NtIdle EXCEPT !.event = e, !.todo = IF open /\ current THEN <<d>> ELSE <<>>]]
        /\ ntTested' = IF open /\ current THEN ntTested \cup {<<e, ntDest[d].rev>>} ELSE ntTested
        /\ UNCHANGED ntConfig

\* The destination takes the notice and says so, refuses it, or takes it and
\* its answer is lost (a timeout): Send reports an error for the last two.
NtSend(w, outcome) ==
    LET h == ntHandler[w]  d == Head(h.todo) IN
    /\ h.todo # <<>> /\ h.answer = "none"
    /\ ntHandler' = [ntHandler EXCEPT ![w].answer = IF outcome = "taken" THEN "ok" ELSE "error"]
    /\ CASE outcome = "lost" -> NtFaulty(h.event)
         [] outcome = "taken" /\ h.event \notin ntFault ->
              ntTaken' = [ntTaken EXCEPT ![h.event][d] = @ + 1] /\ UNCHANGED ntFault
         [] OTHER -> UNCHANGED <<ntTaken, ntFault>>
    /\ UNCHANGED <<ntConfig, ntEvent, ntRow, ntTested>>

\* By row id alone: the last writer wins.
FinishNotificationDelivery(w) ==
    LET h == ntHandler[w] IN
    /\ h.answer # "none"
    /\ ntRow' = [ntRow EXCEPT ![h.event][Head(h.todo)] = IF h.answer = "ok" THEN "delivered" ELSE "failed"]
    /\ ntHandler' = [ntHandler EXCEPT ![w] =
                       [h EXCEPT !.todo = Tail(@), !.answer = "none", !.failed = @ \/ h.answer = "error"]]
    /\ UNCHANGED <<ntConfig, ntEvent, ntHistory>>

\* Every destination was tried; the first error is returned, and the broker
\* delivers the event again until its limit.
Handle(w) ==
    LET h == ntHandler[w]  e == h.event IN
    /\ e # 0 /\ h.todo = <<>>
    /\ ntHandler' = [ntHandler EXCEPT ![w] = NtIdle]
    /\ ntEvent' = [ntEvent EXCEPT ![e].state =
                     IF @ # "handled" \/ \E v \in NtHandlers \ {w} : ntHandler[v].event = e THEN @
                     ELSE IF ~h.failed THEN "done"
                     ELSE IF ntEvent[e].tries < MaxHandlings THEN "queued" ELSE "dead"]
    /\ UNCHANGED <<ntConfig, ntRow, ntHistory>>

NtCrash(w) ==
    LET e == ntHandler[w].event IN
    /\ e # 0
    /\ ntHandler' = [ntHandler EXCEPT ![w] = NtIdle]
    /\ ntEvent' = [ntEvent EXCEPT ![e].state =
                     IF @ = "handled" /\ ntEvent[e].tries = MaxHandlings THEN "dead" ELSE @]
    /\ NtFaulty(e)
    /\ UNCHANGED <<ntConfig, ntRow, ntTested>>

NtNext ==
    \/ \E d \in NtDests :
         \/ CreateNotificationDestination(d)
         \/ \E s \in {"enabled", "paused"} : UpdateNotificationDestination(d, s)
         \/ \E selects \in BOOLEAN : CreateNotificationRoute(d, selects)
         \/ \E e \in NtEvents :
              \/ RequestNotificationTest(e, d)
              \/ \E f \in NtEvents : RetryNotificationDelivery(e, f, d)
    \/ \E i \in DOMAIN ntRoutes, selects \in BOOLEAN : UpdateNotificationRoute(i, selects)
    \/ ReorderNotificationRoutes
    \/ \E e \in NtEvents : RunEndQueued(e)
    \/ \E w \in NtHandlers :
         \/ \E e \in NtEvents : PrepareNotificationDeliveries(w, e) \/ prepareNotificationTestDelivery(w, e)
         \/ \E outcome \in {"taken", "refused", "lost"} : NtSend(w, outcome)
         \/ FinishNotificationDelivery(w) \/ Handle(w) \/ NtCrash(w)

-----------------------------------------------------------------------------
(* Properties.                                                             *)

\* A destination takes one event at most once, whatever routes overlap, are
\* edited or reordered and whatever other destinations fail and are retried,
\* unless a handler died or lost its lease or an answer was lost; and a test
\* is only ever sent with the revision its requester reviewed.
NoticeSentOnce ==
    /\ \A e \in NtEvents, d \in NtDests : ntTaken[e][d] <= 1
    /\ \A t \in ntTested : t[2] = ntEvent[t[1]].rev
===============================================================================
