----------------------------- MODULE EventQueue -----------------------------
(***************************************************************************)
(* PlatformSubscriptionManager, for one platform session: the subscription *)
(* to the platform, started by ensure and stopped when the platform is     *)
(* unregistered, and the queue that runs the session's events one after    *)
(* another.  A queue is a chain of promises: an event runs when the tail   *)
(* it found has settled, whether it succeeded or failed.                   *)
(*                                                                         *)
(* What an event does to the store and the update log is UpdateLog's       *)
(* worker EventQueue; here it is a step that starts and a step that        *)
(* settles.  The fiber runtime is external: disposing a fiber that still   *)
(* starts waits for the start, then runs what the start returned.          *)
(***************************************************************************)
EXTENDS Integers, FiniteSets

CONSTANTS
    Events,        \* events the platform pushes or an RPC ingests
    MaxStops,      \* bound: times the platform is unregistered
    MaxFailures,   \* bound: platform.subscribe calls that fail
    None

Subs == 1 .. MaxStops + MaxFailures + 1

ASSUME QueueConstants ==
    /\ MaxStops \in Nat /\ MaxFailures \in Nat
    /\ None \notin Events /\ None \notin Subs

VARIABLES
    registered,   \* is the platform in the registry?
    entry,        \* the subscription in _subscriptions, or None
    sub,          \* what became of each subscription
    tail,         \* state.tail of each subscription: an event, or None
    awaited,      \* the tail a subscription's disposer waits for
    stage,        \* what became of each event
    on,           \* the subscription an event waits for or is queued on
    prev,         \* the tail the event found
    ticket,       \* history: the order in which the events were queued
    failures, stops

subVars == <<registered, entry, sub, awaited, failures, stops>>
eventVars == <<tail, stage, on, prev, ticket>>
vars == <<subVars, eventVars>>

SubStages == {"unused", "opening", "open", "stopping", "closing", "closed", "failed"}
EventStages == {"new", "waiting", "queued", "running", "settled", "done"}

Init ==
    /\ registered = TRUE /\ entry = None
    /\ sub = [s \in Subs |-> "unused"]
    /\ tail = [s \in Subs |-> None] /\ awaited = [s \in Subs |-> None]
    /\ stage = [e \in Events |-> "new"]
    /\ on = [e \in Events |-> None] /\ prev = [e \in Events |-> None]
    /\ ticket = [e \in Events |-> 0]
    /\ failures = 0 /\ stops = 0

----------------------------------------------------------------------------
\* Subscriptions.

Unused == CHOOSE s \in Subs : sub[s] = "unused" /\ \A r \in Subs : r < s => sub[r] # "unused"

\* ensure without an entry: the fiber starts and the entry is set at once.
\* require throws when the platform is not registered.
Opens == entry' = Unused /\ sub' = [sub EXCEPT ![Unused] = "opening"]

\* startActiveSessions, provision or an RPC's session resolution calls ensure.
Ensure ==
    /\ registered /\ entry = None
    /\ Opens
    /\ UNCHANGED <<registered, awaited, failures, stops, eventVars>>

\* Mutant of Subscribed: the disposer waits for the subscription, not its tail.
SubscribedNoTail(s) ==
    /\ \/ sub[s] = "opening" /\ sub' = [sub EXCEPT ![s] = "open"] /\ UNCHANGED awaited
       \/ /\ sub[s] = "stopping"
          /\ sub' = [sub EXCEPT ![s] = "closing"]
          /\ awaited' = [awaited EXCEPT ![s] = s]
    /\ UNCHANGED <<registered, entry, failures, stops, eventVars>>

\* platform.subscribe resolves; a fiber that is being disposed runs the disposer,
\* which captures the tail of that moment.
Subscribed(s) ==
    /\ \/ sub[s] = "opening" /\ sub' = [sub EXCEPT ![s] = "open"] /\ UNCHANGED awaited
       \/ /\ sub[s] = "stopping"
          /\ sub' = [sub EXCEPT ![s] = "closing"]
          /\ awaited' = [awaited EXCEPT ![s] = tail[s]]
    /\ UNCHANGED <<registered, entry, failures, stops, eventVars>>

\* Mutant of SubscribeFails: whatever entry there is by now is dropped.
SubscribeFailsAnyEntry(s) ==
    /\ sub[s] \in {"opening", "stopping"}
    /\ failures < MaxFailures
    /\ failures' = failures + 1
    /\ sub' = [sub EXCEPT ![s] = "failed"]
    /\ entry' = None
    /\ UNCHANGED <<registered, awaited, stops, eventVars>>

\* platform.subscribe rejects: ensure drops the entry if it is still this one.
SubscribeFails(s) ==
    /\ sub[s] \in {"opening", "stopping"}
    /\ failures < MaxFailures
    /\ failures' = failures + 1
    /\ sub' = [sub EXCEPT ![s] = "failed"]
    /\ entry' = IF entry = s THEN None ELSE entry
    /\ UNCHANGED <<registered, awaited, stops, eventVars>>

\* Mutant of StopPlatform: the entry is dropped only by the disposer's end.
StopPlatformFirst ==
    IF entry = None THEN UNCHANGED <<entry, sub, awaited>>
    ELSE /\ entry' = entry
         /\ sub' = [sub EXCEPT ![entry] = IF @ = "open" THEN "closing" ELSE "stopping"]
         /\ awaited' = [awaited EXCEPT ![entry] = tail[entry]]

\* stopPlatform: the entry is dropped at once, then its fiber is disposed.
StopPlatform ==
    IF entry = None THEN UNCHANGED <<entry, sub, awaited>>
    ELSE /\ entry' = None
         /\ sub' = [sub EXCEPT ![entry] = IF @ = "open" THEN "closing" ELSE "stopping"]
         /\ awaited' = [awaited EXCEPT ![entry] = tail[entry]]

\* The platform leaves the registry; the listener calls stopPlatform.
Unregister ==
    /\ registered /\ stops < MaxStops
    /\ registered' = FALSE
    /\ stops' = stops + 1
    /\ StopPlatform
    /\ UNCHANGED <<failures, eventVars>>

Register ==
    /\ ~registered
    /\ registered' = TRUE
    /\ UNCHANGED <<entry, sub, awaited, failures, stops, eventVars>>

Settled(e) == e # None => stage[e] \in {"settled", "done"}

\* The disposer has waited for the tail it captured and unsubscribes.
Unsubscribe(s) ==
    /\ sub[s] = "closing"
    /\ Settled(awaited[s])
    /\ sub' = [sub EXCEPT ![s] = "closed"]
    /\ UNCHANGED <<registered, entry, awaited, failures, stops, eventVars>>

----------------------------------------------------------------------------
\* Events.

Queued == {e \in Events : ticket[e] # 0}

Append(e, before) ==
    /\ entry # None
    /\ stage' = [stage EXCEPT ![e] = "queued"]
    /\ on' = [on EXCEPT ![e] = entry]
    /\ prev' = [prev EXCEPT ![e] = before]
    /\ tail' = [tail EXCEPT ![entry] = e]
    /\ ticket' = [ticket EXCEPT ![e] = Cardinality(Queued) + 1]
    /\ UNCHANGED subVars

\* Mutant of Joins: the tail is read after it was set, so an event awaits itself.
JoinsItself(e) == Append(e, e)
Joins(e) == entry # None /\ Append(e, tail[entry])

\* _enqueue: behind the tail of the session's subscription; without one, ensure
\* starts it and the event waits, or ensure throws and the event is rejected.
Enqueue(e) ==
    \/ Joins(e)
    \/ /\ entry = None /\ registered
       /\ Opens
       /\ stage' = [stage EXCEPT ![e] = "waiting"]
       /\ on' = [on EXCEPT ![e] = Unused]
       /\ UNCHANGED <<registered, awaited, failures, stops, tail, prev, ticket>>
    \/ /\ entry = None /\ ~registered
       /\ stage' = [stage EXCEPT ![e] = "done"]
       /\ UNCHANGED <<subVars, tail, on, prev, ticket>>

\* The platform's callback or ingestLocalEvent brings an event, at any time: a
\* platform is unsubscribed only at the end of a disposal.
Arrive(e) == stage[e] = "new" /\ Enqueue(e)

\* The ensure an event waits for resolves and the event is queued anew.
Resume(e) ==
    /\ stage[e] = "waiting"
    /\ sub[on[e]] \in {"open", "closing", "closed"}
    /\ Enqueue(e)

\* It rejects, and so does the caller's promise.
Reject(e) ==
    /\ stage[e] = "waiting"
    /\ sub[on[e]] \in {"stopping", "closing", "closed", "failed"}
    /\ stage' = [stage EXCEPT ![e] = "done"]
    /\ UNCHANGED <<subVars, tail, on, prev, ticket>>

\* The tail the event found has settled: _ingestEvent runs in a fiber of its own.
Run(e) ==
    /\ stage[e] = "queued" /\ Settled(prev[e])
    /\ stage' = [stage EXCEPT ![e] = "running"]
    /\ UNCHANGED <<subVars, tail, on, prev, ticket>>

\* It returns or throws; a failure is traced and swallowed by the next event.
Settle(e) ==
    /\ stage[e] = "running"
    /\ stage' = [stage EXCEPT ![e] = "settled"]
    /\ UNCHANGED <<subVars, tail, on, prev, ticket>>

\* Mutant of Forget: the tail is reset although events were queued behind.
ForgetTail(e) ==
    /\ stage[e] = "settled"
    /\ stage' = [stage EXCEPT ![e] = "done"]
    /\ tail' = [tail EXCEPT ![on[e]] = None]
    /\ UNCHANGED <<subVars, on, prev, ticket>>

\* The finally handler resets the tail if it is still this event.
Forget(e) ==
    /\ stage[e] = "settled"
    /\ stage' = [stage EXCEPT ![e] = "done"]
    /\ tail' = [tail EXCEPT ![on[e]] = IF @ = e THEN None ELSE @]
    /\ UNCHANGED <<subVars, on, prev, ticket>>

----------------------------------------------------------------------------
Progress(e) == Resume(e) \/ Reject(e) \/ Run(e) \/ Settle(e) \/ Forget(e)

Next ==
    \/ Ensure \/ Unregister \/ Register
    \/ \E s \in Subs : Subscribed(s) \/ SubscribeFails(s) \/ Unsubscribe(s)
    \/ \E e \in Events : Arrive(e) \/ Progress(e)

(* Fairness: every event and every subscribe of the platform settles, and the
   continuations of settled promises run. *)
Spec ==
    /\ Init /\ [][Next]_vars
    /\ \A s \in Subs : WF_vars(Subscribed(s)) /\ WF_vars(Unsubscribe(s))
    /\ \A e \in Events : WF_vars(Progress(e))

----------------------------------------------------------------------------
\* Properties.

(* Every variable has its type. *)
QueueTypeOK ==
    /\ registered \in BOOLEAN
    /\ entry \in Subs \cup {None}
    /\ sub \in [Subs -> SubStages]
    /\ tail \in [Subs -> Events \cup {None}] /\ awaited \in [Subs -> Events \cup {None}]
    /\ stage \in [Events -> EventStages]
    /\ on \in [Events -> Subs \cup {None}] /\ prev \in [Events -> Events \cup {None}]
    /\ ticket \in [Events -> Nat]
    /\ failures \in 0 .. MaxFailures /\ stops \in 0 .. MaxStops

Running(e) == stage[e] = "running"
Started(e) == stage[e] \in {"running", "settled", "done"}

(* Events of a queue run in the order they were queued, each after the one in
   front of it has settled, however often the queue ran empty in between
   (platform-manager.test.ts:500). *)
InOrder ==
    \A e, f \in Queued :
        /\ on[e] = on[f] /\ ticket[e] < ticket[f] /\ Started(f)
        => Settled(e)

(* Two events of the session run at once only while one of them is on a
   subscription that is being disposed or failed to start: ensure does not wait
   for a disposal, but no second subscription is started beside a live one. *)
OverlapOnlyStopping ==
    \A e, f \in Events :
        Running(e) /\ Running(f) /\ e # f
            => {sub[on[e]], sub[on[f]]} \cap {"stopping", "closing", "failed"} # {}

(* A subscription is closed only when every event queued on it has settled:
   no event is queued behind the tail that the disposer captured. *)
DrainedBeforeClosed ==
    \A e \in Queued : sub[on[e]] = "closed" => Settled(e)

(* Every event that arrived settles, whatever fails, stops or starts. *)
EventsSettle == \A e \in Events : stage[e] # "new" ~> stage[e] = "done"
=============================================================================
