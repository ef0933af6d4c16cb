-------------------------- MODULE ScheduledMessages --------------------------
(***************************************************************************)
(* Scheduled messages: the state table of bridge/src/scheduled-messages.ts *)
(* (pending, sending, sent, failed, cancelled), the dispatcher that sweeps *)
(* it, and the send-now and delete calls of bridge/src/dialogs.ts.  A row  *)
(* is claimed for a lease, sent to the platform, and marked; a failed      *)
(* send is put back for a retry and parked after the last one.             *)
(*                                                                         *)
(* Sweeps run concurrently (a timer, the periodic fallback, and what a     *)
(* stopped dispatcher had already begun) and with the calls of users.      *)
(* Which of timer and fallback starts a sweep makes no difference to it,   *)
(* so a sweep may start at any time.  A conditional write of the state     *)
(* table is two steps, for set() of the database plugin SELECTs the rows   *)
(* that meet the condition and then UPDATEs them: claims wait for one      *)
(* another (serializeClaim), but a delete and the requeue of a starting    *)
(* dispatcher go between the two steps of a claim and of each other.  The  *)
(* writes that name only the row are one step.  Time counts in units of    *)
(* the model's choice.                                                     *)
(***************************************************************************)
EXTENDS Integers, Sequences, FiniteSets

CONSTANTS
  Rows,         \* scheduled messages
  DueAt,        \* DueAt[r]: the time the user chose
  Touched,      \* the messages users send at once or delete
  Sweeps,       \* sweeps that may be in flight at once
  Callers,      \* sendScheduledMessages calls that may be in flight at once
  Deleters,     \* deletes of a row that may be in flight at once
  Lease,        \* SCHEDULED_MESSAGE_LEASE_MS
  Retry,        \* SCHEDULED_MESSAGE_RETRY_MS, a sequence of delays
  Batch,        \* SCHEDULED_MESSAGE_BATCH
  NoMsg,        \* what a sweep or call that handles no row holds
  MaxClock,     \* bound on time
  MaxFaults,    \* bound on sends and statements that fail
  MaxRestarts   \* bound on stops and crashes of the process

ASSUME SchedAssumption ==
  /\ DueAt \in [Rows -> Nat]
  /\ Touched \subseteq Rows
  /\ Sweeps \cap Callers = {}
  /\ Lease \in Nat
  /\ Retry \in Seq(Nat)
  /\ Retry # <<>>
  /\ Batch \in Nat \ {0}
  /\ MaxClock \in Nat
  /\ MaxFaults \in Nat
  /\ MaxRestarts \in Nat

VARIABLES
  clock,      \* Date.now()
  running,    \* a dispatcher is started
  row,        \* mtproto_scheduled_state
  stage,      \* where each sweep or call is
  at,         \* the `now` of a sweep, or of a call's claim
  todo,       \* the rows a sweep or call read, still to be handled
  msg,        \* the one it is handling, as it was read
  found,      \* rows a delete or requeue SELECTed and has still to UPDATE
  halted,     \* sweeps whose dispatcher was stopped
  faults, restarts,
  sends,      \* history: how often the platform accepted each message
  expired,    \* history: rows whose lease somebody found run out
  repeated,   \* history: rows whose sender failed after the platform accepted
  lost,       \* history: rows whose sender died and that nobody requeued
  withdrawn   \* history: rows cancelled while nobody sent or was taking them

schedVars == <<clock, running, row, stage, at, todo, msg, found, halted, faults,
               restarts, sends, expired, repeated, lost, withdrawn>>
procVars == <<stage, at, todo, msg, halted>>
historyVars == <<sends, expired, repeated, lost, withdrawn>>

Senders == Sweeps \cup Callers
Statuses == {"none", "pending", "sending", "sent", "failed", "cancelled"}
Snapshot == [id : Rows, status : Statuses, attempts : Nat, nextAt : Nat]
\* A delete, or the requeue of the n-th start, about to write a row's status.
Change == [by : Deleters \cup Nat, id : Rows, status : {"cancelled", "pending"}]

\* What a reader of the table keeps of a row.
Read(r) == [id |-> r, status |-> row[r].status, attempts |-> row[r].attempts,
            nextAt |-> row[r].nextAt]
\* A send-now call uses no more of it than whether it was parked.
ReadNow(r) == [id |-> r, attempts |-> 0, nextAt |-> 0,
               status |-> IF row[r].status = "failed" THEN "failed" ELSE "pending"]

Holding(w) == stage[w] \in {"send", "publish"}
Holders(r) == {w \in Senders : Holding(w) /\ msg[w].id = r}

SchedInit ==
  /\ clock = 0 /\ running = TRUE
  /\ row = [r \in Rows |-> [status |-> "none", attempts |-> 0,
                            nextAt |-> 0, leaseUntil |-> 0]]
  /\ stage = [w \in Senders |-> "idle"]
  /\ at = [w \in Senders |-> 0]
  /\ todo = [w \in Senders |-> {}]
  /\ msg = [w \in Senders |-> NoMsg]
  /\ found = {}
  /\ halted = {}
  /\ faults = 0 /\ restarts = 0
  /\ sends = [r \in Rows |-> 0]
  /\ expired = {} /\ repeated = {} /\ lost = {} /\ withdrawn = {}

-----------------------------------------------------------------------------
(***************************************************************************)
(* The state table.                                                        *)
(***************************************************************************)

\* messages.sendMessage with a schedule date creates the row.
Create(r) ==
  /\ row[r].status = "none"
  /\ row' = [row EXCEPT ![r] = [status |-> "pending", attempts |-> 0,
                                nextAt |-> DueAt[r], leaseUntil |-> 0]]
  /\ UNCHANGED <<clock, running, found, procVars, faults, restarts, historyVars>>

\* The rows claim() accepts: pending and due, or sending on a lease that ran
\* out; claimNow() takes pending and failed rows whatever their time.
Expired(r, now) == row[r].status = "sending" /\ row[r].leaseUntil < now
\* Mutant of ClaimableDue: what the row has become by now is not looked at.
ClaimableDueAnyStatus(r, now) == row[r].nextAt <= now
ClaimableDue(r, now) ==
  \/ row[r].status = "pending" /\ row[r].nextAt <= now
  \/ Expired(r, now)
ClaimableNow(r, now) ==
  \/ row[r].status \in {"pending", "failed"}
  \/ Expired(r, now)

Claimable(w, r) ==
  IF w \in Sweeps THEN ClaimableDue(r, at[w]) ELSE ClaimableNow(r, at[w])

\* markSent(), reschedule() and release() look at neither the owner nor the
\* status the row has by now.
\* Mutant of SetSent: the lease is kept.
SetSentOnLease(r) == [row EXCEPT ![r].status = "sent"]
SetSent(r) == [row EXCEPT ![r].status = "sent", ![r].leaseUntil = 0]
RetryRow(attempts, now) ==
  IF attempts > Len(Retry)
    THEN [status |-> "failed", attempts |-> attempts, nextAt |-> now,
          leaseUntil |-> 0]
    ELSE [status |-> "pending", attempts |-> attempts,
          nextAt |-> now + Retry[attempts], leaseUntil |-> 0]
SetRetry(r, attempts, now) == [row EXCEPT ![r] = RetryRow(attempts, now)]
SetReleased(r, status) ==
  [row EXCEPT ![r].status = status, ![r].leaseUntil = 0]

\* Somebody SELECTed the row and is about to take it or put it back.
Overtaking(r) ==
  \/ \E w \in Senders : stage[w] = "take" /\ msg[w].id = r
  \/ \E f \in found : f.id = r /\ f.status = "pending"

\* messages.deleteScheduledMessages, SELECT: the row is one to delete.
FindDeleted(u, r) ==
  /\ \A f \in found : f.by # u
  /\ row[r].status \in {"pending", "sending", "failed"}
  /\ found' = found \cup {[by |-> u, id |-> r, status |-> "cancelled"]}
  /\ UNCHANGED <<clock, running, row, procVars, faults, restarts, historyVars>>

\* UPDATE of a delete or a requeue: the row is written whatever it has become,
\* and whoever is sending it is not told.  An UPDATE that never comes is one
\* that failed.
Write(f) ==
  /\ f \in found
  /\ found' = found \ {f}
  /\ row' = SetReleased(f.id, f.status)
  /\ withdrawn' = IF /\ f.status = "cancelled"
                     /\ Holders(f.id) = {} /\ ~ Overtaking(f.id)
                    THEN withdrawn \cup {f.id} ELSE withdrawn
  /\ lost' = IF f.status = "pending" THEN lost \ {f.id} ELSE lost
  /\ UNCHANGED <<clock, running, procVars, faults, restarts, sends, expired,
                 repeated>>

-----------------------------------------------------------------------------
(***************************************************************************)
(* A sweep of the dispatcher.                                              *)
(***************************************************************************)

SweepStart(s) ==
  /\ running
  /\ stage[s] = "idle"
  /\ stage' = [stage EXCEPT ![s] = "list"]
  /\ at' = [at EXCEPT ![s] = clock]
  /\ UNCHANGED <<clock, running, row, todo, msg, found, halted, faults, restarts,
                 historyVars>>

\* due(): the earliest rows that are pending and due, at most a batch of them.
\* Mutant of DueRows: off by one.
DueRowsBefore(now) == {r \in Rows : row[r].status = "pending" /\ row[r].nextAt < now}
DueRows(now) == {r \in Rows : row[r].status = "pending" /\ row[r].nextAt <= now}
Earliest(D) ==
  {B \in SUBSET D :
     /\ Cardinality(B) = IF Cardinality(D) < Batch THEN Cardinality(D) ELSE Batch
     /\ \A b \in B, d \in D \ B : row[b].nextAt <= row[d].nextAt}

SweepList(s) ==
  /\ stage[s] = "list"
  /\ \E B \in Earliest(DueRows(at[s])) :
       todo' = [todo EXCEPT ![s] = {Read(r) : r \in B}]
  /\ stage' = [stage EXCEPT ![s] = "next"]
  /\ UNCHANGED <<clock, running, row, at, msg, found, halted, faults, restarts,
                 historyVars>>

\* The loop of sweep(): the next row in the order of due(), unless stopped.
SweepNext(s) ==
  /\ stage[s] = "next"
  /\ s \notin halted
  /\ \E m \in todo[s] :
       /\ \A n \in todo[s] : m.nextAt <= n.nextAt
       /\ msg' = [msg EXCEPT ![s] = m]
       /\ todo' = [todo EXCEPT ![s] = @ \ {m}]
  /\ stage' = [stage EXCEPT ![s] = "claim"]
  /\ UNCHANGED <<clock, running, row, at, found, halted, faults, restarts, historyVars>>

SweepEnd(s) ==
  /\ stage[s] = "next"
  /\ s \in halted \/ todo[s] = {}
  /\ stage' = [stage EXCEPT ![s] = "idle"]
  /\ todo' = [todo EXCEPT ![s] = {}]
  /\ at' = [at EXCEPT ![s] = 0]
  /\ halted' = halted \ {s}
  /\ UNCHANGED <<clock, running, row, msg, found, faults, restarts, historyVars>>

\* The send failed, at the platform or after it: the row goes back, with one
\* attempt more than it had when the sweep read it.
SweepFails(s) ==
  /\ Holding(s)
  /\ faults < MaxFaults
  /\ faults' = faults + 1
  /\ row' = SetRetry(msg[s].id, msg[s].attempts + 1, at[s])
  /\ repeated' = IF stage[s] = "publish" THEN repeated \cup {msg[s].id} ELSE repeated
  /\ stage' = [stage EXCEPT ![s] = "next"]
  /\ msg' = [msg EXCEPT ![s] = NoMsg]
  /\ UNCHANGED <<clock, running, at, todo, found, halted, restarts, sends,
                 expired, lost, withdrawn>>

-----------------------------------------------------------------------------
(***************************************************************************)
(* messages.sendScheduledMessages.                                         *)
(***************************************************************************)

\* byTlIds(): the rows asked for that are still scheduled, parked ones included.
CallStart(c, ids) ==
  LET listed == {r \in ids : row[r].status \in {"pending", "sending", "failed"}}
  IN  /\ stage[c] = "idle"
      /\ listed # {}
      /\ todo' = [todo EXCEPT ![c] = {ReadNow(r) : r \in listed}]
      /\ stage' = [stage EXCEPT ![c] = "next"]
      /\ UNCHANGED <<clock, running, row, at, msg, found, halted, faults, restarts,
                     historyVars>>

\* The next of the rows, claimed with the time of this moment.
CallNext(c) ==
  /\ stage[c] = "next"
  /\ \E m \in todo[c] :
       /\ msg' = [msg EXCEPT ![c] = m]
       /\ todo' = [todo EXCEPT ![c] = @ \ {m}]
  /\ at' = [at EXCEPT ![c] = clock]
  /\ stage' = [stage EXCEPT ![c] = "claim"]
  /\ UNCHANGED <<clock, running, row, found, halted, faults, restarts,
                 historyVars>>

CallEnd(c) ==
  /\ stage[c] = "next"
  /\ todo[c] = {}
  /\ stage' = [stage EXCEPT ![c] = "idle"]
  /\ at' = [at EXCEPT ![c] = 0]
  /\ UNCHANGED <<clock, running, row, todo, msg, found, halted, faults, restarts,
                 historyVars>>

\* The send failed: the claim is released to what the call had read, and the
\* error ends the call.
CallFails(c) ==
  /\ Holding(c)
  /\ faults < MaxFaults
  /\ faults' = faults + 1
  /\ row' = SetReleased(msg[c].id,
                        IF msg[c].status = "failed" THEN "failed" ELSE "pending")
  /\ repeated' = IF stage[c] = "publish" THEN repeated \cup {msg[c].id} ELSE repeated
  /\ stage' = [stage EXCEPT ![c] = "idle"]
  /\ at' = [at EXCEPT ![c] = 0]
  /\ todo' = [todo EXCEPT ![c] = {}]
  /\ msg' = [msg EXCEPT ![c] = NoMsg]
  /\ UNCHANGED <<clock, running, found, halted, restarts, sends, expired,
                 lost, withdrawn>>

-----------------------------------------------------------------------------
(***************************************************************************)
(* What sweeps and calls share.                                            *)
(***************************************************************************)

\* claim() and claimNow(), SELECT, one claim at a time: a row that is not free
\* is left to whoever has it.
\* Mutant of Unclaimed: claims do not wait for one another.
UnclaimedByMany == TRUE
Unclaimed == \A v \in Senders : stage[v] # "take"
Claim(w) ==
  /\ stage[w] = "claim"
  /\ Unclaimed
  /\ LET r == msg[w].id
     IN  \/ /\ Claimable(w, r)
            /\ stage' = [stage EXCEPT ![w] = "take"]
            /\ expired' = IF Expired(r, at[w]) THEN expired \cup {r} ELSE expired
            /\ UNCHANGED msg
         \/ /\ ~ Claimable(w, r)
            /\ stage' = [stage EXCEPT ![w] = "next"]
            /\ msg' = [msg EXCEPT ![w] = NoMsg]
            /\ UNCHANGED expired
  /\ UNCHANGED <<clock, running, row, at, todo, found, halted, faults, restarts,
                 sends, repeated, lost, withdrawn>>

\* Their UPDATE, whatever the row has become; the lease counts from the
\* claimant's `now`.
Take(w) ==
  /\ stage[w] = "take"
  /\ row' = [row EXCEPT ![msg[w].id].status = "sending",
                        ![msg[w].id].leaseUntil = at[w] + Lease]
  /\ stage' = [stage EXCEPT ![w] = "send"]
  /\ UNCHANGED <<clock, running, at, todo, msg, found, halted, faults, restarts,
                 historyVars>>

\* The platform accepts the message; the updates of the chat come after it.
Deliver(w) ==
  /\ stage[w] = "send"
  /\ sends' = [sends EXCEPT ![msg[w].id] = @ + 1]
  /\ stage' = [stage EXCEPT ![w] = "publish"]
  /\ UNCHANGED <<clock, running, row, at, todo, msg, found, halted, faults, restarts,
                 expired, repeated, lost, withdrawn>>

Sent(w) ==
  /\ stage[w] = "publish"
  /\ row' = SetSent(msg[w].id)
  /\ stage' = [stage EXCEPT ![w] = "next"]
  /\ msg' = [msg EXCEPT ![w] = NoMsg]
  /\ UNCHANGED <<clock, running, at, todo, found, halted, faults, restarts,
                 historyVars>>

\* A statement throws where nobody catches it: the rest of the sweep or call is
\* abandoned, and a row it had claimed stays as it is.
Dies(w) ==
  /\ stage[w] # "idle"
  /\ faults < MaxFaults
  /\ faults' = faults + 1
  /\ stage' = [stage EXCEPT ![w] = "idle"]
  /\ todo' = [todo EXCEPT ![w] = {}]
  /\ at' = [at EXCEPT ![w] = 0]
  /\ msg' = [msg EXCEPT ![w] = NoMsg]
  /\ halted' = halted \ {w}
  /\ lost' = IF Holding(w) THEN lost \cup {msg[w].id} ELSE lost
  /\ UNCHANGED <<clock, running, row, found, restarts, sends, expired, repeated,
                 withdrawn>>

-----------------------------------------------------------------------------
(***************************************************************************)
(* The dispatcher, the process and time.                                   *)
(***************************************************************************)

Stop ==
  /\ running /\ restarts < MaxRestarts
  /\ restarts' = restarts + 1
  /\ running' = FALSE
  /\ halted' = {s \in Sweeps : stage[s] # "idle"}
  /\ UNCHANGED <<clock, row, stage, at, todo, msg, found, faults, historyVars>>

Crash ==
  /\ running /\ restarts < MaxRestarts
  /\ restarts' = restarts + 1
  /\ running' = FALSE
  /\ stage' = [w \in Senders |-> "idle"]
  /\ todo' = [w \in Senders |-> {}]
  /\ at' = [w \in Senders |-> 0]
  /\ msg' = [w \in Senders |-> NoMsg]
  /\ found' = {}
  /\ halted' = {}
  /\ lost' = lost \cup {msg[w].id : w \in {v \in Senders : Holding(v)}}
  /\ UNCHANGED <<clock, row, faults, sends, expired, repeated, withdrawn>>

\* start() and the SELECT of its requeue: rows whose lease has run out are to
\* go back to pending.
\* Mutant of Requeued: every row found `sending` is taken for a crash's.
RequeuedSending(now) == {r \in Rows : row[r].status = "sending"}
Requeued(now) == {r \in Rows : Expired(r, now)}

Start ==
  /\ ~ running
  /\ running' = TRUE
  /\ found' = found \cup {[by |-> restarts, id |-> r, status |-> "pending"] :
                             r \in Requeued(clock)}
  /\ expired' = expired \cup {r \in Rows : Expired(r, clock)}
  /\ UNCHANGED <<clock, row, procVars, faults, restarts, sends, repeated, lost,
                 withdrawn>>

Tick ==
  /\ clock < MaxClock
  /\ clock' = clock + 1
  /\ UNCHANGED <<running, row, found, procVars, faults, restarts, historyVars>>

SweepStep(s) ==
  \/ SweepList(s) \/ SweepNext(s) \/ SweepEnd(s) \/ Claim(s) \/ Take(s)
  \/ SweepFails(s) \/ Deliver(s) \/ Sent(s) \/ Dies(s)
CallStep(c) ==
  \/ CallNext(c) \/ CallEnd(c) \/ Claim(c) \/ Take(c) \/ CallFails(c)
  \/ Deliver(c) \/ Sent(c) \/ Dies(c)

SchedNext ==
  \/ \E r \in Rows : Create(r)
  \/ \E u \in Deleters, r \in Touched : FindDeleted(u, r)
  \/ \E f \in found : Write(f)
  \/ \E s \in Sweeps : SweepStart(s) \/ SweepStep(s)
  \/ \E c \in Callers : (\E ids \in SUBSET Touched : CallStart(c, ids)) \/ CallStep(c)
  \/ Stop \/ Crash \/ Start \/ Tick

\* The fallback interval starts a sweep again and again, a send settles one way
\* or the other, a stopped dispatcher is replaced, which first ends its requeue,
\* and time passes.
SchedFairness ==
  /\ \A s \in Sweeps : WF_schedVars(SweepStart(s)) /\ WF_schedVars(SweepStep(s))
  /\ \A c \in Callers : WF_schedVars(CallStep(c))
  /\ WF_schedVars(\E f \in found : f.status = "pending" /\ Write(f))
  /\ WF_schedVars(Start) /\ WF_schedVars(Tick)

SchedSpec == SchedInit /\ [][SchedNext]_schedVars /\ SchedFairness

-----------------------------------------------------------------------------
(***************************************************************************)
(* Properties.                                                             *)
(***************************************************************************)

\* Types; a row that is not `sending` carries no lease, and the work list of a
\* sweep or call that ended is empty.
SchedTypeOK ==
  /\ clock \in 0 .. MaxClock /\ running \in BOOLEAN
  /\ row \in [Rows -> [status : Statuses, attempts : Nat, nextAt : Nat,
                       leaseUntil : Nat]]
  /\ \A r \in Rows : row[r].status # "sending" => row[r].leaseUntil = 0
  /\ stage \in [Senders -> {"idle", "list", "next", "claim", "take", "send",
                           "publish"}]
  /\ at \in [Senders -> 0 .. clock]
  /\ todo \in [Senders -> SUBSET Snapshot]
  /\ msg \in [Senders -> Snapshot \cup {NoMsg}]
  /\ \A w \in Senders :
       stage[w] \in {"claim", "take", "send", "publish"} => msg[w] \in Snapshot
  /\ \A w \in Senders : stage[w] = "idle" => todo[w] = {}
  /\ found \subseteq Change
  /\ halted \subseteq Sweeps
  /\ faults \in 0 .. MaxFaults /\ restarts \in 0 .. MaxRestarts
  /\ sends \in [Rows -> Nat]
  /\ expired \subseteq Rows /\ repeated \subseteq Rows
  /\ lost \subseteq Rows /\ withdrawn \subseteq Rows

\* claim() is the lock: as long as no lease of a row has been found run out, at
\* most one sweep or call is sending it, stopped dispatchers and send-now calls
\* included.
OneSender ==
  \A r \in Rows \ expired : \A v, w \in Holders(r) : v = w

\* A message reaches the platform once, unless its sender failed after the
\* platform had accepted it (the retry repeats it) or a lease ran out.
DeliveredOnce ==
  \A r \in Rows : sends[r] > 1 => r \in expired \cup repeated

\* A row the user deleted stays deleted, whatever sweep or call had listed it
\* before, unless somebody was sending it or had SELECTed it, to claim it or to
\* put it back: that UPDATE writes over the delete and the message goes out.
CancelledStays ==
  \A r \in withdrawn :
    row[r].status = "cancelled" /\ Holders(r) = {} /\ ~ Overtaking(r)

\* Every pending row is eventually sent, parked or deleted, unless its sender
\* dies with the claim or its next attempt lies beyond the modelled time.
Settles ==
  \A r \in Rows :
    row[r].status = "pending"
      ~> \/ row[r].status \in {"sent", "failed", "cancelled"}
         \/ r \in lost
         \/ row[r].nextAt > MaxClock
=============================================================================
