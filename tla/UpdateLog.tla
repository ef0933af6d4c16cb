----------------------------- MODULE UpdateLog -----------------------------
(***************************************************************************)
(* The write side of the update log of one platform session: the account   *)
(* and channel update states (mtproto_update_state,                        *)
(* mtproto_channel_update_state), the delivery rows of the update store,   *)
(* the write queue MessageStore._write, and the calls of UpdateManager     *)
(* that publish an event.                                                  *)
(*                                                                         *)
(* A publishing call is cut at every await after which another actor can   *)
(* see or change what the call reads or writes.  Everything MessageStore   *)
(* does inside one _write callback is one step, except prepareUpdate-      *)
(* Delivery, whose transaction commits the new pts before the store        *)
(* inserts the row: readers do not queue for the write lock and see the    *)
(* state in between.                                                       *)
(***************************************************************************)
EXTENDS Integers, FiniteSets

CONSTANTS
    Channels,      \* channel peers of the session
    Keys,          \* event keys, one per update the session may publish
    Workers,       \* calls that publish: the session's event queue, RPC handlers
    EventQueue,    \* the worker that runs the session's event queue
    Jobs,          \* [Workers -> SUBSET Keys]: the keys a worker publishes
    Scope,         \* [Keys -> {Account} \cup Channels]: the scope of a key's row
    PtsCount,      \* [Keys -> Nat]: how many pts the key's update takes
    Stamp,         \* [Keys -> Nat]: the event's timestamp
    ChangeOnly,    \* keys of edits, deletes and reactions: published without a
                   \* row only if the event changed the message store
    AlwaysMarked,  \* keys whose row is marked published whatever _send returns
    RpcDates,      \* dates an RPC reserves pts with
    Cutoffs,       \* dates the retention sweep may delete up to
    Retention,     \* rows the store keeps per scope
    SlowPublish,   \* may a publisher outlast the claim grace period?
    MaxJobs,       \* bound: publishing calls started
    MaxReserved,   \* bound: RPC reservations of pts
    MaxCrashes,    \* bound: process restarts
    Account, Free, NoRow

Scopes == {Account} \cup Channels

ASSUME ConstantTypes ==
    /\ EventQueue \in Workers
    /\ Jobs \in [Workers -> SUBSET Keys]
    /\ Scope \in [Keys -> Scopes]
    /\ PtsCount \in [Keys -> Nat]
    /\ Stamp \in [Keys -> Nat]
    /\ ChangeOnly \subseteq Keys /\ AlwaysMarked \subseteq Keys
    /\ RpcDates \subseteq Nat
    /\ Cutoffs \subseteq Nat
    /\ Retention \in Nat
    /\ SlowPublish \in BOOLEAN
    /\ MaxJobs \in Nat /\ MaxReserved \in Nat /\ MaxCrashes \in Nat

ASSUME DistinctNames ==
    /\ Account \notin Channels
    /\ Free \notin Workers
    /\ NoRow \notin [pts : Nat, seq : Nat, date : Nat,
                     published : BOOLEAN, fresh : BOOLEAN, payload : Nat]

VARIABLES
    account,   \* mtproto_update_state: pts, seq, date
    channel,   \* mtproto_channel_update_state per channel; pts 0: no record yet
    row,       \* the store's delivery row of each key, or NoRow
    lock,      \* holder of the write queue when it spans several steps
    work,      \* what each worker is doing
    past       \* applied: events of ChangeOnly the message store has taken in;
               \* ignored: those a repetition of which published nothing;
               \* jobs, reserved, crashes: counters that the bounds cap

vars == <<account, channel, row, lock, work, past>>

\* A delivery row.  payload is 0 until setPayload, then the pts the payload was
\* built with; fresh says that claimedAt is within the grace period.
Row == [pts : Nat, seq : Nat, date : Nat,
        published : BOOLEAN, fresh : BOOLEAN, payload : Nat]

Stages == {"idle", "reserve", "create", "build", "send", "mark", "release"}

\* key and held are meaningful while stage is not "idle"; held is the row the
\* call works with, claimed says that this call allocated or re-claimed it.
Idle == [stage |-> "idle"]
WorkRecord ==
    {Idle} \cup [stage : Stages \ {"idle"}, key : Keys,
                 held : Row \cup {NoRow}, claimed : BOOLEAN]

Busy(w) == work[w].stage # "idle"
Pending(k) == row[k] # NoRow /\ row[k].payload = 0
Max2(a, b) == IF a >= b THEN a ELSE b

NoRecord == [pts |-> 0, date |-> 0]
\* Mutant of BasePts: a channel's own record is never read back.
BasePtsOfAccount(s) == account.pts
\* The pts a scope's next update is counted from.
BasePts(s) ==
    IF s = Account THEN account.pts
    ELSE IF channel[s].pts # 0 THEN channel[s].pts ELSE account.pts

\* getUpdateState of a session without a record: pts 1, seq 0.
Init ==
    /\ account = [pts |-> 1, seq |-> 0, date |-> 0]
    /\ channel = [c \in Channels |-> NoRecord]
    /\ row = [k \in Keys |-> NoRow]
    /\ lock = Free
    /\ work = [w \in Workers |-> Idle]
    /\ past = [applied |-> {}, ignored |-> {}, jobs |-> 0, reserved |-> 0, crashes |-> 0]

----------------------------------------------------------------------------
\* Publishing calls.

Becomes(w, stage, k, held, claimed) ==
    work' = [work EXCEPT ![w] = [stage |-> stage, key |-> k,
                                 held |-> held, claimed |-> claimed]]
Goes(w, stage) == Becomes(w, stage, work[w].key, work[w].held, work[w].claimed)
\* Mutant of Ends: the call ends without dropping what it held.
EndsHolding(w) == work' = [work EXCEPT ![w].stage = "idle"]
Ends(w) == work' = [work EXCEPT ![w] = Idle]

\* An edit, delete or reaction that comes again after its row is gone: the store
\* change of its first time is committed, so nothing changes now.
Repeated(w, k) == w = EventQueue /\ row[k] = NoRow /\ k \in past.applied

\* publish() looks the row up: an unpublished one is taken over as it stands,
\* without a new claim, a published one ends the call, as a repetition does.
\* RPC handlers (publishMentionRead, publishPeerBlocked) go straight to prepare.
Start(w, k) ==
    /\ ~Busy(w)
    /\ k \in Jobs[w]
    /\ past.jobs < MaxJobs
    /\ past' = [past EXCEPT !.jobs = @ + 1,
                           !.applied = @ \cup ({k} \cap ChangeOnly),
                           !.ignored = IF Repeated(w, k) THEN @ \cup {k} ELSE @]
    /\ \/ /\ w # EventQueue \/ row[k] = NoRow
          /\ ~Repeated(w, k)
          /\ Becomes(w, "reserve", k, NoRow, FALSE)
       \/ /\ w = EventQueue /\ row[k] # NoRow /\ ~row[k].published
          /\ Becomes(w, "build", k, row[k], FALSE)
       \/ /\ w = EventQueue /\ row[k] # NoRow /\ row[k].published
          /\ UNCHANGED work
       \/ /\ Repeated(w, k)
          /\ UNCHANGED work
    /\ UNCHANGED <<account, channel, row, lock>>

\* prepareUpdateDelivery finds a row: refresh its claim and use it.
Reclaim(w) ==
    /\ work[w].stage = "reserve"
    /\ lock = Free
    /\ LET k == work[w].key
           r == [row[k] EXCEPT !.fresh = TRUE]
       IN  /\ row[k] # NoRow
           /\ row' = [row EXCEPT ![k] = r]
           /\ IF w = EventQueue /\ r.published THEN Ends(w)
              ELSE Becomes(w, "build", k, r, TRUE)
    /\ UNCHANGED <<account, channel, lock, past>>

\* prepareUpdateDelivery's transaction: seq + 1, the scope's pts + ptsCount,
\* a date no older than the account's.  Commits with the write lock held.
Allocate(w) ==
    /\ work[w].stage = "reserve"
    /\ lock = Free
    /\ LET k == work[w].key
           s == Scope[k]
           pts == BasePts(s) + PtsCount[k]
           date == Max2(account.date, Stamp[k])
       IN  /\ row[k] = NoRow
           /\ account' = [pts |-> IF s = Account THEN pts ELSE account.pts,
                          seq |-> account.seq + 1, date |-> date]
           /\ channel' = IF s = Account THEN channel
                         ELSE [channel EXCEPT ![s] =
                                 [pts |-> pts, date |-> Max2(@.date, date)]]
           /\ Becomes(w, "create", k,
                      [pts |-> pts, seq |-> account.seq + 1, date |-> date,
                       published |-> FALSE, fresh |-> TRUE, payload |-> 0], TRUE)
    /\ lock' = w
    /\ UNCHANGED <<row, past>>

\* The store keeps the newest Retention rows of a scope (rows are inserted in
\* the order their seq was allocated, so messageId order is seq order).
Newer(rows, k) == {j \in Keys : /\ rows[j] # NoRow /\ Scope[j] = Scope[k]
                                /\ rows[j].seq > rows[k].seq}
Trimmed(rows, s) ==
    [k \in Keys |-> IF /\ rows[k] # NoRow /\ Scope[k] = s
                       /\ Cardinality(Newer(rows, k)) >= Retention
                    THEN NoRow ELSE rows[k]]

\* create() inserts the row and trims the scope; the write lock is released.
CreateRow(w) ==
    /\ work[w].stage = "create"
    /\ LET k == work[w].key
       IN  row' = Trimmed([row EXCEPT ![k] = work[w].held], Scope[k])
    /\ lock' = Free
    /\ Goes(w, "build")
    /\ UNCHANGED <<account, channel, past>>

\* create() throws: the pts stay allocated and no row stands for them.
CreateFails(w) ==
    /\ work[w].stage = "create"
    /\ lock' = Free
    /\ IF w = EventQueue THEN Goes(w, "release") ELSE Ends(w)
    /\ UNCHANGED <<account, channel, row, past>>

\* Any other await of the call throws, or the event renders to no update:
\* publish() releases the row on the way out, RPC handlers do not.
Abort(w) ==
    /\ work[w].stage \in {"reserve", "build", "send", "mark"}
    /\ IF w = EventQueue THEN Goes(w, "release") ELSE Ends(w)
    /\ UNCHANGED <<account, channel, row, lock, past>>

\* Mutant of Release: rows that have a payload are dropped too.
ReleaseFinished(w) ==
    /\ work[w].stage = "release" /\ lock = Free
    /\ row' = [row EXCEPT ![work[w].key] = NoRow]
    /\ Ends(w)
    /\ UNCHANGED <<account, channel, lock, past>>

\* _releaseAbandonedDelivery: discardPendingUpdateDelivery drops a row that
\* still has no payload; its own failure is only traced.
Release(w) ==
    /\ work[w].stage = "release"
    /\ lock = Free
    /\ LET k == work[w].key
       IN  \/ row' = [row EXCEPT ![k] = IF Pending(k) THEN NoRow ELSE @]
           \/ UNCHANGED row
    /\ Ends(w)
    /\ UNCHANGED <<account, channel, lock, past>>

\* Mutant of StorePayload: the payload is built with the scope's pts of the moment.
StorePayloadOfState(w) ==
    /\ work[w].stage = "build" /\ lock = Free
    /\ LET k == work[w].key
       IN  row' = [row EXCEPT ![k] =
                     IF @ = NoRow THEN NoRow
                     ELSE [@ EXCEPT !.payload = BasePts(Scope[k])]]
    /\ Goes(w, "send")
    /\ UNCHANGED <<account, channel, lock, past>>

\* setUpdatePayload: updates the row by key, silently nothing when it is gone.
StorePayload(w) ==
    /\ work[w].stage = "build"
    /\ lock = Free
    /\ LET k == work[w].key
       IN  row' = [row EXCEPT ![k] =
                     IF @ = NoRow THEN NoRow
                     ELSE [@ EXCEPT !.payload = work[w].held.pts]]
    /\ Goes(w, "send")
    /\ UNCHANGED <<account, channel, lock, past>>

\* _send returned; reached says that some connection took the update.
Sent(w, reached) ==
    /\ work[w].stage = "send"
    /\ IF reached \/ work[w].key \in AlwaysMarked THEN Goes(w, "mark") ELSE Ends(w)
    /\ UNCHANGED <<account, channel, row, lock, past>>

Published(k) ==
    row' = [row EXCEPT ![k] =
              IF @ = NoRow THEN NoRow ELSE [@ EXCEPT !.published = TRUE]]

MarkPublished(w) ==
    /\ work[w].stage = "mark"
    /\ lock = Free
    /\ Published(work[w].key)
    /\ Ends(w)
    /\ UNCHANGED <<account, channel, lock, past>>

----------------------------------------------------------------------------
\* The rest of the session.

\* Mutants of AdvancePts: seq restarts; a count that is not positive is accepted.
AdvancePtsDropsSeq(s, date) ==
    /\ lock = Free /\ past.reserved < MaxReserved /\ s = Account
    /\ past' = [past EXCEPT !.reserved = @ + 1]
    /\ account' = [pts |-> account.pts + 1, seq |-> 0, date |-> date]
    /\ UNCHANGED <<channel, row, lock, work>>
AdvancePtsAnyCount(s, date) ==
    /\ lock = Free /\ past.reserved < MaxReserved /\ s = Account
    /\ past' = [past EXCEPT !.reserved = @ + 1]
    /\ account' = [pts |-> account.pts - 2, seq |-> account.seq, date |-> date]
    /\ UNCHANGED <<channel, row, lock, work>>

\* advancePts: pts for an RPC's own response; no row, and the date as given.
AdvancePts(s, date) ==
    /\ lock = Free
    /\ past.reserved < MaxReserved
    /\ past' = [past EXCEPT !.reserved = @ + 1]
    /\ IF s = Account
       THEN /\ account' = [pts |-> account.pts + 1, seq |-> account.seq, date |-> date]
            /\ UNCHANGED channel
       ELSE /\ channel' = [channel EXCEPT ![s] =
                             [pts |-> BasePts(s) + 1, date |-> date]]
            /\ UNCHANGED account
    /\ UNCHANGED <<row, lock, work>>

\* CLAIMED_DELIVERY_GRACE_SECONDS pass since the row was claimed.  Without
\* SlowPublish the call that claimed it has moved on by then.
GraceElapses(k) ==
    /\ Pending(k) /\ row[k].fresh
    /\ SlowPublish \/ \A w \in Workers : ~(/\ work[w].stage = "build"
                                           /\ work[w].key = k
                                           /\ work[w].claimed)
    /\ row' = [row EXCEPT ![k] = [@ EXCEPT !.fresh = FALSE]]
    /\ UNCHANGED <<account, channel, lock, work, past>>

\* Mutant of DiscardAbandoned: the grace comparison is the wrong way round.
DiscardClaimed(k) ==
    /\ lock = Free
    /\ Pending(k) /\ row[k].fresh
    /\ row' = [row EXCEPT ![k] = NoRow]
    /\ UNCHANGED <<account, channel, lock, work, past>>

\* discardAbandonedUpdateDelivery, called for a pending row by a difference.
DiscardAbandoned(k) ==
    /\ lock = Free
    /\ Pending(k) /\ ~row[k].fresh
    /\ row' = [row EXCEPT ![k] = NoRow]
    /\ UNCHANGED <<account, channel, lock, work, past>>

\* markUpdatePublished by a difference that returned the row's payload.
ReaderMarks(k) ==
    /\ lock = Free
    /\ Published(k)
    /\ UNCHANGED <<account, channel, lock, work, past>>

\* pruneExpired: the sweep deletes old rows without queueing for the lock.
PruneExpired(cutoff) ==
    /\ row' = [k \in Keys |-> IF row[k] # NoRow /\ row[k].date < cutoff
                              THEN NoRow ELSE row[k]]
    /\ UNCHANGED <<account, channel, lock, work, past>>

\* The process dies; the database keeps what was committed.
Crash ==
    /\ past.crashes < MaxCrashes
    /\ past' = [past EXCEPT !.crashes = @ + 1]
    /\ lock' = Free
    /\ work' = [w \in Workers |-> Idle]
    /\ UNCHANGED <<account, channel, row>>

----------------------------------------------------------------------------
Step(w) ==
    \/ Reclaim(w) \/ Allocate(w) \/ CreateRow(w) \/ CreateFails(w) \/ Abort(w)
    \/ Release(w) \/ StorePayload(w) \/ MarkPublished(w)

Publishing ==
    \/ \E w \in Workers, k \in Keys : Start(w, k)
    \/ \E w \in Workers : Step(w)

Upkeep ==
    \/ \E s \in Scopes, d \in RpcDates : AdvancePts(s, d)
    \/ \E k \in Keys : GraceElapses(k)
    \/ \E d \in Cutoffs : PruneExpired(d)

Next ==
    \/ Publishing
    \/ \E w \in Workers, reached \in BOOLEAN : Sent(w, reached)
    \/ Upkeep
    \/ Crash
    \/ \E k \in Keys : DiscardAbandoned(k) \/ ReaderMarks(k)

Spec == Init /\ [][Next]_vars

----------------------------------------------------------------------------
\* Properties.

(* Every variable has its type. *)
TypeOK ==
    /\ account \in [pts : Nat, seq : Nat, date : Nat]
    /\ channel \in [Channels -> [pts : Nat, date : Nat]]
    /\ row \in [Keys -> Row \cup {NoRow}]
    /\ lock \in Workers \cup {Free}
    /\ work \in [Workers -> WorkRecord]
    /\ past \in [applied : SUBSET Keys, ignored : SUBSET Keys,
                jobs : Nat, reserved : Nat, crashes : Nat]

(* The pts ranges (pts - ptsCount, pts] of two rows of a scope never overlap,
   and they lie in the order in which the rows were allocated: a client that
   walks the log by pts sees every retained update once and in order, whatever
   calls failed, restarted, were discarded or took pts without a row. *)
PtsRangesOrdered ==
    \A j, k \in Keys :
        /\ row[j] # NoRow /\ row[k] # NoRow /\ Scope[j] = Scope[k]
        /\ row[j].seq < row[k].seq
        => row[j].pts <= row[k].pts - PtsCount[k]

(* A stored payload carries the pts of the row that holds it, even when the row
   was discarded or swept and allocated again under the same key while a slow
   call was still building: the difference and the live push agree. *)
PayloadMatchesRow ==
    \A k \in Keys : row[k] # NoRow => row[k].payload \in {0, row[k].pts}

(* No two rows share a seq, and none is ahead of the account's seq. *)
SeqUnique ==
    /\ \A j, k \in Keys : (row[j] # NoRow /\ row[k] # NoRow /\ j # k)
                             => row[j].seq # row[k].seq
    /\ \A k \in Keys : row[k] # NoRow => row[k].seq <= account.seq

(* Rows are dated in the order they were allocated, so that the client's date
   cursor finds every channel that changed after it and the sweep deletes a
   prefix of a scope, never a hole. *)
DatesFollowSeq ==
    \A j, k \in Keys :
        /\ row[j] # NoRow /\ row[k] # NoRow
        /\ row[j].seq < row[k].seq
        => row[j].date <= row[k].date

(* An event that comes again after its call failed is published: releasing the
   row is what lets a retry take new pts (update-manager.ts:441).  Meant for logs
   without trimming and sweeps, where a finished row stays. *)
RetriesPublish == past.ignored = {}
=============================================================================
