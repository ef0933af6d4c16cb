# TLA+ models of crossgram

crossgram is a Telegram server (MTProto) whose accounts live on other chat
platforms (QQ, Discord, Lark, Matrix, ...). A platform adapter reports events
of a platform session; the bridge stores them, renders them as Telegram
updates and delivers those to every client device of the session: at once over
live connections, later from a log of deliveries. This directory holds models
of that path and of three components beside it (the queue of platform events,
the calls of an RPC session, scheduled messages), the runs that check them, and
proofs.

Paths below are relative to `src/packages/` unless they start with `docs/`.

## Parts of the system

| Part | Code | State | Operations | Talks to |
| --- | --- | --- | --- | --- |
| Update log | `bridge/src/message-store.ts` 1862-2030, `update-store*/src` | account `pts, seq, date`; channel `pts, date`; delivery rows `eventKey, scope, pts, ptsCount, seq, date, published, claimedAt, payload` | `prepareUpdateDelivery`, `setUpdatePayload`, `markUpdatePublished`, `discardPending...`, `discardAbandoned...`, `advancePts`, trim and sweep | database; every publisher and reader |
| Update publication | `bridge/src/update-manager.ts` 178-985 | none between calls | `publish` (message, edit, delete, reaction, read), `publishMentionRead`, `publishPeerBlocked` | update log; `sendUpdateToAuthKey` |
| Account difference | `update-manager.ts` 998-1186 | none between calls | `getState`, `getDifference` | update log; devices |
| Channel difference | `update-manager.ts` 1188-1290 | none between calls | `getChannelDifference`, `_channelResetReason`, changed scopes | update log; devices |
| Platform event queue | `bridge/src/platform-manager.ts` | subscription and promise tail per session | `ensure`, `_enqueue`, `_ingestEvent`, `stopPlatform`, `stop` | adapters; message store; publication |
| Message store | `bridge/src/message-store.ts` | messages, projections, ids, users, requests; `_write` queue | `ingest`, `deleteMessages`, `setReactions`, `markRead`, id allocation | database |
| Message ids | `bridge/src/message-id.ts`, `docs/MESSAGE_ID_ALLOCATION.zh.md` | used ids per account and channel | allocate near a timestamp, split a range | message store |
| Send echoes | `bridge/src/send-echoes.ts` | outstanding sends | register, match, expire | publication |
| RPC session | `mtproto/src/session`, `mtproto/src/service.ts`, `mtproto/src/transport` | authorization, message ids, acknowledgements, in-flight calls, pending updates | handshake, dispatch, replay, `sendUpdate` | clients; RPC handlers |
| Scheduled messages | `bridge/src/scheduled-messages.ts`, `dialogs.ts` 1500-1665 | state table; timer and sweep of the dispatcher | create, delete, send now, `sweep`, `start`, `stop` | database; adapters; publication |
| Uploads, history backfill, calls | `bridge/src/upload-manager.ts`, `history-sync.ts`, `voice/`, `history-backfill/src` | rows and timers of their own | see there | database, adapters |
| RPC handlers, adapters, bot API, side services | `bridge/src/dialogs.ts` and others, `platform-*/src`, `telegram-bot-api/src`, ... | mostly none | request and response, conversion | |

What is hard here:

* **Two clocks of a reader.** A difference reads the counters and the rows an
  await apart, outside the write queue, while writers commit the counters
  before the row.
* **Unfinished rows.** A row exists before its payload. Readers must neither
  jump it nor wait for it for ever: a claim (`claimedAt`) with 30 seconds of
  grace decides who gives way.
* **Failure at every await.** A publishing call can throw after its pts are
  spent; the row is released, or not (RPC handlers), or the release fails, or
  the process dies. Then the event comes again, or not.
* **Three writers of pts.** Events, RPC handlers that publish, and RPC handlers
  that only reserve (`advancePts`) move the same counters; channel counters
  start from the account's.
* **Lossy pushes.** A push reaches the connections that are up; devices detect
  gaps by pts and seq and ask for the difference.

What makes each part correct:

* update log: pts ranges of a scope disjoint and in order of reservation; seqs
  unique; a payload belongs to the row that holds it; dates in order;
* publication: a failed event can be published by a repetition; no reservation
  blocks the log for ever;
* account difference: no device moves past an update it was not given; every
  finished update arrives in the end; a late mark never hits another reservation;
* channel difference: a channel is followed without holes or the client is told
  to rebuild it, and only then;
* event queue: events of a session are committed and published one at a time
  and in order, also across stop and ensure;
* message ids: unique, ordered as timestamps, inside the bounds;
* RPC session: a call repeated by the client runs once and is answered; calls
  run after the ones they were sent after; slots are neither lost nor doubled;
* scheduled messages: a row has one sender and is sent once; a row deleted before
  anybody took it is not sent; a pending row is sent, parked or deleted in the end.

## Modules

`UpdateLog` models the write side. One variable per table or queue: `account`
(`mtproto_update_state`), `channel` (`mtproto_channel_update_state`), `row`
(delivery rows by event key), `lock` (the `_write` queue when one callback spans
several steps), `work` (what each publishing call is doing), `past` (the events
the message store has taken in, and counters that the bounds cap).

A publishing call goes through the stages *reserve, create, build, send, mark*:

| Action | Code |
| --- | --- |
| `Start` | the lookup at the head of `_publishMessage`, `_publishDelete`, `_publishReactions`, `_publishRead`; RPC handlers skip it |
| `Reclaim`, `Allocate` | the two branches of `prepareUpdateDelivery`; the second commits its transaction |
| `CreateRow`, `CreateFails` | the insert and trim that follow in the same `_write` callback |
| `StorePayload` | `setUpdatePayload`, after rendering |
| `Sent`, `MarkPublished` | `_send`, `markUpdatePublished` |
| `Abort`, `Release` | a throwing await; `_releaseAbandonedDelivery` (event queue only) |
| `AdvancePts` | `advancePts`, called by `_reservePts` of the RPC handlers |
| `GraceElapses`, `DiscardAbandoned`, `ReaderMarks`, `PruneExpired`, `Crash` | the claim's clock; what readers and the sweep do to rows; a restart |

A `_write` callback is one step, except that the commit of pts and the insert
of the row are two, the lock being held in between: readers do not take the
lock. Rendering, users, chats and entities are abstracted to the pts the payload
was built with. The store trims strictly to `Retention` (the memory store, and
the database store below 2048 rows; larger ones keep up to 512 rows more).

`Difference` extends `UpdateLog` with devices: `online`, `cursor` (pts and seq),
`seen` (keys it was given), `behind`, `diff` (the progress of its
`getDifference` call) and the history variables `hidden` and `swept`. The handler's steps are
`Ask` (read the state), `FetchRows`, `Settle` (one pending row of
`_withoutAbandonedDeliveries`), `AwaitPending` (wait and read again, once),
`BuildPage`, `MarkPage` (one write per row) and `Reply`. `Push` conjoins
`Sent` of the publisher with what every connection makes of it. Row order is
kept as the list order of the fetch, so that a row reserved anew meanwhile keeps
its old place. The device is external: it applies what continues its pts and
seq, ignores old updates, asks for the difference on a gap, after connecting
(`updatesTooLong`) and from time to time.

`DeliveryRows` holds what both differences read the log with: entries with their
place in the list, pages, and the ready prefix in front of an unfinished row.

`ChannelDifference` extends `UpdateLog` with the devices that follow one channel:
`cpts` (the device's pts of the channel), `given`, `rebuilt`, `must` (it knows it
has to ask), `call` (its `getChannelDifference`), `date` and `state` (its
`getDifference`, as far as channels go). `Ask` reads the channel state,
`FetchRows` the rows, `Settle` drops abandoned ones, `AnswerReset` and
`AnswerPage` are the two outcomes of `_channelResetReason` with `buildTooLong`,
`MarkPage` and `Reply` end the call. `Connect` and `NameChannels` are
`getDifference`: the state is read, then `getChangedChannelScopes`, and the answer
carries the date of the former. `Push` conjoins `Sent` with what each connection
makes of it; a connection may break with the update on the way. The device is
external: it applies what continues its channel pts, asks when an update leaves
a gap, keeps updates that arrive while it asks until the answer is there.

`ChannelStream` is the abstract specification: updates are added to a log,
devices follow it (several at a time when an update is pushed to them), rebuild,
or are told to go on although they had to rebuild.
`ChannelDifference` implements it with `stored` (updates that got a payload) for
its log and the device variables for themselves. This is the property
`KeepsStream`: the run `channel` checks it on one device, and `ChannelProofs`
proves it for any number.

`EventQueue` is `PlatformSubscriptionManager` for one session. A subscription
goes through *opening, open, stopping, closing, closed* or *failed*; `entry` is
the one in `_subscriptions`; an event is *new, waiting* (for `ensure`), *queued*
behind the tail it found (`prev`), *running, settled, done*. `Forget` is the
`finally` handler that resets the tail. It is the worker `EventQueue` of
`UpdateLog`: `InOrder` and `OverlapOnlyStopping` are what `UpdateLog` assumes when
it lets one call of a session publish at a time. That assumption breaks while
an old subscription is being disposed: then two events of a session can run at
once, which `UpdateLog` does not include.

`RpcSession` is one auth key on its connections. A delivery is a message on a
connection and goes through *ordered* (behind the authorization transitions
before it), *queued* (for a slot), *wait* (in the slot, for its dependencies),
*run*, *reply*, *done*; or *join*, when another delivery of the same message is
being executed. `replay` is the reply cache, `latest` the registry of completions,
`queue` and `active` the slots. Callbacks of settled promises run before the next
frame, handler or close (`Quiet`): this is the microtask order of the event loop,
and closing a connection and disposing of its session is one step.

`ScheduledMessages` is the state table of scheduled messages (`row`), any number
of sweeps, send-now calls and deletes working on it (`stage`, `todo`, `msg`,
`found`), the dispatcher (`running`, `halted`), a clock and its leases. `set()` of
the database plugin SELECTs the rows that meet its condition and then UPDATEs
them (`scheduled-messages.ts` 146), so each conditional write is two actions with
others in between: `Claim` and `Take` for `claim` and `claimNow`, `FindDeleted` and
`Write` for `cancel`, `Start` and `Write` for `requeueExpired`. `serializeClaim` lets
one claim at a time be between the two (`Unclaimed`; the code serves waiting claims
first come, first served, the model in any order); deletes and requeues take no lock.
`markSent`, `reschedule` and `release` select by id alone, so theirs is one step. A sweep claims with the
time at which it started (`at`). A send is two steps, accepted by the platform
(`Deliver`) and published (`Sent`), so that it can fail before or between them.

`MC...` modules give the constants for the runs; `UpdateLogProofs`, `LogGrowth`,
`DifferenceProofs`, `ChannelProofs`, `ChannelStream`, `ScheduledProofs`, `QueueProofs`
and `RpcProofs` hold the proofs.

## Runs

| Run | Question | Result |
| --- | --- | --- |
| `update_log` | Do ranges, seqs and payloads stay consistent under two publishers, reservations by RPCs, trimming, a sweep, a slow publisher and a restart? | holds |
| `difference` | Does a device that reads one row per page skip anything it could have been given, or is it taken back? | never |
| `difference_live` | Does every finished update reach the device through a restart and a lost connection? | holds under fairness |
| `channel` | Do pushes and both differences keep a channel's devices on the abstract stream, never take them back, give nothing twice, and does the date cursor leave no changed channel behind? | holds |
| `event_queue` | Do events of a session run in order and settle while its platform comes and goes? | holds, liveness under fairness |
| `rpc` | Do resent calls on two connections run once, in order, and without a circular wait? | holds |
| `scheduled` | Is a scheduled message sent by one sender, once, and not after it was deleted, though deletes and requeues cross claims? | holds, liveness under fairness |
| `insert_window` | Does a device ever move past an update it was not given? | **yes**, see below |
| `fetch_limit` | ... because a discarded row makes a truncated fetch look complete? | **yes** |
| `zero_count` | Is a reaction of a direct chat in the difference of a device that was offline? | **no** |
| `retry` | Does a repetition publish an event whose first publication failed? | **not** edits, deletes, reactions |
| `rpc_dates` | Are rows dated in order of reservation? | **no** |

The properties of the passing runs: `PtsRangesOrdered`, `PayloadMatchesRow`,
`SeqUnique` (log); `SkipsOnlyHidden`, `PublishedHasPayload`, `ReachesDevices`
(difference). `SkipsOnlyHidden` is the exact form of "no device skips an
update": it excuses a row only when the history variable shows that the
difference which moved the device past it could not return it, for one of three
reasons: not inserted yet, beyond the fetch limit, or jumped by a slice. The
first two have a run that shows them; the third was found by TLC as a
counterexample of the property before it was named: a row is released and its
event repeated between the fetch and `Settle`, so that the entry has new pts at its
old place in the list, and a slice that ends with it carries the device over
whatever was reserved before it, after the fetch included (that takes a fourth
call, one more than `difference` starts; the exemption covers it).

`PublishedHasPayload` excuses a key whose finished row was trimmed or swept
(`swept`): `markUpdatePublished` goes by the event's key, so a difference that
returned the row before it was deleted, or a publisher that is late, marks the
unfinished row that a repetition reserved since, and one more repetition would then
take the event for published. TLC finds this with the sweep in `difference`.

`NeverBack` (difference, channel) is not a matter of one comparison: between the
request and the answer rows are dropped, reserved anew behind others, or appended,
and the pts of an answer is that of its last row or of a state read before them.
The account's `NeverBack` is about pts; the device's seq may step back by one
in a slice that stops before an unfinished row, and the device takes it for granted.
`GivenOnce` (channel): what an answer or a fitting push is about to bring is new
to the device, unless it was told to go on across a gap before (`unserved`).

The properties of the other components excuse what the code lets happen, each by
a history variable that names it:

* `KeepsStream` (channel): a device is told to go on although it had to rebuild
  (`gap`) if the dialog cannot be built (`channelDifferenceTooLong` finds none,
  `update-manager.ts:1244`), or if the device was level with the state when the handler read it and rows were
  appended and trimmed before the handler read them: `_channelResetReason`
  compares pts first (1203) and skips the gap check; or if the page is blind: its
  last row takes no pts (a read of the channel, 573) and the row that took the pts
  it carries was swept or trimmed. `_channelResetReason` skips rows without pts
  (1206) and does not compare the last counted pts with theirs, so the device is
  moved over the lost update without a word, which the comment at 1188-1195 says must
  not happen. Without the excuse TLC finds this in seventeen states: a message
  and a read of it are published while the device is away, the sweep deletes the
  message, whose date is older, and the difference returns the read with the pts
  of the message.
  Every other page is followed without a hole.
* `DateLeavesNone` (channel): an update that was unfinished or beyond the page
  when an answer said it was complete (`unnamed`) is not among the changed
  scopes; the push or the next gap has to bring it. The property is about
  updates whose date the account date follows; that an RPC may take the date back is
  the run `rpc_dates`.
* `OverlapOnlyStopping` (event_queue): events overlap while one of their
  subscriptions is stopping, closing or failed. `ensure` does not wait for the
  disposal of its predecessor.
* `ExecutedOnce` (rpc): a handler runs again if the reply was dropped from the
  cache (`Prune`) or could not be serialized (`ReplyFails`).
* `AfterDependencies` (rpc): a call counts as completed when its connection
  closed before it ran (`dropped`): `complete` is called in any case
  (`server-session.ts` 860-890), and a call sent after it then runs.
* `EndsAnswered` (rpc): a delivery that joined the execution of another
  connection ends without an answer when that connection closes before the
  handler ran (`silenced`, 1442). The client has to send it again.
* `OneSender`, `DeliveredOnce` (scheduled): a row whose lease ran out is taken
  from a sender that may be alive; a send that fails after the platform accepted
  the message is repeated.
* `CancelledStays` (scheduled): a delete is final only if nobody was sending the
  row and nobody had SELECTed it to write it (`Overtaking`). `markSent`,
  `reschedule` and `release` overwrite *cancelled*. So do the UPDATEs of a claim
  and of a requeue that found the row first: the delete writes *cancelled*,
  `deleteScheduledMessages` reports the row as removed, and the claim then writes
  *sending* and the message goes out, or the requeue writes *pending* and a later
  sweep sends it. The comment on `claim` calls the conditional UPDATE a portable
  lock (`scheduled-messages.ts` 137); the one inside it (146) says that `set()` is not
  one, and the lock that makes up for it covers claims only, not `cancel` (232-244)
  or `requeueExpired` (247-255). Without `~ Overtaking` in `Write` TLC finds the
  first order in eight states: `Create`, `FindDeleted`, `CallStart`, `CallNext`,
  `Claim`, `Write`, `Take`. A delete can also find the row *sending* and
  write *cancelled* over *sent*, and it then reports a sent message as removed.
* `Settles` (scheduled): a row whose sender died stays *sending* until the
  dispatcher is started again with the lease run out: `due` lists pending
  rows only, so the lease branch of `claim` is reached by send-now calls and by sweeps that
  listed the row before it was taken.

### What the violations show

* `insert_window`: `Allocate`, then `Ask` and `FetchRows`, then `CreateRow`. The
  answer carries the new pts without the row. A lost push is then final.
* `fetch_limit`: 101 rows are fetched to see whether 100 are all; abandoned rows
  are dropped before the comparison. The model has 2 and 1.
* `zero_count`: the row's pts equals the pts the device already holds, and
  `getAfter` is strict.
* `retry`: after `Release` the repetition finds no row and `changed = false`.
* `rpc_dates`: `advancePts` writes the date it is given, without the `max` that
  `prepareUpdateDelivery` takes.

### Bounds

`MaxJobs` (calls started) is 3 in `update_log` and `difference`, 2 in
`difference_live`: a failure, its repetition and an update behind them need
three calls; blocking needs one reservation and one update behind it. Two
workers are the code's shape, one event queue per session and an RPC beside it.
`MaxReserved`, `MaxCrashes`, `MaxDrops` are 0 or 1: a second reservation or
crash meets the same states. `Retention` 2 with three channel keys makes the
trim happen; `Cutoffs` let the sweep delete the oldest row (in `difference` the
first message of `a1`, while nothing newer is reserved). `FetchLimit` 2 and
`MaxPage` 1 keep the code's difference of one (101 and 100). One device is
enough for what a device sees; two readers of one log are not checked.

`channel`: two messages of the channel and a read of it, which takes no pts; two of
the three are published, so that both lie in one fetch of two rows and the page
holds one of them, or the sweep has deleted the first (the trim, which would delete the same
row, happens in `update_log` only); three differences, a lost
connection or a restart; two job starts, no RPC reservation (`MaxReserved` 0).
The backlog branch of `_channelResetReason`, like the other two, ends in a reset
and is not reached: `MaxPending` is 2. `event_queue`: three events make
a queue with something in front and behind; one unregistration and one failing
subscription give up to three subscriptions. `rpc`: two connections, one slot, one queue place,
so that the second call waits and the third is refused; two of three messages in
flight at once; a pruned reply and an unbuildable one. A client keeps the order of
a message and those it depends on on each connection; a dependency may be lost or
late on another connection (`MSG_WAIT_FAILED`). Transitions depend on nothing. With other orders (a
transition that waits for a later call, sixteen calls on a connection before the
call they depend on) the code itself would wait for ever, and no client does
this. The connections are interchangeable, hence the symmetry. `scheduled`: two
rows due at times 0 and 1, of which users send at once and delete the first (`Touched`;
what two rows do to each other goes through the order and the batch of the sweep
and through the lock of claims); a clock to 1, a lease that ends with the unit of time it
began in, one retry after 1: leases run out under a live sender, and a retry falls
inside the clock. Two faults, so that a row is parked after its retry and sent at
once from there, and one stop or crash. One sweep, one call and one delete are in
flight; two sweeps at once are covered by the theorems only.

To stay small, `difference` has no restart (`difference_live` and `update_log`
have one), and slow publishers are checked by `update_log` only. The runs `retry` and the like are kept to one or two keys so that their
traces are short. Deadlock is not checked: after the bounds, a session without
events rightly rests.

### Fairness

`FairSpec` assumes weak fairness of each publisher's next step, of each
device's `Connect`, `Poll`, `Ask` and reading steps, and of the clock
(`GraceElapses`). Awaits settle because the database and platform calls return
or throw, and `_write` serves callers first come, first served. Nothing is
assumed of failures, crashes, drops or new events. That a device reconnects and
polls is its protocol; without it nothing can reach it.

`SchedFairness`: sweeps start again (the fallback interval of two minutes), every
step of a sweep or call settles, a stopped dispatcher is replaced and its requeue
written, time passes. Nothing is assumed of deletes.
`Spec` of `EventQueue`: subscribing, unsubscribing and events settle, and
continuations of settled promises run. Nothing is assumed of arrivals,
`ensure`, registration or failures. `RpcSpec` and `ChanSpec` have no
fairness: their properties are safety; `NothingStuck` states the absence of
circular waits as an invariant, over states in which nothing outside is due.

## Proofs

`UpdateLogProofs` proves, for all values of the constants that satisfy
`ConstantTypes` and `DistinctNames`:

* `TypeCorrect`: `Spec => []TypeOK`. Inductive with `HeldRow`: a call past
  *reserve* (creating, building, sending or marking) holds a row and not `NoRow`.
* `LogInvariant`, and from it `PtsRangesAreOrdered` and `SeqsAreUnique`. The
  ranges of rows alone are not inductive: a reservation is in the counters
  before it is in the rows. `LogInv` adds that the lock belongs to the call in
  *create*, that its held row is newer than every row and at or below its
  scope's pts, and that every row lies at or below the pts of its scope and the
  account's seq. `AllocateKeeps`, `CreateKeeps` and `AdvanceKeeps` are the three
  steps that could disturb it; every other step only forgets rows or changes
  fields the invariant does not read (`KeepsRows`).
* `PayloadsMatchRows`, under `OneWorkerPerKey` (no key belongs to two workers):
  a call in *build* whose key has a row holds that row's pts. A reader may
  discard the row, but only its own worker can reserve the key again. Events satisfy the hypothesis
  because one queue publishes them; two concurrent RPCs that read the same
  mentions do not, which is listed as a hazard.

`ScheduledProofs` proves, under `SchedAssumption`:

* `SchedTypeCorrect`: `SchedSpec => []SchedTypeOK`.
* `SendersExcluded` (`OneSender`), `SentOnce` (`DeliveredOnce`) and `DeletedStays`
  (`CancelledStays`), from one invariant, `Safe`. One claim at a time is past its SELECT
  (`OneClaim`). Of a row whose lease was never found run out: while somebody sends
  it, it is *sending* or *cancelled*, so no SELECT of a claim accepts it (`Guarded`);
  somebody who has SELECTed it is not in the company of a sender, and it was not
  delivered (`Free`), which is what the blind UPDATE of the claim needs: in between
  only deletes write such a row, for a requeue writes only rows whose lease was
  found run out (`Requeues`). Once delivered and not repeated, a row is held in
  *publish* or no longer claimable (`Once`). A withdrawn row is *cancelled*, nobody
  holds it or is about to write it, and no SELECT finds it again (`Gone`).

`ChannelStream` proves of the abstract specification that a follower has been
given, or has rebuilt past, every update it has passed (`StreamFollowed`).

`LogGrowth` says how any step of `UpdateLog` changes
the updates of one scope (`LogGrows`: at most one new reservation, behind all
others, and at most one finished), that the pts ranges of what rows and calls
stand for stay disjoint (`SeparateKept`) and numbered from one (`NumberedKept`),
where rows come from (`RowOrigins`: they were there before or a call was inserting
them; a reservation counts on from its scope's pts, so a key that is reserved anew
moves behind everything then reserved, `ReservedStays`), and what lists of rows
and their pages are. Both differences rest on it. Its theorem is

* `RowsAreDated` (`DatesFollowSeq`), under the hypothesis `DatesForward` that no step
  takes the account's date back. The run `rpc_dates` shows that an RPC which
  reserves pts with its own date breaks both; the theorem says that nothing else
  does. Inductive with `DatesInv`: the account is dated after every row, and the
  row that a call is about to insert after those in the log.

`DifferenceProofs` proves, under `DifferenceConstants` (finitely many keys, positive
page and fetch limits) and the assumptions of `UpdateLog`, for any number of devices
and calls:

* `DiffTypeCorrect` (`DiffTypeOK`) and `OnlyHiddenSkipped` (`SkipsOnlyHidden`).
  The property alone is not inductive, since an unfinished row, or one about to be
  inserted, may finish behind a device. `CaughtUp` therefore says the same of all
  updates that stand (`Standing`), with or without a payload: what lies at or below a device's pts was given
  to it or is named in `hidden`. Rows reserved later lie behind the account's pts
  and thus behind every device.
* The devices' calls carry it through the handler. `Fetched`: what stands behind the
  request's pts has an entry at its place, is hidden, or was reserved after the
  state and all fetched rows (`Late`). `Settle` keeps this because the row it drops is
  gone and no insert is under way while it holds the write lock. `Answers`: the
  page holds what the answer moves the device over. `BuildKeeps` is the step
  between them: a full answer returns every entry and moves the device to a state
  read before anything late; a slice returns every entry before its last one
  (`PageIsPrefix`), and the pts of the last one are below anything late unless the
  row was reserved anew, which is the reason *reordered*.
* For a push, `PushKeeps`: disjoint ranges leave nothing between the device's pts
  and an update that fits.
* `PtsNeverBack` (`NeverBack`). `Onwards`: what a call has read lies at or behind the
  device's pts, what it looks at again is at its place or reserved behind it
  (`ReservedAt`), and the answer lies at or behind the device's pts when it is decided. That the
  device does not move while it asks is part of the call's invariant.
* `PublishedIsFinished` (`PublishedHasPayload`), under `OneWorkerPerKey`: what a
  publisher sends or a call is about to mark has its payload or had it once
  (`Finished`), and that is never undone (`FinishedStays`); only trimming and the
  sweep drop a finished row, and then the history has its key.

`ChannelProofs` proves, under `ChannelConstants` (finitely many keys, positive
page and fetch limits) and the assumptions of `UpdateLog`, for any number of devices and calls:

* `ChanTypeCorrect` (`ChanTypeOK`), and `StreamKept`: `ChanSpec => KeepsStream`,
  the refinement of `ChannelStream`; `DevicesFollow` carries `StreamFollowed` over
  to the devices.
* The log's side is `KnownInv`: all updates that take pts and that a row or a call
  stands for, or that ever got a payload (`Known`), have disjoint pts ranges at or below the
  channel's pts, and what is still without a payload (`Open`) never had one and is
  not being pushed. It is kept because of `LogGrows`.
* The devices' side is `Behind`: a follower's pts lies below every open update,
  unless it rebuilt past it; so `Add` of the stream never happens behind a
  follower (`LogsAdd`). It is not inductive alone: `CallInv` says that what a call keeps
  of ready rows is remembered by the log (`Keeps`), and that a decided page holds
  every update it moves the device over while no open one lies there (`Covers`).
* `PageCovers` is why a page whose rows continue one another has no hole: of its
  counted rows that reach a given pts take the least; the row in front of it is on
  the page too (`PageIsPrefix`) and lies below that pts, so the pts falls in the
  row's own range. It rests on `LeastOf` (sets of naturals have a least element)
  and on `LastOf` and `HeadOf` for the list order.
* For a push, `PushMoves`: the update a device takes starts at the device's pts, and disjoint
  ranges leave nothing in between.
* `Places` is what a handler knows of its rows while the log goes on: each was read
  behind the request's pts and at or below the state, and one that was kept with
  other pts than it was read with was reserved anew behind all of them.
* `InPlace` follows: if the kept rows continue the request's pts, none was reserved
  anew. The first that was would have to continue a row in front of it, yet it counts
  from behind its own old place.
* `ChannelNeverBack` (`NeverBack`) and `NoneTwice` (`GivenOnce`), from `Steady`:
  a follower has nothing from behind its pts; what an answer brings lies behind its pts and, on a page,
  at or below the pts the page moves it to, which is `InPlace`. A reset moves it to
  the state, below which lies everything it was given.
* `NoneIsLeft` (`DateLeavesNone`), under `DatesForward`. The property speaks of the
  step that moves the date; what makes it true is `OldTold`: every finished
  update dated before the device's date is passed, is carried by the call in
  progress, is known to be missing (`must`), or was unfinished or out of reach when an
  answer said it was complete. The hypothesis is needed: with one RPC reservation dated
  before the others TLC violates `DateLeavesNone` in fourteen states, and the
  run `channel` therefore has none.

`QueueProofs` proves, under `QueueConstants`:

* `QueueTypeCorrect`: types; with `Numbered`, a bound on the subscriptions used by
  stops and failures, so that `ensure` always has a fresh one.
* `EventsInOrder` (`InOrder`) and `ClosedAreDrained` (`DrainedBeforeClosed`). The
  order of events is not inductive by itself: the tail is reset when the event at it has
  settled, so `Tails` says that what a tail stands for (a newest event, or
  nothing) settles last on its subscription, `Chain` says the same of what an
  event found in front of it, and `Closing` of what a disposer waits for.
* `OnlyStoppingOverlap` (`OverlapOnlyStopping`), from these and `OneEntry`: the
  entry of the map is the one subscription that is starting or live.

`RpcProofs` proves, under `RpcAssumption` (finitely many connections and messages,
at least one slot, no message sent after itself), one inductive invariant `RpcInv` of ten named parts:

* `RpcTypeCorrect` (`RpcTypeOK`) and `SlotsAreAccounted` (`SlotsAccounted`): the
  counter of a live connection is the number of executions that hold a slot of
  it. Cardinalities are followed across a step by `SlotPassed`: a freed slot is
  either handed to the first waiter, which keeps the count, or counted down.
  `Lines` and `Queues` say that who waits is in the line and nobody is twice.
* `HandlersRunOnce` (`ExecutedOnce`) and `OneExecutionEach` (`OneExecution`): a
  message whose reply was not lost ran at most once, and not at all while the
  cache has no entry for it or its execution has not come to the handler
  (`RunsBounded`); at most one delivery of a message holds
  the execution (`Owners`), and the others join it.
* `DependenciesFirst` (`AfterDependencies`): while a call waits, each of its
  dependencies has ended or is one of the deliveries it awaits (`Ordered`), and
  what is over has ended (`Ended`); what has ended only grows.
* `DeliveriesAnswered` (`EndsAnswered`): a delivery of an open connection that is
  done got an answer, or was silenced by the end of the execution it joined.

* `NothingWaitsForItself` (`NothingStuck`), under the hypothesis that the client's
  messages can be numbered (`Numbers`) so that on every connection they are sent in the
  order of their numbers and after what they depend on (`SendsInOrder`). Message ids, which
  grow with the clock, are such numbers for a client that sends each message once on
  a connection. `OrderInv` says that the line of a connection, its queue and
  what holds a slot keep that order; so whoever waits, waits for somebody with a smaller number or for the same
  message's execution elsewhere, and the one with the smallest number in progress waits
  for nobody. Without the hypothesis the code does wait for ever: two connections
  with one slot each, on each of which a call precedes what the call on the other was
  sent after, are stuck in fourteen states once an authorization transition has held back
  one of the lines. The run `rpc` admits orders that the theorem does not
  (a dependency late on another connection), for three messages; the theorem admits
  any number.

Only model-checked are the liveness properties (`ReachesDevices`, `EventsSettle`,
`Settles`), which like facts about `ENABLED` are outside the prover. Every other
property of a passing run is proved, under the assumptions named above.

## Plan

Done: the update log with both differences, the abstract channel stream, the
event queue, the RPC session, scheduled messages, and the proofs above. Left, in
this order:

1. The composition of `EventQueue` with `UpdateLog` across a disposal, when two
   queues of a session publish at once.
2. The allocation of message ids against a reference definition; uploads;
   history backfill.

## Not modelled

Message, dialog, media and user tables; the row-count cache of the database
store; the memory store's loss of rows at a restart; updates sent without pts
(drafts, notifications, calls); the mirrored channel messages of the account
difference and the date of its slices; `pts_total_limit`, `qts` (constant 0);
several connections of one device and pushes held back for a client layer;
acknowledgements, message-id checks, `bindTempAuthKey`, `rpc_drop_answer` and read
pausing of an RPC session, and the sizes of its caches (replies leave by `Prune`,
completed ids never do); the timer arithmetic of the dispatcher and the
editing of scheduled messages; send echoes, message ids, uploads, backfill;
encryption, transports, adapters, voice,
bots and the web interface. `PROJECT.json` names the reason for each part.
