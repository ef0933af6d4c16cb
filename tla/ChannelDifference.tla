-------------------------- MODULE ChannelDifference --------------------------
(***************************************************************************)
(* The devices of a session follow one channel's scope of UpdateLog: by    *)
(* pushed updates, by updates.getDifference, which names the channels that *)
(* changed since the device's date, and by updates.getChannelDifference,   *)
(* which reads the channel's state and its rows an await apart and returns *)
(* a page or tells the device to rebuild the channel.                      *)
(*                                                                         *)
(* The device is external: it applies an update that continues its channel *)
(* pts, ignores an old one, and asks for the channel's difference when an  *)
(* update leaves a gap or a difference names the channel.                  *)
(***************************************************************************)
EXTENDS DeliveryRows

CONSTANTS
    Devices,
    Chan,         \* the channel the devices follow
    FetchLimit,   \* rows getUpdateDeliveriesAfter returns (101)
    MaxPage,      \* rows a difference returns (100)
    MaxPending,   \* CHANNEL_DIFFERENCE_MAX_PENDING (1000)
    MaxDrops,     \* bound: connections lost, restarts included
    MaxAsks       \* bound: differences asked for

ASSUME ChannelConstants ==
    /\ IsFiniteSet(Keys)
    /\ Chan \in Channels
    /\ FetchLimit \in Nat \ {0} /\ MaxPage \in Nat \ {0} /\ MaxPending \in Nat
    /\ MaxDrops \in Nat /\ MaxAsks \in Nat

VARIABLES
    online,   \* devices whose connection takes pushed updates
    cpts,     \* the device's pts of the channel
    given,    \* updates of the channel the device was given
    rebuilt,  \* the pts up to which it last rebuilt the channel
    must,     \* devices that know they must ask for the channel's difference
    call,     \* the getChannelDifference call of each device
    date,     \* the device's date, as updates.getDifference last set it
    state,    \* the date a getDifference in progress answers with, or NoCall
    drops,    \* connections lost and restarts so far
    asks,     \* differences asked for so far
    stored,   \* history: the channel's updates that got a payload
    unnamed,  \* history: updates not finished or not reached by an answer that
              \* told the device it was complete
    unserved  \* devices last told to go on although they had to rebuild

deviceVars == <<online, cpts, given, rebuilt, must, call, date, state, drops, asks,
                unnamed, unserved>>
allVars == <<vars, stored, deviceVars>>

\* An answer tells the device to rebuild, to go on although it had to rebuild, or
\* is a page that continues its pts.
Kinds == {"reset", "gap", "page"}
NoCall == [stage |-> "none"]
Asking(d) == call[d] # NoCall

Update == [name : Keys, pts : Nat]

\* The channel's finished updates that take pts, as the log holds them now.
InLog == FinishedIn(Chan)

\* Updates of the channel whose pts are taken and that are not finished.
Unfinished ==
    {Named(k, row[k].pts) : k \in {j \in Keys : Scope[j] = Chan /\ Pending(j)}}
    \cup {Named(work[w].key, work[w].held.pts) :
            w \in {v \in Workers : work[v].stage = "create" /\ Scope[work[v].key] = Chan}}

\* Devices that connected before anything was published.
ChanInit ==
    /\ Init
    /\ online = Devices /\ must = {}
    /\ cpts = [d \in Devices |-> 1] /\ rebuilt = [d \in Devices |-> 1]
    /\ given = [d \in Devices |-> {}]
    /\ call = [d \in Devices |-> NoCall]
    /\ date = [d \in Devices |-> 0] /\ state = [d \in Devices |-> NoCall]
    /\ drops = 0 /\ asks = 0
    /\ stored = {}
    /\ unnamed = [d \in Devices |-> {}]
    /\ unserved = {}

----------------------------------------------------------------------------
\* Connections and pushes.

\* A device connects, or a connected one asks for the account's difference: the
\* bridge sends updatesTooLong once its session resolves, and the device asks when
\* the account's updates leave a gap.  The handler reads the update state.
Connect(d) ==
    /\ state[d] = NoCall
    /\ d \in online \/ ~Asking(d)
    /\ asks < MaxAsks
    /\ asks' = asks + 1
    /\ online' = online \cup {d}
    /\ state' = [state EXCEPT ![d] = [stage |-> "scopes", date |-> account.date]]
    /\ UNCHANGED <<vars, stored, cpts, given, rebuilt, must, call, date, drops, unnamed, unserved>>

Disconnect(d) ==
    /\ d \in online
    /\ drops < MaxDrops
    /\ drops' = drops + 1
    /\ online' = online \ {d}
    /\ state' = [state EXCEPT ![d] = NoCall]
    /\ UNCHANGED <<vars, stored, cpts, given, rebuilt, must, call, date, asks, unnamed, unserved>>

\* External: what a device does with a pushed update of the channel.
Fits(d, k, u) == u.pts = cpts[d] + PtsCount[k]
IsOld(d, u) == u.pts <= cpts[d]

\* _send hands the update to every live connection; a connection may break with
\* the update on the way.  A device that waits for a channel difference looks at
\* the update after it and asks again if it did not bring it.
Push(w) ==
    /\ Sent(w, online # {})
    /\ \E received \in SUBSET online :
         LET k == work[w].key
             u == work[w].held
             heard == IF Scope[k] = Chan /\ PtsCount[k] > 0 THEN received ELSE {}
             takes == {d \in heard : ~Asking(d) /\ Fits(d, k, u)}
         IN  /\ received # online => drops < MaxDrops
             /\ drops' = IF received # online THEN drops + 1 ELSE drops
             /\ online' = received
             /\ state' = [d \in Devices |-> IF d \in received THEN state[d] ELSE NoCall]
             /\ cpts' = [d \in Devices |-> IF d \in takes THEN u.pts ELSE cpts[d]]
             /\ given' = [d \in Devices |-> IF d \in takes THEN given[d] \cup {Named(k, u.pts)}
                                            ELSE given[d]]
             /\ must' = must \cup {d \in heard \ takes : Asking(d) \/ ~IsOld(d, u)}
    /\ UNCHANGED <<stored, rebuilt, call, date, asks, unnamed, unserved>>

----------------------------------------------------------------------------
\* updates.getDifference, as far as channels are concerned.

\* Mutant of ChangedSince: a change at the device's own date is taken as known.
ChangedAfter(since) ==
    \E k \in Keys : /\ row[k] # NoRow /\ Scope[k] = Chan /\ row[k].payload # 0
                    /\ PtsCount[k] > 0 /\ row[k].date > since

\* getChangedChannelScopes: does the log hold a finished update of the channel
\* that is not older than the device's date?
ChangedSince(since) ==
    \E k \in Keys : /\ row[k] # NoRow /\ Scope[k] = Chan /\ row[k].payload # 0
                    /\ PtsCount[k] > 0 /\ row[k].date >= since

\* The scopes are read after the state; the answer names the channel
\* (updateChannelTooLong) and carries the state's date.
NameChannels(d) ==
    /\ state[d] # NoCall
    /\ must' = IF ChangedSince(date[d]) THEN must \cup {d} ELSE must
    /\ date' = [date EXCEPT ![d] = state[d].date]
    /\ unnamed' = [unnamed EXCEPT ![d] = @ \cup Unfinished]
    /\ state' = [state EXCEPT ![d] = NoCall]
    /\ UNCHANGED <<vars, stored, online, cpts, given, rebuilt, call, drops, asks, unserved>>

----------------------------------------------------------------------------
\* updates.getChannelDifference.

\* A device asks for the channel when it must, or polls; the handler reads the
\* channel's state.
Ask(d) ==
    /\ d \in online /\ ~Asking(d)
    /\ asks < MaxAsks
    /\ asks' = asks + 1
    /\ must' = must \ {d}
    /\ call' = [call EXCEPT ![d] =
          [stage |-> "rows", from |-> cpts[d], latest |-> BasePts(Chan),
           todo |-> {}, kept |-> {}, beyond |-> {}]]
    /\ UNCHANGED <<vars, stored, online, cpts, given, rebuilt, date, state, drops, unnamed, unserved>>

FetchRows(d) ==
    /\ call[d].stage = "rows"
    /\ LET rows == RowsAfter(Chan, call[d].from)
           found == FirstOf(rows, FetchLimit)
       IN  call' = [call EXCEPT ![d].stage = "settle",
                                ![d].todo = {e \in found : ~e.ready},
                                ![d].kept = {e \in found : e.ready},
                                ![d].beyond = rows \ found]
    /\ UNCHANGED <<vars, stored, online, cpts, given, rebuilt, must, date, state,
                   drops, asks, unnamed, unserved>>

\* _withoutAbandonedDeliveries, for the next row without a payload.
Settle(d) ==
    /\ call[d].stage = "settle" /\ call[d].todo # {}
    /\ lock = Free
    /\ LET e == Head1(call[d].todo)
           k == e.key
           rest == [call[d] EXCEPT !.todo = @ \ {e}]
       IN  \/ /\ DiscardAbandoned(k)
              /\ call' = [call EXCEPT ![d] = rest]
           \/ /\ ~(Pending(k) /\ ~row[k].fresh)
              /\ call' = [call EXCEPT ![d] =
                    IF row[k] = NoRow THEN rest
                    ELSE [rest EXCEPT !.kept = @ \cup {Entry(k, e.at)}]]
              /\ UNCHANGED vars
    /\ UNCHANGED <<stored, online, cpts, given, rebuilt, must, date, state,
                   drops, asks, unnamed, unserved>>

\* The rows that take pts continue the request's pts and one another.
Contiguous(from, rows) ==
    LET counted == {e \in rows : PtsCount[e.key] > 0}
        earlier(e) == {f \in counted : Before(f, e)}
    IN  \A e \in counted :
          e.pts - PtsCount[e.key] =
              IF earlier(e) = {} THEN from ELSE Last1(earlier(e)).pts

\* Mutant of NeedsReset: the rows are not compared with the request's pts.
NeedsResetByPts(from, latest, rows) ==
    \/ from > latest
    \/ from < latest /\ (rows = {} \/ latest - from > MaxPending)

\* _channelResetReason: the device is ahead of the state; or, unless it is level
\* with it, the rows leave a gap, or there are none, or the backlog is too long.
NeedsReset(from, latest, rows) ==
    \/ from > latest
    \/ /\ from < latest
       /\ ~Contiguous(from, rows) \/ rows = {} \/ latest - from > MaxPending

\* Mutant of Decides: the page is kept as keys, without the pts they had.
DecidesKeys(d, kind, pts, page, again) ==
    call' = [call EXCEPT ![d] = [stage |-> kind, from |-> call[d].from, pts |-> pts,
                                 page |-> {e.key : e \in page},
                                 marks |-> {e.key : e \in page}, again |-> again]]

\* Mutant of Decides: an answer without rows carries no pts.
DecidesRowPts(d, kind, pts, page, again) ==
    call' = [call EXCEPT ![d] = [stage |-> kind, from |-> call[d].from,
                                 pts |-> IF page = {} THEN 0 ELSE pts,
                                 page |-> {Named(e.key, e.pts) : e \in page},
                                 marks |-> {e.key : e \in page}, again |-> again]]

\* The answer is decided; marks are the rows of it still to be marked published.
Decides(d, kind, pts, page, again) ==
    call' = [call EXCEPT ![d] = [stage |-> kind, from |-> call[d].from, pts |-> pts,
                                 page |-> {Named(e.key, e.pts) : e \in page},
                                 marks |-> {e.key : e \in page}, again |-> again]]

Settled(d) == call[d].stage = "settle" /\ call[d].todo = {}
Resets(d) == NeedsReset(call[d].from, call[d].latest, call[d].kept)

\* buildTooLong succeeds: the dialog at the state's pts.
AnswerReset(d) ==
    /\ Settled(d) /\ Resets(d)
    /\ Decides(d, "reset", call[d].latest, {}, FALSE)
    /\ UNCHANGED <<vars, stored, online, cpts, given, rebuilt, must, date, state,
                   drops, asks, unnamed, unserved>>

\* No reset is found necessary, or the dialog cannot be built: the ready rows in front of
\* the first unfinished one, up to a page; nothing, when there are none.  A page
\* that ends with an update without pts moves the device to that update's pts; it is
\* blind when the row that took this pts is gone.
AnswerPage(d) ==
    /\ Settled(d)
    /\ LET c == call[d]
           ready == ReadyPrefix(c.kept)
           page == FirstOf(ready, MaxPage)
           result == IF c.kept = {} THEN c.latest
                     ELSE IF page = {} THEN c.from ELSE Last1(page).pts
           stale == c.from = c.latest /\ ~Contiguous(c.from, c.kept)
           blind == page # {} /\ ~\E e \in page : PtsCount[e.key] > 0 /\ e.pts = result
           kind == IF Resets(d) \/ stale \/ blind THEN "gap" ELSE "page"
       IN  /\ Decides(d, kind, result, page, page # ready)
           /\ unnamed' = IF page # ready THEN unnamed
                         ELSE [unnamed EXCEPT ![d] = @ \cup Unfinished \cup
                                 {Named(e.key, e.pts) : e \in (c.kept \cup c.beyond) \ page}]
    /\ UNCHANGED <<vars, stored, online, cpts, given, rebuilt, must, date, state,
                   drops, asks, unserved>>

Answered(d) == Asking(d) /\ call[d].stage \in Kinds

\* markUpdatePublished for every row of the page, one write at a time.
MarkPage(d) ==
    /\ Answered(d)
    /\ \E k \in call[d].marks :
         /\ ReaderMarks(k)
         /\ call' = [call EXCEPT ![d].marks = @ \ {k}]
    /\ UNCHANGED <<stored, online, cpts, given, rebuilt, must, date, state,
                   drops, asks, unnamed, unserved>>

\* The device takes the answer: it moves on or rebuilds the channel, which the
\* message store, written before any pts is taken, shows up to the state's pts.
Takes(d) ==
    /\ cpts' = [cpts EXCEPT ![d] = call[d].pts]
    /\ given' = [given EXCEPT ![d] = @ \cup call[d].page]
    /\ rebuilt' = IF call[d].stage = "reset" THEN [rebuilt EXCEPT ![d] = call[d].pts]
                  ELSE rebuilt
    /\ unserved' = CASE call[d].stage = "reset" -> unserved \ {d}
                     [] call[d].stage = "gap" -> unserved \cup {d}
                     [] OTHER -> unserved
    /\ must' = IF call[d].again THEN must \cup {d} ELSE must

\* A device whose connection is gone asks again later.
Reply(d) ==
    /\ Answered(d) /\ call[d].marks = {}
    /\ IF d \in online THEN Takes(d)
       ELSE /\ must' = must \cup {d}
            /\ UNCHANGED <<cpts, given, rebuilt, unserved>>
    /\ call' = [call EXCEPT ![d] = NoCall]
    /\ UNCHANGED <<vars, stored, online, date, state, drops, asks, unnamed>>

\* The process dies with every connection and every call in progress.
Restart ==
    /\ Crash
    /\ drops < MaxDrops
    /\ drops' = drops + 1
    /\ online' = {}
    /\ must' = must \cup {d \in Devices : Asking(d)}
    /\ call' = [d \in Devices |-> NoCall] /\ state' = [d \in Devices |-> NoCall]
    /\ UNCHANGED <<stored, cpts, given, rebuilt, date, asks, unnamed, unserved>>

----------------------------------------------------------------------------
\* A step of the log; the history keeps every update that got a payload.
Logs ==
    /\ Publishing \/ Upkeep
    /\ stored' = stored \cup InLog'
    /\ UNCHANGED deviceVars

ChanNext ==
    \/ Logs
    \/ \E w \in Workers : Push(w)
    \/ \E d \in Devices :
         \/ Connect(d) \/ Disconnect(d) \/ NameChannels(d)
         \/ Ask(d) \/ FetchRows(d) \/ Settle(d) \/ AnswerReset(d) \/ AnswerPage(d)
         \/ MarkPage(d) \/ Reply(d)
    \/ Restart

ChanSpec == ChanInit /\ [][ChanNext]_allVars

----------------------------------------------------------------------------
\* Properties.

(* Every device variable has its type. *)
ChanTypeOK ==
    /\ TypeOK
    /\ online \subseteq Devices /\ must \subseteq Devices /\ unserved \subseteq Devices
    /\ cpts \in [Devices -> Nat] /\ rebuilt \in [Devices -> Nat]
    /\ date \in [Devices -> Nat]
    /\ stored \subseteq Update
    /\ given \in [Devices -> SUBSET Update] /\ unnamed \in [Devices -> SUBSET Update]
    /\ DOMAIN call = Devices /\ DOMAIN state = Devices
    /\ drops \in Nat /\ asks \in Nat

Log == INSTANCE ChannelStream WITH
         Names <- Keys, added <- stored, at <- cpts

(* The log, the pushes and the two differences keep what ChannelStream promises
   the devices (update-manager.ts:1190): no device moves past an update that the
   log had, has or is still to finish, unless it is told to rebuild.  A device is
   told to go on only when its dialog cannot be built, when it was level with the
   state that the handler read before the rows got a gap, or when the page ends
   with an update without pts whose predecessor is gone: _channelResetReason skips
   such rows and does not compare the last pts it saw with theirs. *)
KeepsStream == Log!Stream

(* No device is taken back: an answer is read, settled and decided an await apart from
   its request, drops abandoned rows and looks again at rows that a repetition
   reserved anew (update-manager.ts:1204), but its pts is never below the device's. *)
NeverBack == [][\A d \in Devices : cpts[d] <= cpts'[d]]_allVars

\* What the device is about to take was not given to it before; updates without
\* pts may be.
NewTo(d, u) == PtsCount[u.name] > 0 => u \notin given[d]

(* A device that was not told to go on across a gap is given no update twice: neither
   an answer that was decided while pushes went on, nor a push that fits a device
   after the answer, brings an update that it has (update-manager.ts:1190). *)
GivenOnce ==
    \A d \in Devices \ unserved :
        /\ Answered(d) => \A u \in call[d].page : NewTo(d, u)
        /\ ~Asking(d) => \A w \in Workers :
              work[w].stage = "send" /\ Scope[work[w].key] = Chan
                /\ Fits(d, work[w].key, work[w].held)
                => NewTo(d, Named(work[w].key, work[w].held.pts))

(* updates.getDifference, which moves the device's date, leaves no finished
   update of the channel unknown: the device is at its pts, must ask or is asking, or an
   answer was completed while the update was still unfinished or out of reach
   (getChangedChannelScopes counts finished rows only). *)
DateLeavesNone ==
    [][\A d \in Devices : NameChannels(d) =>
          \A u \in InLog : \/ u.pts <= cpts[d] \/ d \in must' \/ Asking(d)
                           \/ u \in unnamed[d]]_allVars
=============================================================================
