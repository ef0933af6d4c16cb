----------------------------- MODULE Difference -----------------------------
(***************************************************************************)
(* The devices of a session follow the account scope of UpdateLog: by the  *)
(* updates UpdateManager._send pushes over live connections, and by        *)
(* updates.getDifference, whose handler reads the update state and the     *)
(* rows outside the write queue, an await apart.                           *)
(*                                                                         *)
(* The device itself is external: it follows the protocol's rule that an   *)
(* update applies when it continues the local pts and seq, is ignored when *)
(* it is old, and asks for the difference when it leaves a gap.            *)
(***************************************************************************)
EXTENDS DeliveryRows

CONSTANTS
    Devices,
    FetchLimit,   \* rows getUpdateDeliveriesAfter returns (101)
    MaxPage,      \* rows a difference returns (100)
    MaxDrops      \* bound: connections lost

ASSUME DifferenceConstants ==
    /\ IsFiniteSet(Keys)
    /\ FetchLimit \in Nat \ {0} /\ MaxPage \in Nat \ {0} /\ MaxDrops \in Nat

VARIABLES
    online,   \* devices whose connection takes pushed updates
    cursor,   \* the device's pts and seq
    seen,     \* keys the device has been given
    behind,   \* devices that know of a gap and will ask for the difference
    diff,     \* the getDifference call of each device
    drops,    \* connections lost so far
    hidden,   \* history: rows within the state a difference gave the device
              \* that it did not return, and why
    swept     \* history: keys whose finished row was trimmed or swept

deviceVars == <<online, cursor, seen, behind, diff, drops, hidden>>
allVars == <<vars, swept, deviceVars>>

Reasons == {"uninserted", "beyond limit", "reordered"}
NoCall == [stage |-> "none"]

\* Mutant of AccountRowsAfter: the first row behind pts is left out.
AccountRowsBeyond(pts) == {e \in RowsAfter(Account, pts) : e.pts > pts + 1}
\* Mutant of AccountRowsAfter: the request's pts is ignored.
AccountRowsAll(pts) == RowsAfter(Account, 0)
AccountRowsAfter(pts) == RowsAfter(Account, pts)

DiffInit ==
    /\ Init
    /\ online = {}
    /\ cursor = [d \in Devices |-> [pts |-> 1, seq |-> 0]]
    /\ seen = [d \in Devices |-> {}]
    /\ behind = {}
    /\ diff = [d \in Devices |-> NoCall]
    /\ drops = 0
    /\ hidden = [d \in Devices |-> {}]
    /\ swept = {}

----------------------------------------------------------------------------
\* Connections and pushes.

\* A device connects; the bridge sends updatesTooLong once its session resolves.
Connect(d) ==
    /\ d \notin online
    /\ diff[d] = NoCall
    /\ online' = online \cup {d}
    /\ behind' = behind \cup {d}
    /\ UNCHANGED <<vars, cursor, seen, diff, drops, hidden, swept>>

Disconnect(d) ==
    /\ d \in online
    /\ drops < MaxDrops
    /\ drops' = drops + 1
    /\ online' = online \ {d}
    /\ UNCHANGED <<vars, cursor, seen, behind, diff, hidden, swept>>

\* External: a device that hears nothing new asks for the difference now and
\* then (asking when nothing is new changes nothing and is left out).
Poll(d) ==
    /\ d \in online \ behind
    /\ diff[d] = NoCall
    /\ cursor[d].pts < account.pts \/ cursor[d].seq < account.seq
    /\ behind' = behind \cup {d}
    /\ UNCHANGED <<vars, online, cursor, seen, diff, drops, hidden, swept>>

\* External: what an idle device does with a pushed update.
Fits(d, k, u) ==
    /\ u.seq = cursor[d].seq + 1
    /\ Scope[k] = Account => u.pts = cursor[d].pts + PtsCount[k]
IsOld(d, u) == u.seq <= cursor[d].seq

\* _send hands the update to every live connection; a connection may break with
\* the update on the way.  A device that waits for a difference re-examines the
\* update after it, which finds it applied or asks again.
Push(w) ==
    /\ Sent(w, online # {})
    /\ \E received \in SUBSET online :
         LET k == work[w].key
             u == work[w].held
             takes == {d \in received : diff[d] = NoCall /\ Fits(d, k, u)}
             gaps == {d \in received : diff[d] = NoCall /\ ~Fits(d, k, u) /\ ~IsOld(d, u)}
             waits == {d \in received : diff[d] # NoCall}
         IN  /\ received # online => drops < MaxDrops
             /\ drops' = IF received # online THEN drops + 1 ELSE drops
             /\ online' = received
             /\ cursor' = [d \in Devices |->
                             IF d \notin takes THEN cursor[d]
                             ELSE [pts |-> IF Scope[k] = Account THEN u.pts ELSE cursor[d].pts,
                                   seq |-> u.seq]]
             /\ seen' = [d \in Devices |-> IF d \in takes THEN seen[d] \cup {k} ELSE seen[d]]
             /\ behind' = behind \cup gaps
             /\ diff' = [d \in Devices |->
                           IF d \in waits THEN [diff[d] EXCEPT !.again = TRUE] ELSE diff[d]]
    /\ UNCHANGED <<hidden, swept>>

----------------------------------------------------------------------------
\* updates.getDifference.

\* The request carries the device's pts; the handler reads the update state.
Ask(d) ==
    /\ d \in online \cap behind
    /\ diff[d] = NoCall
    /\ diff' = [diff EXCEPT ![d] =
          [stage |-> "rows", from |-> cursor[d].pts,
           top |-> [pts |-> account.pts, seq |-> account.seq],
           todo |-> {}, kept |-> {}, hidden |-> {}, waited |-> FALSE, again |-> FALSE]]
    /\ UNCHANGED <<vars, online, cursor, seen, behind, drops, hidden, swept>>

\* Reservations whose pts are committed but whose row is not inserted, and rows.
Hidden(k, pts, why) == [key |-> k, pts |-> pts, why |-> why]
Uninserted(why) ==
    {Hidden(work[w].key, work[w].held.pts, why) :
        w \in {v \in Workers : work[v].stage = "create" /\ Scope[work[v].key] = Account}}
Inserted(why) ==
    {Hidden(k, row[k].pts, why) : k \in {j \in Keys : row[j] # NoRow /\ Scope[j] = Account}}

\* getUpdateDeliveriesAfter: the first FetchLimit rows behind the request's pts.
FetchRows(d) ==
    /\ diff[d].stage = "rows"
    /\ LET rows == AccountRowsAfter(diff[d].from)
           found == FirstOf(rows, FetchLimit)
       IN  diff' = [diff EXCEPT ![d].stage = "settle",
                                ![d].todo = {e \in found : ~e.ready},
                                ![d].kept = {e \in found : e.ready},
                                ![d].hidden = Uninserted("uninserted") \cup
                                   {Hidden(e.key, e.pts, "beyond limit") : e \in rows \ found}]
    /\ UNCHANGED <<vars, online, cursor, seen, behind, drops, hidden, swept>>

\* _withoutAbandonedDeliveries, for the next row without a payload: discard it
\* when nobody holds its claim, else keep what it is by now.
Settle(d) ==
    /\ diff[d].stage = "settle" /\ diff[d].todo # {}
    /\ lock = Free
    /\ LET e == Head1(diff[d].todo)
           k == e.key
           rest == [diff[d] EXCEPT !.todo = @ \ {e}]
       IN  \/ /\ DiscardAbandoned(k)
              /\ diff' = [diff EXCEPT ![d] = rest]
           \/ /\ ~(Pending(k) /\ ~row[k].fresh)
              /\ diff' = [diff EXCEPT ![d] =
                    IF row[k] = NoRow THEN rest
                    ELSE [rest EXCEPT !.kept = @ \cup {Entry(k, e.at)}]]
              /\ UNCHANGED vars
    /\ UNCHANGED <<online, cursor, seen, behind, drops, hidden, swept>>

Settled(d) == diff[d].stage = "settle" /\ diff[d].todo = {}
HeadPending(d) == diff[d].kept # {} /\ ~Head1(diff[d].kept).ready

\* _awaitPendingDelivery, then the rows are read again, once.
AwaitPending(d) ==
    /\ Settled(d)
    /\ HeadPending(d) /\ ~diff[d].waited
    /\ diff' = [diff EXCEPT ![d].stage = "rows", ![d].waited = TRUE]
    /\ UNCHANGED <<vars, online, cursor, seen, behind, drops, hidden, swept>>

\* Build the page and the state the device will hold: a slice that stops before
\* a row that is not ready, a slice that stops at a full page, or all there is.  A
\* slice that ends with a row reserved anew, still at the place of its predecessor,
\* jumps whatever was reserved in between.
BuildPage(d) ==
    /\ Settled(d)
    /\ ~HeadPending(d) \/ diff[d].waited
    /\ LET kept == diff[d].kept
           page == FirstOf(ReadyPrefix(kept), MaxPage)
           sliced == Cardinality(page) < Cardinality(kept)
           result ==
             IF page = {} /\ kept # {}
             THEN [pts |-> diff[d].from, seq |-> Head1(kept).seq - 1]
             ELSE IF sliced
             THEN [pts |-> Last1(page).pts, seq |-> Last1(page).seq]
             ELSE diff[d].top
           keys == {e.key : e \in page}
           jumped == IF sliced /\ page # {} /\ Last1(page).pts # Last1(page).at[1]
                     THEN Uninserted("reordered") \cup Inserted("reordered")
                     ELSE {}
       IN  diff' = [diff EXCEPT ![d] =
             [stage |-> "mark", page |-> keys, marks |-> keys, result |-> result,
              hidden |-> {h \in diff[d].hidden \cup jumped : h.pts <= result.pts},
              again |-> diff[d].again \/ sliced]]
    /\ UNCHANGED <<vars, online, cursor, seen, behind, drops, hidden, swept>>

\* markUpdatePublished for every row of the page, one write at a time.
MarkPage(d) ==
    /\ diff[d].stage = "mark"
    /\ \E k \in diff[d].marks :
         /\ ReaderMarks(k)
         /\ diff' = [diff EXCEPT ![d].marks = @ \ {k}]
    /\ UNCHANGED <<online, cursor, seen, behind, drops, hidden, swept>>

\* The device takes the answer, unless its connection is gone.
Reply(d) ==
    /\ diff[d].stage = "mark" /\ diff[d].marks = {}
    /\ IF d \in online
       THEN /\ seen' = [seen EXCEPT ![d] = @ \cup diff[d].page]
            /\ cursor' = [cursor EXCEPT ![d] = diff[d].result]
            /\ behind' = IF diff[d].again THEN behind ELSE behind \ {d}
            /\ hidden' = [hidden EXCEPT ![d] = @ \cup diff[d].hidden]
       ELSE UNCHANGED <<seen, cursor, behind, hidden>>
    /\ diff' = [diff EXCEPT ![d] = NoCall]
    /\ UNCHANGED <<vars, online, drops, swept>>

\* The process dies with every connection and every call in progress.
Restart ==
    /\ Crash
    /\ online' = {}
    /\ diff' = [d \in Devices |-> NoCall]
    /\ UNCHANGED <<cursor, seen, behind, drops, hidden, swept>>

----------------------------------------------------------------------------
Reading(d) ==
    \/ FetchRows(d) \/ Settle(d) \/ AwaitPending(d) \/ BuildPage(d)
    \/ MarkPage(d) \/ Reply(d)

\* A step of the log.  The history keeps the keys of the finished rows that
\* trimming or the sweep drops; a release is not to drop any.
Releases == \E w \in Workers : work[w].stage = "release" /\ work'[w] # work[w]
LogOnly ==
    /\ swept' = swept \cup {k \in Keys : /\ row[k] # NoRow /\ row[k].payload # 0
                                        /\ row'[k] = NoRow /\ ~Releases}
    /\ UNCHANGED deviceVars

DiffNext ==
    \/ (Publishing \/ Upkeep) /\ LogOnly
    \/ \E w \in Workers : Push(w)
    \/ \E d \in Devices : \/ Connect(d) \/ Disconnect(d) \/ Poll(d)
                          \/ Ask(d) \/ Reading(d)
    \/ Restart

DiffSpec == DiffInit /\ [][DiffNext]_allVars

(* Fairness: every await of a call settles (the code bounds the platform's and
   the database's answers with timeouts and the write queue is first come first
   served); a call may still fail, so nothing is assumed of Abort and
   CreateFails alone.  Clocks run, so a grace period ends.  A device reconnects,
   asks when it is behind, and polls. *)
Progress(w) ==
    \/ Reclaim(w) \/ Allocate(w) \/ CreateRow(w) \/ Release(w)
    \/ StorePayload(w) \/ MarkPublished(w)
FairSpec ==
    /\ DiffSpec
    /\ \A w \in Workers : /\ WF_allVars(Progress(w) /\ LogOnly)
                          /\ WF_allVars(Push(w))
    /\ \A k \in Keys : WF_allVars(GraceElapses(k) /\ LogOnly)
    /\ \A d \in Devices : WF_allVars(Connect(d)) /\ WF_allVars(Poll(d))
                          /\ WF_allVars(Ask(d)) /\ WF_allVars(Reading(d))

----------------------------------------------------------------------------
\* Properties.

(* Every device variable has its type. *)
DiffTypeOK ==
    /\ TypeOK
    /\ online \subseteq Devices /\ behind \subseteq Devices
    /\ cursor \in [Devices -> [pts : Nat, seq : Nat]]
    /\ seen \in [Devices -> SUBSET Keys]
    /\ hidden \in [Devices -> SUBSET [key : Keys, pts : Nat, why : Reasons]]
    /\ DOMAIN diff = Devices
    /\ drops \in Nat
    /\ swept \subseteq Keys

\* The account's retained update k lies behind the device's pts.
Passed(d, k) ==
    /\ row[k] # NoRow /\ row[k].payload # 0 /\ Scope[k] = Account
    /\ row[k].pts <= cursor[d].pts

HiddenFrom(d, k) == {h.why : h \in {g \in hidden[d] : g.key = k /\ g.pts = row[k].pts}}
Covered(d, k) == k \in seen[d] \/ HiddenFrom(d, k) # {}

(* A device moves past an update only after it was given the update, except for
   a row that a difference could not return: one not yet inserted when the rows
   were read, one beyond the fetch limit when discards made the page look
   complete, or one that a reservation re-made meanwhile jumped over.  No slice,
   wait, lost push, gap or restart makes a device skip any other update. *)
SkipsOnlyHidden ==
    \A d \in Devices, k \in Keys :
        Passed(d, k) /\ PtsCount[k] > 0 => Covered(d, k)

(* No device is ever taken back: the answer to getDifference is read, settled and
   built an await apart from the request, drops abandoned rows, re-reads rows that
   a repetition reserved anew, and ends a slice at any of them
   (update-manager.ts:905), but its pts is never below the device's. *)
NeverBack == [][\A d \in Devices : cursor[d].pts <= cursor'[d].pts]_allVars

(* What index.ts:902 takes the rows for, the log a reconnecting device replays:
   no device moves past an update it was not given. *)
NothingSkipped ==
    \A d \in Devices, k \in Keys :
        Passed(d, k) /\ PtsCount[k] > 0 => k \in seen[d]

(* The same for the fetch limit: dropping the abandoned reservations of a full
   fetch never makes an answer look complete that is not, so that no retained
   row beyond the limit is passed (the log of index.ts:902 again). *)
DiscardsHideNothing ==
    \A d \in Devices, k \in Keys :
        Passed(d, k) /\ PtsCount[k] > 0
            => k \in seen[d] \/ "beyond limit" \notin HiddenFrom(d, k)

(* The same for updates that take no pts (reactions in direct chats), which
   update-manager.ts:551 stores "for difference": a device that is up to date
   and idle has been given every one. *)
ZeroCountReplayed ==
    \A d \in Devices, k \in Keys :
        /\ Passed(d, k) /\ PtsCount[k] = 0
        /\ d \in online \ behind /\ diff[d] = NoCall /\ cursor[d].seq = account.seq
        => k \in seen[d]

(* A row is marked published only with its payload: marks that a difference or a
   slow publisher sends late never land on a reservation that a repetition made
   under the same key, unless the row they are meant for was trimmed or swept
   (markUpdatePublished goes by the event's key, update-manager.ts:1160). *)
PublishedHasPayload ==
    \A k \in Keys : row[k] # NoRow /\ row[k].published => row[k].payload # 0 \/ k \in swept

(* Every finished update of the account reaches every device unless a difference
   hid it; in particular no abandoned reservation blocks the log for ever. *)
ReachesDevices ==
    \A d \in Devices, k \in Keys :
        (row[k] # NoRow /\ row[k].payload # 0 /\ Scope[k] = Account /\ PtsCount[k] > 0)
            ~> (row[k] = NoRow \/ Covered(d, k))
============================================================================
