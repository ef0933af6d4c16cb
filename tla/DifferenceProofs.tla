--------------------------- MODULE DifferenceProofs ---------------------------
(***************************************************************************)
(* Theorems about Difference, for every set of devices, keys and workers   *)
(* and every page and fetch limit.                                         *)
(***************************************************************************)
EXTENDS Difference, LogGrowth

HiddenRow == [key : Keys, pts : Nat, why : Reasons]
State == [pts : Nat, seq : Nat]
Reads == [stage : {"rows", "settle"}, from : Nat, top : State, todo : SUBSET EntryOf,
          kept : SUBSET EntryOf, hidden : SUBSET HiddenRow, waited : BOOLEAN,
          again : BOOLEAN]
Answer == [stage : {"mark"}, page : SUBSET Keys, marks : SUBSET Keys, result : State,
           hidden : SUBSET HiddenRow, again : BOOLEAN]

DeviceTypes ==
    /\ online \subseteq Devices /\ behind \subseteq Devices
    /\ cursor \in [Devices -> State]
    /\ seen \in [Devices -> SUBSET Keys]
    /\ hidden \in [Devices -> SUBSET HiddenRow]
    /\ diff \in [Devices -> {NoCall} \cup Reads \cup Answer]
    /\ drops \in Nat
    /\ swept \subseteq Keys

\* The history names the update.
Names(history, u) == \E h \in history : h.key = u.name /\ h.pts = u.pts

\* The device was given what stands at or below its pts, unless it was hidden.
CaughtUp(d) ==
    /\ cursor[d].pts <= account.pts
    /\ \A u \in Standing(Account) : u.pts <= cursor[d].pts =>
          u.name \in seen[d] \/ Names(hidden[d], u)

\* The entries of a call, and the updates that were reserved after its fetch.
Entries(d) == diff[d].todo \cup diff[d].kept
Late(d, u) == diff[d].top.pts < u.pts /\ \A e \in Entries(d) : e.at[1] < u.pts

\* What a call has fetched: every update behind the request that stands, late ones
\* and hidden ones aside, has an entry at its place, in the order of the rows.
Fetched(d) ==
    /\ IsFiniteSet(diff[d].todo) /\ IsFiniteSet(diff[d].kept)
    /\ \A e \in Entries(d) : /\ Scope[e.key] = Account
                             /\ e.pts <= account.pts /\ e.at[1] <= account.pts
                             /\ e.seq # 0
    /\ \A e, f \in Entries(d) :
          e.key # f.key /\ PtsCount[e.key] > 0 /\ e.at[1] = f.at[1] => e.at[2] < f.at[2]
    /\ \A u \in Standing(Account) : diff[d].from < u.pts =>
          \/ Late(d, u) \/ Names(diff[d].hidden, u)
          \/ \E e \in Entries(d) : e.key = u.name /\ e.at[1] = u.pts

\* An answer holds what the device moves over.
Answers(d) ==
    /\ diff[d].result.pts <= account.pts
    /\ \A u \in Standing(Account) :
          cursor[d].pts < u.pts /\ u.pts <= diff[d].result.pts =>
             u.name \in diff[d].page \/ Names(diff[d].hidden, u)

CallInv(d) ==
    /\ diff[d].stage \in {"rows", "settle"} =>
          diff[d].from = cursor[d].pts /\ diff[d].top.pts <= account.pts
    /\ diff[d].stage = "settle" => Fetched(d)
    /\ diff[d].stage = "mark" => Answers(d)

DiffInv ==
    /\ LogInv /\ Separate(Account) /\ Numbered /\ DeviceTypes
    /\ \A d \in Devices : CaughtUp(d) /\ CallInv(d)

(* The account is a scope, and its pts is what its updates are counted from. *)
LEMMA AccountScope == Account \in Scopes /\ BasePts(Account) = account.pts
  BY DEF Scopes, BasePts

(* What the stage of a call says of it. *)
LEMMA CallTypes ==
    ASSUME DeviceTypes, NEW d \in Devices
    PROVE  /\ diff[d].stage \in {"rows", "settle"} => diff[d] \in Reads
           /\ diff[d].stage = "mark" => diff[d] \in Answer
           /\ diff[d] # NoCall => diff[d] \in Reads \cup Answer
           /\ NoCall.stage = "none"
  BY DEF DeviceTypes, Reads, Answer, NoCall

\* How the steps of Difference move the log: rows are marked for a reader only when
\* its answer gives them.
LogStep ==
    \/ Publishing \/ Upkeep \/ Crash \/ UNCHANGED vars
    \/ \E w \in Workers, reached \in BOOLEAN : Sent(w, reached)
    \/ \E k \in Keys : DiscardAbandoned(k)
    \/ \E d \in Devices, k \in Keys :
          diff[d].stage = "mark" /\ k \in diff[d].marks /\ ReaderMarks(k)

(* Every step is a step of the log. *)
LEMMA DiffSteps ==
    ASSUME DiffInv, [DiffNext]_allVars
    PROVE  LogStep /\ [Next]_vars
<1> USE DEF DiffInv
<1>1. (Publishing \/ Upkeep) /\ LogOnly => LogStep
  BY DEF LogStep
<1>2. ASSUME NEW w \in Workers, Push(w) PROVE LogStep
  <2>1. Sent(w, online # {}) /\ (online # {}) \in BOOLEAN
    BY <1>2 DEF Push
  <2> QED BY <2>1 DEF LogStep
<1>3. ASSUME NEW d \in Devices,
             \/ Connect(d) \/ Disconnect(d) \/ Poll(d) \/ Ask(d)
             \/ FetchRows(d) \/ AwaitPending(d) \/ BuildPage(d) \/ Reply(d)
      PROVE  UNCHANGED vars
  BY <1>3 DEF Connect, Disconnect, Poll, Ask, FetchRows, AwaitPending, BuildPage, Reply
<1>4. ASSUME NEW d \in Devices, Settle(d) PROVE LogStep
  <2> DEFINE k == Head1(diff[d].todo).key
  <2>1. DiscardAbandoned(k) \/ UNCHANGED vars
    BY <1>4 DEF Settle
  <2>2. k \in Keys
    <3>1. diff[d].todo \in SUBSET EntryOf /\ IsFiniteSet(diff[d].todo)
      BY <1>4, CallTypes DEF Settle, Reads, CallInv, Fetched
    <3>2. Head1(diff[d].todo) \in EntryOf
      BY <1>4, <3>1, HeadOf DEF Settle
    <3> QED BY <3>2 DEF EntryOf
  <2> QED BY <2>1, <2>2 DEF LogStep
<1>5. ASSUME NEW d \in Devices, MarkPage(d) PROVE LogStep
  <2>1. PICK k \in diff[d].marks : ReaderMarks(k)
    BY <1>5 DEF MarkPage
  <2>2. diff[d].stage = "mark" /\ diff[d].marks \in SUBSET Keys
    BY <1>5, CallTypes DEF MarkPage, Answer
  <2> QED BY <2>1, <2>2 DEF LogStep
<1>6. Restart \/ UNCHANGED allVars => LogStep
  BY DEF Restart, allVars, LogStep
<1>7. LogStep
  <2>1. UNCHANGED vars => LogStep
    BY DEF LogStep
  <2> QED BY <1>1, <1>2, <1>3, <1>4, <1>5, <1>6, <2>1 DEF DiffNext, Reading
<1>8. LogStep => [Next]_vars
  BY DEF LogStep, Next
<1> QED BY <1>7, <1>8

(* The log's invariants hold after a step, and what stands afterwards stood before
   it or lies behind all pts that were counted. *)
LEMMA DiffLog ==
    ASSUME DiffInv, [DiffNext]_allVars
    PROVE  /\ LogInv' /\ Separate(Account)' /\ Numbered'
           /\ account.pts \in Nat /\ account'.pts \in Nat /\ account.pts <= account'.pts
           /\ \A u \in Standing(Account) : u.pts \in Nat
           /\ \A u \in Standing(Account)' :
                 \/ u \in Standing(Account)
                 \/ u.pts \in Nat /\ account.pts < u.pts
<1> USE DEF DiffInv
<1>1. [Next]_vars
  BY DiffSteps
<1>2. LogInv' /\ Numbered'
  BY <1>1, LogInvNext, NumberedKept
<1>3. Grows(Account)
  BY <1>1, <1>2, AccountScope, LogGrows DEF Separate
<1>4. Separate(Account)'
  BY <1>2, <1>3, AccountScope, SeparateKept
<1>5. account.pts \in Nat /\ account'.pts \in Nat
  BY <1>2 DEF LogInv, Shape, TypeOK
<1>6. BasePts(Account)' = account'.pts
  BY DEF BasePts
<1>7. \A u \in Standing(Account)' : u \in Standing(Account) \/ Fresh(Account, u)
  BY <1>3 DEF Grows
<1>8. \A u : Fresh(Account, u) => u.pts \in Nat /\ account.pts < u.pts
  <2>1. \A u : Fresh(Account, u) => /\ u.pts \in Nat /\ Low(u) < u.pts /\ Low(u) \in Int
                                    /\ account.pts <= Low(u)
    BY AccountScope, TakenRanges DEF LogInv, Fresh
  <2> QED BY <1>5, <2>1
<1>9. \A u \in Standing(Account) : u.pts \in Nat
  BY AccountScope, TakenRanges DEF LogInv
<1>10. account.pts <= account'.pts
  BY <1>3, <1>6, AccountScope DEF Grows
<1> QED BY <1>2, <1>4, <1>5, <1>7, <1>8, <1>9, <1>10

\* A step leaves a call as it is, as far as CallInv looks at it.
SameCall(d) ==
    /\ diff'[d].stage = diff[d].stage
    /\ diff[d].stage \in {"rows", "settle"} =>
          /\ diff'[d].from = diff[d].from /\ diff'[d].top = diff[d].top
          /\ diff'[d].todo = diff[d].todo /\ diff'[d].kept = diff[d].kept
          /\ diff'[d].hidden = diff[d].hidden
    /\ diff[d].stage = "mark" =>
          /\ diff'[d].page = diff[d].page /\ diff'[d].result = diff[d].result
          /\ diff'[d].hidden = diff[d].hidden

(* A device that does not move has what stands at or below its pts, and so does
   its call. *)
LEMMA DeviceStays ==
    ASSUME DiffInv, [DiffNext]_allVars, NEW d \in Devices,
           cursor'[d] = cursor[d], seen[d] \subseteq seen'[d], hidden[d] \subseteq hidden'[d]
    PROVE  /\ CaughtUp(d)'
           /\ SameCall(d) => CallInv(d)'
<1>1. /\ account.pts \in Nat /\ account'.pts \in Nat /\ account.pts <= account'.pts
      /\ \A u \in Standing(Account) : u.pts \in Nat
      /\ \A u \in Standing(Account)' :
            u \in Standing(Account) \/ (u.pts \in Nat /\ account.pts < u.pts)
      /\ cursor[d].pts \in Nat /\ CaughtUp(d) /\ CallInv(d)
  BY DiffLog DEF DiffInv, DeviceTypes, State
<1>2. CaughtUp(d)'
  <2>1. cursor'[d].pts <= account'.pts
    BY <1>1 DEF CaughtUp
  <2>2. ASSUME NEW u \in Standing(Account)', u.pts <= cursor'[d].pts
        PROVE  u.name \in seen'[d] \/ Names(hidden'[d], u)
    <3>1. u \in Standing(Account)
      BY <1>1, <2>2 DEF CaughtUp
    <3> QED BY <1>1, <2>2, <3>1 DEF CaughtUp, Names
  <2> QED BY <2>1, <2>2 DEF CaughtUp
<1>3. ASSUME SameCall(d) PROVE CallInv(d)'
  <2>1. diff[d].stage \in {"rows", "settle"} => diff[d] \in Reads
    BY CallTypes DEF DiffInv
  <2>2. diff[d].stage = "mark" => diff[d] \in Answer
    BY CallTypes DEF DiffInv
  <2>3. diff'[d].stage \in {"rows", "settle"} =>
          diff'[d].from = cursor'[d].pts /\ diff'[d].top.pts <= account'.pts
    BY <1>1, <1>3, <2>1 DEF SameCall, CallInv, Reads, State
  <2>4. ASSUME diff'[d].stage = "settle" PROVE Fetched(d)'
    <3>1. /\ Fetched(d) /\ diff[d] \in Reads /\ diff[d].top.pts <= account.pts
          /\ diff[d].from = cursor[d].pts
      BY <1>1, <1>3, <2>1, <2>4 DEF SameCall, CallInv
    <3>2. /\ diff'[d].from = diff[d].from /\ diff'[d].top = diff[d].top
          /\ diff'[d].todo = diff[d].todo /\ diff'[d].kept = diff[d].kept
          /\ diff'[d].hidden = diff[d].hidden
      BY <1>3, <2>4 DEF SameCall
    <3>3. \A e \in Entries(d) : e.pts \in Nat /\ e.at[1] \in Nat
      BY <3>1 DEF Reads, Entries, EntryOf
    <3>4. /\ Entries(d)' = Entries(d) /\ diff[d].top.pts \in Nat
      BY <3>1, <3>2 DEF Entries, Reads, State
    <3>5. \A e \in Entries(d) : /\ Scope[e.key] = Account
                                /\ e.pts <= account'.pts /\ e.at[1] <= account'.pts
                                /\ e.seq # 0
      BY <1>1, <3>1, <3>3 DEF Fetched
    <3>6. ASSUME NEW u \in Standing(Account)', diff[d].from < u.pts
          PROVE  \/ Late(d, u)' \/ Names(diff[d].hidden, u)
                 \/ \E e \in Entries(d) : e.key = u.name /\ e.at[1] = u.pts
      <4>1. CASE u \in Standing(Account)
        BY <3>1, <3>2, <3>4, <3>6, <4>1 DEF Fetched, Late
      <4>2. CASE u.pts \in Nat /\ account.pts < u.pts
        <5>1. \A e \in Entries(d) : e.at[1] < u.pts
          BY <1>1, <3>1, <3>3, <4>2 DEF Fetched
        <5>2. diff[d].top.pts < u.pts
          BY <1>1, <3>1, <3>4, <4>2
        <5> QED BY <3>2, <3>4, <5>1, <5>2 DEF Late
      <4> QED BY <1>1, <4>1, <4>2
    <3> QED BY <3>1, <3>2, <3>4, <3>5, <3>6 DEF Fetched
  <2>5. ASSUME diff'[d].stage = "mark" PROVE Answers(d)'
    <3>1. Answers(d) /\ diff[d] \in Answer
      BY <1>1, <1>3, <2>2, <2>5 DEF SameCall, CallInv
    <3>2. /\ diff'[d].page = diff[d].page /\ diff'[d].result = diff[d].result
          /\ diff'[d].hidden = diff[d].hidden
      BY <1>3, <2>5 DEF SameCall
    <3>3. diff[d].result.pts \in Nat
      BY <3>1 DEF Answer, State
    <3>4. ASSUME NEW u \in Standing(Account)',
                 cursor[d].pts < u.pts, u.pts <= diff[d].result.pts
          PROVE  u.name \in diff[d].page \/ Names(diff[d].hidden, u)
      <4>1. u \in Standing(Account)
        BY <1>1, <3>1, <3>3, <3>4 DEF Answers
      <4> QED BY <3>1, <3>4, <4>1 DEF Answers
    <3>5. diff[d].result.pts <= account'.pts
      BY <1>1, <3>1, <3>3 DEF Answers
    <3> QED BY <3>2, <3>4, <3>5 DEF Answers
  <2> QED BY <2>3, <2>4, <2>5 DEF CallInv
<1> QED BY <1>2, <1>3

(* A step that moves no device and ends calls at most. *)
LEMMA AllStay ==
    ASSUME DiffInv, [DiffNext]_allVars, DeviceTypes', UNCHANGED <<cursor, seen, hidden>>,
           \A d \in Devices : diff'[d] = NoCall \/ SameCall(d)
    PROVE  DiffInv'
<1>1. ASSUME NEW d \in Devices PROVE CaughtUp(d)' /\ CallInv(d)'
  <2>1. CaughtUp(d)' /\ (SameCall(d) => CallInv(d)')
    BY DeviceStays
  <2>2. diff'[d] = NoCall => CallInv(d)'
    BY DEF CallInv, NoCall
  <2> QED BY <2>1, <2>2
<1> QED BY <1>1, DiffLog DEF DiffInv

(* A step of one device's call that does not move the device. *)
LEMMA CallMoves ==
    ASSUME DiffInv, [DiffNext]_allVars, DeviceTypes', UNCHANGED <<cursor, seen, hidden>>,
           NEW d \in Devices, \A c \in Devices \ {d} : diff'[c] = diff[c], CallInv(d)'
    PROVE  DiffInv'
<1>1. ASSUME NEW c \in Devices PROVE CaughtUp(c)' /\ CallInv(c)'
  <2>1. CaughtUp(c)' /\ (SameCall(c) => CallInv(c)')
    BY DeviceStays
  <2>2. c # d => SameCall(c)
    BY DEF SameCall
  <2> QED BY <2>1, <2>2
<1> QED BY <1>1, DiffLog DEF DiffInv

----------------------------------------------------------------------------
\* The steps of a call.

(* The handler reads the update state. *)
LEMMA AskKeeps == ASSUME DiffInv, NEW d \in Devices, Ask(d) PROVE DiffInv'
<1>0. DiffNext /\ UNCHANGED <<vars, online, cursor, seen, behind, drops, hidden, swept>>
  BY DEF DiffNext, Ask
<1>1. /\ cursor[d] \in State /\ diff \in [Devices -> {NoCall} \cup Reads \cup Answer]
      /\ account \in [pts : Nat, seq : Nat, date : Nat]
  BY DEF DiffInv, DeviceTypes, LogInv, Shape, TypeOK
<1>2. /\ diff'[d] \in Reads /\ diff'[d].stage = "rows"
      /\ diff'[d].from = cursor[d].pts /\ diff'[d].top.pts = account.pts
      /\ diff' = [diff EXCEPT ![d] = diff'[d]]
  BY <1>1 DEF Ask, Reads, State
<1>3. DeviceTypes'
  BY <1>0, <1>1, <1>2 DEF DiffInv, DeviceTypes
<1>4. CallInv(d)'
  BY <1>0, <1>1, <1>2 DEF CallInv, vars
<1> QED BY <1>0, <1>1, <1>2, <1>3, <1>4, CallMoves

(* Rows and reservations are hidden with their keys and pts. *)
LEMMA HiddenTypes ==
    ASSUME Shape, NEW why \in Reasons
    PROVE  /\ Uninserted(why) \subseteq HiddenRow /\ Inserted(why) \subseteq HiddenRow
           /\ \A u \in Standing(Account) : Names(Uninserted(why) \cup Inserted(why), u)
           /\ \A u \in HeldAt(Account, {"create"}) : Names(Uninserted(why), u)
<1>1. \A k \in Keys : row[k] # NoRow => row[k] \in Row
  BY DEF Shape, TypeOK
<1>2. ASSUME NEW w \in Workers, work[w].stage = "create"
      PROVE  work[w].key \in Keys /\ work[w].held.pts \in Nat
  <2>1. work[w] \in WorkRecord /\ work[w].held \in Row
    BY <1>2 DEF Shape, TypeOK, HeldRow
  <2> QED BY <1>2, <2>1, BusyRecord DEF Row
<1>3. Uninserted(why) \subseteq HiddenRow /\ Inserted(why) \subseteq HiddenRow
  BY <1>1, <1>2 DEF Uninserted, Inserted, Hidden, HiddenRow, Row
<1>4. ASSUME NEW u \in HeldAt(Account, {"create"}) PROVE Names(Uninserted(why), u)
  <2>1. PICK w \in Workers : /\ work[w].stage = "create" /\ work[w].key \in CountedIn(Account)
                             /\ u = Named(work[w].key, work[w].held.pts)
    BY <1>4 DEF HeldAt
  <2>2. Hidden(work[w].key, work[w].held.pts, why) \in Uninserted(why)
    BY <2>1 DEF Uninserted, CountedIn
  <2> QED BY <2>1, <2>2 DEF Names, Hidden, Named
<1>5. ASSUME NEW u \in InRows(Account) PROVE Names(Inserted(why), u)
  <2>1. PICK k \in CountedIn(Account) : row[k] # NoRow /\ u = Named(k, row[k].pts)
    BY <1>5 DEF InRows
  <2>2. Hidden(k, row[k].pts, why) \in Inserted(why)
    BY <2>1 DEF Inserted, CountedIn
  <2> QED BY <2>1, <2>2 DEF Names, Hidden, Named
<1> QED BY <1>3, <1>4, <1>5 DEF Standing, Names

(* The entries of the account's rows, in the order of their places. *)
LEMMA AccountRows ==
    ASSUME DiffInv, NEW pts
    PROVE  LET rows == RowsAfter(Account, pts)
           IN  /\ rows \in SUBSET EntryOf /\ IsFiniteSet(rows)
               /\ \A e \in rows : /\ Scope[e.key] = Account /\ e.pts <= account.pts
                                  /\ e.at[1] = e.pts /\ e.seq # 0
               /\ \A e, f \in rows :
                     e.key # f.key /\ PtsCount[e.key] > 0 /\ e.at[1] = f.at[1]
                         => e.at[2] < f.at[2]
               /\ \A u \in InRows(Account) : pts < u.pts =>
                     \E e \in rows : e.key = u.name /\ e.pts = u.pts
<1> DEFINE rows == RowsAfter(Account, pts)
<1> USE DEF DiffInv, LogInv
<1>1. ASSUME NEW e \in rows
      PROVE  /\ e \in EntryOf /\ e.key \in Keys /\ row[e.key] # NoRow
             /\ Scope[e.key] = Account
             /\ e.pts = row[e.key].pts /\ e.seq = row[e.key].seq
             /\ e.at = <<row[e.key].pts, row[e.key].seq>>
  <2>1. PICK k \in Keys : /\ row[k] # NoRow /\ Scope[k] = Account
                          /\ e = Entry(k, <<row[k].pts, row[k].seq>>)
                          /\ <<row[k].pts, row[k].seq>> \in Nat \X Nat
    BY RowsRead, DifferenceConstants
  <2> QED BY <2>1, EntryTypes
<1>2. rows \in SUBSET EntryOf /\ IsFiniteSet(rows)
  BY RowsRead, DifferenceConstants
<1>3. \A k \in Keys : row[k] # NoRow =>
         /\ row[k].pts \in Nat /\ row[k].seq \in Nat /\ PtsCount[k] \in Nat
         /\ row[k].seq # 0
         /\ Scope[k] = Account => row[k].pts <= account.pts
  BY ConstantTypes DEF Shape, TypeOK, Row, Numbered, RowsBehind
<1>4. ASSUME NEW e \in rows, NEW f \in rows,
             e.key # f.key, PtsCount[e.key] > 0, e.at[1] = f.at[1]
      PROVE  e.at[2] < f.at[2]
  <2>1. row[e.key].pts = row[f.key].pts
    BY <1>1, <1>4
  <2>2. row[e.key].seq # row[f.key].seq
    BY <1>1, <1>4 DEF SeqUnique
  <2>3. row[f.key].seq < row[e.key].seq => row[f.key].pts <= row[e.key].pts - PtsCount[e.key]
    BY <1>1 DEF PtsRangesOrdered
  <2>4. row[e.key].seq < row[f.key].seq
    BY <1>1, <1>3, <1>4, <2>1, <2>2, <2>3
  <2> QED BY <1>1, <2>4
<1>5. ASSUME NEW u \in InRows(Account), pts < u.pts
      PROVE  \E e \in rows : e.key = u.name /\ e.pts = u.pts
  <2>1. PICK k \in CountedIn(Account) : row[k] # NoRow /\ u = Named(k, row[k].pts)
    BY <1>5 DEF InRows
  <2>2. k \in Keys /\ Scope[k] = Account /\ u.name = k /\ u.pts = row[k].pts
    BY <2>1 DEF CountedIn, Named
  <2>3. Entry(k, <<row[k].pts, row[k].seq>>) \in rows
    BY <1>3, <1>5, <2>1, <2>2 DEF RowsAfter
  <2>4. /\ Entry(k, <<row[k].pts, row[k].seq>>).key = k
        /\ Entry(k, <<row[k].pts, row[k].seq>>).pts = row[k].pts
    BY DEF Entry
  <2> QED BY <2>2, <2>3, <2>4
<1> QED BY <1>1, <1>2, <1>3, <1>4, <1>5

(* The handler reads the rows. *)
LEMMA FetchKeeps == ASSUME DiffInv, NEW d \in Devices, FetchRows(d) PROVE DiffInv'
<1> DEFINE rows == RowsAfter(Account, diff[d].from)
           found == FirstOf(rows, FetchLimit)
           todo == {e \in found : ~e.ready}
           kept == {e \in found : e.ready}
           hides == Uninserted("uninserted") \cup
                      {Hidden(e.key, e.pts, "beyond limit") : e \in rows \ found}
<1>0. /\ DiffNext /\ diff[d].stage = "rows"
      /\ UNCHANGED <<vars, online, cursor, seen, behind, drops, hidden, swept>>
  BY DEF DiffNext, Reading, FetchRows
<1>1. /\ diff[d] \in Reads /\ diff \in [Devices -> {NoCall} \cup Reads \cup Answer]
      /\ diff[d].from = cursor[d].pts /\ diff[d].top.pts <= account.pts
  BY <1>0, CallTypes DEF DiffInv, DeviceTypes, CallInv
<1>2. /\ rows \in SUBSET EntryOf /\ IsFiniteSet(rows)
      /\ \A e \in rows : /\ Scope[e.key] = Account /\ e.pts <= account.pts
                         /\ e.at[1] = e.pts /\ e.seq # 0
      /\ \A e, f \in rows :
            e.key # f.key /\ PtsCount[e.key] > 0 /\ e.at[1] = f.at[1] => e.at[2] < f.at[2]
      /\ \A u \in InRows(Account) : diff[d].from < u.pts =>
            \E e \in rows : e.key = u.name /\ e.pts = u.pts
  BY AccountRows
<1>3. diff' = [diff EXCEPT ![d] = [diff[d] EXCEPT !.stage = "settle", !.todo = todo,
                                          !.kept = kept, !.hidden = hides]]
  BY <1>1 DEF FetchRows, AccountRowsAfter
<1>4. found \in SUBSET rows
  BY DEF FirstOf
<1>5. /\ todo \in SUBSET rows /\ kept \in SUBSET rows /\ todo \cup kept = found
      /\ IsFiniteSet(todo) /\ IsFiniteSet(kept)
  <2>1. todo \in SUBSET rows /\ kept \in SUBSET rows /\ todo \cup kept = found
    BY <1>4
  <2> HIDE DEF rows, found, todo, kept
  <2> QED BY <1>2, <2>1, FS_Subset
<1> HIDE DEF rows, found
<1>6. hides \in SUBSET HiddenRow
  <2>1. Uninserted("uninserted") \in SUBSET HiddenRow
    BY HiddenTypes DEF DiffInv, LogInv, Reasons
  <2>2. ASSUME NEW e \in rows PROVE Hidden(e.key, e.pts, "beyond limit") \in HiddenRow
    BY <1>2 DEF EntryOf, HiddenRow, Hidden, Reasons
  <2> QED BY <2>1, <2>2
<1>7. ASSUME NEW u \in Standing(Account), diff[d].from < u.pts
      PROVE  Names(hides, u) \/ \E e \in found : e.key = u.name /\ e.at[1] = u.pts
  <2>1. CASE u \in HeldAt(Account, {"create"})
    <3>1. Names(Uninserted("uninserted"), u)
      BY <2>1, HiddenTypes DEF DiffInv, LogInv, Reasons
    <3> QED BY <3>1 DEF Names
  <2>2. CASE u \in InRows(Account)
    <3>1. PICK e \in rows : e.key = u.name /\ e.pts = u.pts
      BY <1>2, <1>7, <2>2
    <3>2. CASE e \in found
      BY <1>2, <3>1, <3>2
    <3>3. CASE e \notin found
      <4>1. Hidden(e.key, e.pts, "beyond limit") \in hides
        BY <3>3
      <4> HIDE DEF hides
      <4> QED BY <3>1, <4>1 DEF Names, Hidden
    <3> QED BY <3>2, <3>3
  <2> QED BY <2>1, <2>2 DEF Standing
<1> HIDE DEF todo, kept, hides
<1>8. /\ diff'[d] \in Reads /\ diff'[d].stage = "settle" /\ diff'[d].todo = todo
      /\ diff'[d].kept = kept /\ diff'[d].hidden = hides
      /\ diff'[d].from = diff[d].from /\ diff'[d].top = diff[d].top
      /\ \A c \in Devices \ {d} : diff'[c] = diff[c]
  BY <1>1, <1>2, <1>3, <1>5, <1>6 DEF Reads
<1>9. DeviceTypes'
  BY <1>0, <1>1, <1>3, <1>8 DEF DiffInv, DeviceTypes
<1>10. /\ Entries(d)' = found /\ account' = account
       /\ Standing(Account)' = Standing(Account)
  BY <1>0, <1>5, <1>8 DEF Entries, vars, Standing, InRows, HeldAt
<1>11. Fetched(d)'
  <2>1. \A e \in found : /\ Scope[e.key] = Account /\ e.pts <= account.pts
                         /\ e.at[1] <= account.pts /\ e.seq # 0
    BY <1>2, <1>4
  <2>2. \A e, f \in found :
            e.key # f.key /\ PtsCount[e.key] > 0 /\ e.at[1] = f.at[1] => e.at[2] < f.at[2]
    BY <1>2, <1>4
  <2> QED BY <1>5, <1>7, <1>8, <1>10, <2>1, <2>2 DEF Fetched
<1>12. CallInv(d)'
  BY <1>0, <1>1, <1>8, <1>10, <1>11 DEF CallInv
<1> QED BY <1>0, <1>8, <1>9, <1>12, CallMoves

(* The handler reads the rows once more. *)
LEMMA AwaitKeeps == ASSUME DiffInv, NEW d \in Devices, AwaitPending(d) PROVE DiffInv'
<1>0. /\ DiffNext /\ diff[d].stage = "settle"
      /\ UNCHANGED <<vars, online, cursor, seen, behind, drops, hidden, swept>>
  BY DEF DiffNext, Reading, AwaitPending, Settled
<1>1. /\ diff[d] \in Reads /\ diff \in [Devices -> {NoCall} \cup Reads \cup Answer]
      /\ diff[d].from = cursor[d].pts /\ diff[d].top.pts <= account.pts
  BY <1>0, CallTypes DEF DiffInv, DeviceTypes, CallInv
<1>2. diff' = [diff EXCEPT ![d] = [diff[d] EXCEPT !.stage = "rows", !.waited = TRUE]]
  BY <1>1 DEF AwaitPending
<1>3. /\ diff'[d] \in Reads /\ diff'[d].stage = "rows"
      /\ diff'[d].from = diff[d].from /\ diff'[d].top = diff[d].top
      /\ \A c \in Devices \ {d} : diff'[c] = diff[c]
  BY <1>1, <1>2 DEF Reads
<1>4. DeviceTypes'
  BY <1>0, <1>1, <1>2, <1>3 DEF DiffInv, DeviceTypes
<1>5. CallInv(d)'
  BY <1>0, <1>1, <1>3 DEF CallInv, vars
<1> QED BY <1>0, <1>3, <1>4, <1>5, CallMoves

(* Dropping an entry loses nothing that stands, for the row it names is gone. *)
LEMMA SettleKeeps == ASSUME DiffInv, NEW d \in Devices, Settle(d) PROVE DiffInv'
<1> DEFINE e == Head1(diff[d].todo)
           k == e.key
           rest == [diff[d] EXCEPT !.todo = diff[d].todo \ {e}]
           new == Entry(k, e.at)
<1>0. /\ DiffNext /\ diff[d].stage = "settle" /\ diff[d].todo # {} /\ lock = Free
      /\ UNCHANGED <<online, cursor, seen, behind, drops, hidden, swept>>
  BY DEF DiffNext, Reading, Settle
<1>1. /\ diff[d] \in Reads /\ diff \in [Devices -> {NoCall} \cup Reads \cup Answer]
      /\ diff[d].from = cursor[d].pts /\ diff[d].top.pts <= account.pts /\ Fetched(d)
      /\ Shape /\ account.pts \in Nat
  BY <1>0, CallTypes DEF DiffInv, DeviceTypes, CallInv, LogInv, Shape, TypeOK
<1>2. e \in diff[d].todo /\ e \in EntryOf /\ k \in Keys /\ e.at \in Nat \X Nat
  <2>1. diff[d].todo \in SUBSET EntryOf /\ IsFiniteSet(diff[d].todo)
    BY <1>1 DEF Reads, Fetched
  <2>2. e \in diff[d].todo
    BY <1>0, <2>1, HeadOf
  <2> QED BY <2>1, <2>2 DEF EntryOf
<1> HIDE DEF e
<1>3. /\ UNCHANGED account
      /\ \/ /\ row'[k] = NoRow /\ diff' = [diff EXCEPT ![d] = rest]
         \/ /\ row'[k] # NoRow /\ row[k] # NoRow
            /\ diff' = [diff EXCEPT ![d] = [rest EXCEPT !.kept = rest.kept \cup {new}]]
  <2>1. CASE /\ DiscardAbandoned(k)
             /\ diff' = [diff EXCEPT ![d] = rest]
    BY <1>1, <1>2, <2>1 DEF DiscardAbandoned, Shape, TypeOK
  <2>2. CASE /\ UNCHANGED vars
             /\ diff' = [diff EXCEPT ![d] = IF row[k] = NoRow THEN rest
                                            ELSE [rest EXCEPT !.kept = rest.kept \cup {new}]]
    BY <2>2 DEF vars
  <2> QED BY <2>1, <2>2 DEF Settle, e
<1>4. row[k] # NoRow => /\ new \in EntryOf /\ new.key = k /\ new.at = e.at
                        /\ new.seq # 0
                        /\ Scope[k] = Account => new.pts <= account.pts
  <2>1. row[k] # NoRow => row[k].seq # 0 /\ (Scope[k] = Account => row[k].pts <= account.pts)
    BY <1>2 DEF DiffInv, Numbered, LogInv, RowsBehind
  <2> QED BY <1>1, <1>2, <2>1, EntryTypes
<1>5. /\ rest \in Reads /\ rest.stage = "settle" /\ rest.todo = diff[d].todo \ {e}
      /\ rest.kept = diff[d].kept /\ rest.from = diff[d].from /\ rest.top = diff[d].top
      /\ rest.hidden = diff[d].hidden
  BY <1>0, <1>1 DEF Reads
<1> HIDE DEF rest, new
<1>6. /\ diff'[d] \in Reads /\ diff'[d].stage = "settle"
      /\ diff'[d].todo = diff[d].todo \ {e}
      /\ \/ row'[k] = NoRow /\ diff'[d].kept = diff[d].kept
         \/ row[k] # NoRow /\ diff'[d].kept = diff[d].kept \cup {new}
      /\ diff'[d].from = diff[d].from /\ diff'[d].top = diff[d].top
      /\ diff'[d].hidden = diff[d].hidden
      /\ \A c \in Devices \ {d} : diff'[c] = diff[c]
      /\ diff' = [diff EXCEPT ![d] = diff'[d]]
  <2>1. CASE row'[k] = NoRow /\ diff' = [diff EXCEPT ![d] = rest]
    BY <1>1, <1>5, <2>1
  <2>2. CASE /\ row[k] # NoRow
             /\ diff' = [diff EXCEPT ![d] = [rest EXCEPT !.kept = rest.kept \cup {new}]]
    <3>1. rest.kept \cup {new} \in SUBSET EntryOf
      BY <1>4, <1>5, <2>2 DEF Reads
    <3>2. /\ diff'[d] = [rest EXCEPT !.kept = rest.kept \cup {new}]
          /\ \A c \in Devices \ {d} : diff'[c] = diff[c]
          /\ diff' = [diff EXCEPT ![d] = diff'[d]]
      BY <1>1, <2>2
    <3>3. diff'[d] \in Reads /\ diff'[d].kept = rest.kept \cup {new}
      BY <1>5, <3>1, <3>2 DEF Reads
    <3>4. /\ diff'[d].stage = rest.stage /\ diff'[d].todo = rest.todo
          /\ diff'[d].from = rest.from /\ diff'[d].top = rest.top
          /\ diff'[d].hidden = rest.hidden
      BY <3>2
    <3> QED BY <1>5, <2>2, <3>2, <3>3, <3>4
  <2> QED BY <1>3, <2>1, <2>2
<1>7. DeviceTypes'
  BY <1>0, <1>1, <1>6 DEF DiffInv, DeviceTypes
<1>8. \A u \in Standing(Account)' : u \in Standing(Account) /\ (u.name = k => row'[k] # NoRow)
  <2>1. \A u \in HeldAt(Account, {"create"})' : FALSE
    <3>1. \A w \in Workers : work'[w].stage # "create"
      <4>1. \A w \in Workers : work[w].stage # "create"
        BY <1>0, DistinctNames DEF DiffInv, LogInv, LockHeld
      <4>2. UNCHANGED work
        BY DEF Settle, DiscardAbandoned, vars
      <4> QED BY <4>1, <4>2
    <3> QED BY <3>1 DEF HeldAt
  <2>2. \A j \in Keys : row'[j] = NoRow \/ row'[j] = row[j]
    <3>1. row' = [row EXCEPT ![k] = NoRow] \/ UNCHANGED row
      BY DEF Settle, DiscardAbandoned, vars, e
    <3> QED BY <1>1, <3>1 DEF Shape, TypeOK
  <2>3. \A u \in InRows(Account)' : u \in InRows(Account) /\ (u.name = k => row'[k] # NoRow)
    BY <2>2 DEF InRows, CountedIn, Named
  <2> QED BY <2>1, <2>3 DEF Standing
<1>9. Fetched(d)'
  <2>1. IsFiniteSet(diff'[d].todo) /\ IsFiniteSet(diff'[d].kept)
    <3>1. IsFiniteSet(diff[d].todo) /\ IsFiniteSet(diff[d].kept)
      BY <1>1 DEF Fetched
    <3>2. IsFiniteSet(diff[d].todo \ {e}) /\ IsFiniteSet(diff[d].kept \cup {new})
      BY <3>1, FS_RemoveElement, FS_AddElement
    <3> QED BY <1>6, <3>1, <3>2
  <2>2. ASSUME NEW f \in Entries(d)'
        PROVE  \/ f \in Entries(d)
               \/ f = new /\ row[k] # NoRow
    BY <1>6 DEF Entries
  <2>3. e \in Entries(d) /\ Scope[k] = Account
    BY <1>1, <1>2 DEF Entries, Fetched
  <2>4. \A f \in Entries(d)' : \E g \in Entries(d) : f.key = g.key /\ f.at = g.at
    BY <1>4, <2>2, <2>3
  <2>5. \A f \in Entries(d)' : /\ Scope[f.key] = Account
                               /\ f.pts <= account.pts /\ f.at[1] <= account.pts
                               /\ f.seq # 0
    BY <1>1, <1>4, <2>2, <2>3 DEF Fetched
  <2>6. \A f, g \in Entries(d)' :
          f.key # g.key /\ PtsCount[f.key] > 0 /\ f.at[1] = g.at[1] => f.at[2] < g.at[2]
    BY <1>1, <2>4 DEF Fetched
  <2>7. ASSUME NEW u \in Standing(Account)', diff[d].from < u.pts
        PROVE  \/ Late(d, u)' \/ Names(diff[d].hidden, u)
               \/ \E f \in Entries(d)' : f.key = u.name /\ f.at[1] = u.pts
    <3>1. u \in Standing(Account)
      BY <1>8
    <3>2. CASE Late(d, u)
      <4>1. \A f \in Entries(d)' : f.at[1] < u.pts
        BY <2>4, <3>2 DEF Late
      <4> QED BY <1>6, <3>2, <4>1 DEF Late
    <3>3. CASE Names(diff[d].hidden, u)
      BY <3>3
    <3>4. ASSUME NEW f \in Entries(d), f.key = u.name, f.at[1] = u.pts
          PROVE  \E g \in Entries(d)' : g.key = u.name /\ g.at[1] = u.pts
      <4>1. CASE f # e
        BY <1>6, <3>4, <4>1 DEF Entries
      <4>2. CASE f = e
        <5>1. row'[k] # NoRow
          BY <1>8, <2>7, <3>4, <4>2
        <5>2. diff'[d].kept = diff[d].kept \cup {new} /\ row[k] # NoRow
          BY <1>6, <5>1
        <5> QED BY <1>4, <3>4, <4>2, <5>2 DEF Entries
      <4> QED BY <4>1, <4>2
    <3> QED BY <1>1, <2>7, <3>1, <3>2, <3>3, <3>4 DEF Fetched
  <2> QED BY <1>3, <1>6, <2>1, <2>5, <2>6, <2>7 DEF Fetched
<1>10. CallInv(d)'
  BY <1>0, <1>1, <1>3, <1>6, <1>9 DEF CallInv
<1> QED BY <1>0, <1>6, <1>7, <1>10, CallMoves

(* The answer covers what the device moves over: a full answer gives all that was
   fetched, a slice gives all that lies before its last row. *)
LEMMA BuildKeeps == ASSUME DiffInv, NEW d \in Devices, BuildPage(d) PROVE DiffInv'
<1> DEFINE kept == diff[d].kept
           page == FirstOf(ReadyPrefix(kept), MaxPage)
           last == Last1(page)
           sliced == Cardinality(page) < Cardinality(kept)
           result == IF page = {} /\ kept # {}
                     THEN [pts |-> diff[d].from, seq |-> Head1(kept).seq - 1]
                     ELSE IF sliced THEN [pts |-> last.pts, seq |-> last.seq]
                     ELSE diff[d].top
           keys == {e.key : e \in page}
           jumped == IF sliced /\ page # {} /\ last.pts # last.at[1]
                     THEN Uninserted("reordered") \cup Inserted("reordered")
                     ELSE {}
           hides == {h \in diff[d].hidden \cup jumped : h.pts <= result.pts}
           answer == [stage |-> "mark", page |-> keys, marks |-> keys, result |-> result,
                      hidden |-> hides, again |-> diff[d].again \/ sliced]
<1>0. /\ DiffNext /\ diff[d].stage = "settle" /\ diff[d].todo = {}
      /\ UNCHANGED <<vars, online, cursor, seen, behind, drops, hidden, swept>>
  BY DEF DiffNext, Reading, BuildPage, Settled
<1>1. /\ diff[d] \in Reads /\ diff \in [Devices -> {NoCall} \cup Reads \cup Answer]
      /\ diff[d].from = cursor[d].pts /\ diff[d].top.pts <= account.pts /\ Fetched(d)
      /\ account.pts \in Nat /\ cursor[d] \in State /\ cursor[d].pts <= account.pts
      /\ diff[d].from \in Nat /\ diff[d].top \in State /\ diff[d].again \in BOOLEAN
      /\ diff[d].hidden \in SUBSET HiddenRow
  BY <1>0, CallTypes
  DEF DiffInv, DeviceTypes, CallInv, LogInv, Shape, TypeOK, CaughtUp, Reads
<1>2. diff' = [diff EXCEPT ![d] = answer]
  BY DEF BuildPage
<1>3. kept \in SUBSET EntryOf /\ IsFiniteSet(kept) /\ Entries(d) = kept
  BY <1>0, <1>1 DEF Reads, Fetched, Entries
<1>4. page \in SUBSET kept
  BY DEF FirstOf, ReadyPrefix
<1> HIDE DEF kept
<1>5. IsFiniteSet(page) /\ Cardinality(page) \in Nat /\ Cardinality(kept) \in Nat
  <2>1. IsFiniteSet(page)
    <3> HIDE DEF page
    <3> QED BY <1>3, <1>4, FS_Subset
  <2> QED BY <1>3, <2>1, FS_CardinalityType
<1>6. /\ ~sliced => page = kept
      /\ sliced => kept # {}
  <2> HIDE DEF page
  <2>1. Cardinality(page) <= Cardinality(kept)
        /\ (Cardinality(page) = Cardinality(kept) => page = kept)
    BY <1>3, <1>4, FS_Subset
  <2>2. kept = {} => page = kept
    BY <1>4
  <2> QED BY <1>5, <2>1, <2>2
<1>7. ASSUME NEW e \in page, NEW f \in kept, Before(f, e) PROVE f \in page
  BY <1>3, <1>7, DifferenceConstants, PageIsPrefix
<1> HIDE DEF page
<1>8. page # {} => last \in page
  BY <1>3, <1>4, <1>5, LastOf
<1>9. kept # {} => Head1(kept) \in kept
  BY <1>3, HeadOf
<1>10. \A e \in kept : /\ e.pts \in Nat /\ e.seq \in Nat /\ e.seq # 0 /\ e.at \in Nat \X Nat
                       /\ e.pts <= account.pts /\ e.key \in Keys
  BY <1>1, <1>3 DEF EntryOf, Fetched
<1> HIDE DEF last
<1>11. result \in State /\ result.pts <= account.pts
  <2>1. CASE page = {} /\ kept # {}
    <3>1. Head1(kept).seq - 1 \in Nat
      BY <1>9, <1>10, <2>1
    <3>2. result = [pts |-> diff[d].from, seq |-> Head1(kept).seq - 1]
      BY <2>1
    <3> HIDE DEF result
    <3> QED BY <1>1, <3>1, <3>2 DEF State
  <2>2. CASE page # {} /\ sliced
    <3>1. last \in kept
      BY <1>4, <1>8, <2>2
    <3>2. result = [pts |-> last.pts, seq |-> last.seq]
      BY <2>2
    <3> HIDE DEF result
    <3> QED BY <1>10, <3>1, <3>2 DEF State
  <2>3. CASE ~(page = {} /\ kept # {}) /\ ~sliced
    <3>1. result = diff[d].top
      BY <2>3
    <3> HIDE DEF result
    <3> QED BY <1>1, <3>1
  <2> QED BY <1>6, <2>1, <2>2, <2>3
<1>12. jumped \in SUBSET HiddenRow
  BY HiddenTypes DEF DiffInv, LogInv, Reasons
<1>13. keys \in SUBSET Keys
  BY <1>4, <1>10
<1>14. ASSUME NEW u \in Standing(Account), cursor[d].pts < u.pts, u.pts <= result.pts
       PROVE  u.name \in keys \/ Names(hides, u)
  <2>0. u.pts \in Nat /\ PtsCount[u.name] > 0
    BY TakenRanges, AccountScope DEF DiffInv, LogInv, CountedIn
  <2>1. ASSUME Names(diff[d].hidden, u) PROVE Names(hides, u)
    <3>1. PICK h \in diff[d].hidden : h.key = u.name /\ h.pts = u.pts
      BY <2>1 DEF Names
    <3>2. h \in hides
      BY <1>14, <3>1
    <3> HIDE DEF hides
    <3> QED BY <3>1, <3>2 DEF Names
  <2>2. \/ Late(d, u) \/ Names(diff[d].hidden, u)
        \/ \E e \in kept : e.key = u.name /\ e.at[1] = u.pts
    BY <1>1, <1>3, <1>14 DEF Fetched
  <2>3. CASE page = {} /\ kept # {}
    <3>1. result.pts = diff[d].from
      BY <2>3
    <3> HIDE DEF result
    <3> QED BY <1>1, <1>14, <2>0, <3>1
  <2>4. CASE page # {} /\ sliced /\ last.pts # last.at[1]
    <3>1. Names(Uninserted("reordered") \cup Inserted("reordered"), u)
      BY HiddenTypes DEF DiffInv, LogInv, Reasons
    <3>2. PICK h \in Uninserted("reordered") \cup Inserted("reordered") :
             h.key = u.name /\ h.pts = u.pts
      BY <3>1 DEF Names
    <3>3. h \in jumped
      BY <2>4, <3>2
    <3>4. h \in hides
      BY <1>14, <3>2, <3>3
    <3> HIDE DEF hides
    <3> QED BY <3>2, <3>4 DEF Names
  <2>5. CASE page # {} /\ sliced /\ last.pts = last.at[1]
    <3>1. last \in page /\ last \in kept /\ result.pts = last.at[1] /\ last.at[1] \in Nat
      BY <1>4, <1>8, <1>10, <2>5
    <3> HIDE DEF result
    <3>2. ~Late(d, u)
      BY <1>3, <1>14, <2>0, <3>1 DEF Late
    <3>3. ASSUME NEW e \in kept, e.key = u.name, e.at[1] = u.pts PROVE u.name \in keys
      <4>1. CASE e.key = last.key
        BY <3>1, <3>3, <4>1
      <4>2. CASE e.key # last.key
        <5>1. e.at[1] = last.at[1] => e.at[2] < last.at[2]
          BY <1>1, <1>3, <2>0, <3>1, <3>3, <4>2 DEF Fetched
        <5>2. e.at[1] \in Nat /\ e.at[1] <= last.at[1]
          BY <1>10, <1>14, <3>1, <3>3
        <5>3. Before(e, last)
          BY <3>1, <5>1, <5>2 DEF Before
        <5>4. e \in page
          BY <1>7, <3>1, <5>3
        <5> QED BY <3>3, <5>4
      <4> QED BY <4>1, <4>2
    <3> QED BY <2>1, <2>2, <3>2, <3>3
  <2>6. CASE ~(page = {} /\ kept # {}) /\ ~sliced
    <3>1. result = diff[d].top /\ page = kept
      BY <1>6, <2>6
    <3>2. ~Late(d, u)
      <4> HIDE DEF result
      <4> QED BY <1>1, <1>14, <2>0, <3>1 DEF Late, State
    <3>3. (\E e \in kept : e.key = u.name) => u.name \in keys
      BY <3>1
    <3> QED BY <2>1, <2>2, <3>2, <3>3
  <2> QED BY <1>6, <2>3, <2>4, <2>5, <2>6
<1>15. hides \in SUBSET HiddenRow
  <2> HIDE DEF jumped, result
  <2> QED BY <1>1, <1>12
<1> HIDE DEF keys, result, hides
<1>16. /\ answer \in Answer /\ answer.stage = "mark" /\ answer.page = keys
       /\ answer.result = result /\ answer.hidden = hides
  <2>1. (diff[d].again \/ sliced) \in BOOLEAN
    BY <1>1
  <2> HIDE DEF sliced
  <2> QED BY <1>11, <1>13, <1>15, <2>1 DEF Answer
<1> HIDE DEF answer
<1>17. diff'[d] = answer /\ \A c \in Devices \ {d} : diff'[c] = diff[c]
  BY <1>1, <1>2
<1>18. DeviceTypes'
  BY <1>0, <1>1, <1>2, <1>16 DEF DiffInv, DeviceTypes
<1>19. account' = account /\ Standing(Account)' = Standing(Account) /\ cursor' = cursor
  BY <1>0 DEF vars, Standing, InRows, HeldAt
<1>20. CallInv(d)'
  BY <1>11, <1>14, <1>16, <1>17, <1>19 DEF CallInv, Answers
<1> QED BY <1>0, <1>17, <1>18, <1>20, CallMoves

(* Marking the rows of an answer changes neither the answer nor what stands. *)
LEMMA MarkKeeps == ASSUME DiffInv, NEW d \in Devices, MarkPage(d) PROVE DiffInv'
<1>0. /\ DiffNext /\ diff[d].stage = "mark"
      /\ UNCHANGED <<online, cursor, seen, behind, drops, hidden, swept>>
  BY DEF DiffNext, Reading, MarkPage
<1>1. diff[d] \in Answer /\ diff \in [Devices -> {NoCall} \cup Reads \cup Answer]
  BY <1>0, CallTypes DEF DiffInv, DeviceTypes
<1>2. PICK k \in diff[d].marks :
        diff' = [diff EXCEPT ![d] = [diff[d] EXCEPT !.marks = diff[d].marks \ {k}]]
  BY DEF MarkPage
<1>3. /\ diff'[d] \in Answer /\ diff'[d].stage = "mark"
      /\ diff'[d].page = diff[d].page /\ diff'[d].result = diff[d].result
      /\ diff'[d].hidden = diff[d].hidden
      /\ \A c \in Devices \ {d} : diff'[c] = diff[c]
  BY <1>0, <1>1, <1>2 DEF Answer
<1>4. DeviceTypes'
  BY <1>0, <1>1, <1>2, <1>3 DEF DiffInv, DeviceTypes
<1>5. \A c \in Devices : SameCall(c)
  BY <1>0, <1>3 DEF SameCall
<1> QED BY <1>0, <1>4, <1>5, AllStay

(* The device takes an answer that covers what it moves over. *)
LEMMA ReplyKeeps == ASSUME DiffInv, NEW d \in Devices, Reply(d) PROVE DiffInv'
<1>0. DiffNext /\ diff[d].stage = "mark" /\ UNCHANGED <<vars, online, drops, swept>>
  BY DEF DiffNext, Reading, Reply
<1>1. /\ diff[d] \in Answer /\ diff \in [Devices -> {NoCall} \cup Reads \cup Answer]
      /\ Answers(d) /\ CaughtUp(d) /\ cursor \in [Devices -> State]
      /\ seen \in [Devices -> SUBSET Keys] /\ hidden \in [Devices -> SUBSET HiddenRow]
      /\ behind \subseteq Devices
      /\ diff[d].result \in State /\ diff[d].page \in SUBSET Keys
      /\ diff[d].hidden \in SUBSET HiddenRow
  BY <1>0, CallTypes DEF DiffInv, DeviceTypes, CallInv, Answer
<1>2. diff' = [diff EXCEPT ![d] = NoCall]
  BY DEF Reply
<1>3. \/ /\ seen' = [seen EXCEPT ![d] = seen[d] \cup diff[d].page]
         /\ cursor' = [cursor EXCEPT ![d] = diff[d].result]
         /\ behind' \subseteq behind
         /\ hidden' = [hidden EXCEPT ![d] = hidden[d] \cup diff[d].hidden]
      \/ UNCHANGED <<seen, cursor, behind, hidden>>
  BY DEF Reply
<1>4. DeviceTypes'
  BY <1>0, <1>1, <1>2, <1>3 DEF DiffInv, DeviceTypes
<1>5. /\ \A u \in Standing(Account) : u.pts \in Nat
      /\ Standing(Account)' = Standing(Account) /\ account' = account
  BY <1>0, DiffLog DEF vars, Standing, InRows, HeldAt
<1>6. CaughtUp(d)'
  <2>1. CASE UNCHANGED <<seen, cursor, behind, hidden>>
    BY <1>1, <1>5, <2>1 DEF CaughtUp, Names
  <2>2. CASE /\ seen'[d] = seen[d] \cup diff[d].page
             /\ cursor'[d] = diff[d].result
             /\ hidden'[d] = hidden[d] \cup diff[d].hidden
    <3>1. cursor'[d].pts <= account'.pts
      BY <1>1, <1>5, <2>2 DEF Answers
    <3>2. ASSUME NEW u \in Standing(Account)', u.pts <= cursor'[d].pts
          PROVE  u.name \in seen'[d] \/ Names(hidden'[d], u)
      <4>1. /\ u \in Standing(Account) /\ u.pts \in Nat /\ u.pts <= diff[d].result.pts
            /\ cursor[d].pts \in Nat
        BY <1>1, <1>5, <2>2, <3>2 DEF State
      <4>2. CASE u.pts <= cursor[d].pts
        <5>1. u.name \in seen[d] \/ Names(hidden[d], u)
          BY <1>1, <4>1, <4>2 DEF CaughtUp
        <5> QED BY <2>2, <5>1 DEF Names
      <4>3. CASE cursor[d].pts < u.pts
        <5>1. u.name \in diff[d].page \/ Names(diff[d].hidden, u)
          BY <1>1, <4>1, <4>3 DEF Answers
        <5> QED BY <2>2, <5>1 DEF Names
      <4> QED BY <4>1, <4>2, <4>3
    <3> QED BY <3>1, <3>2 DEF CaughtUp
  <2> QED BY <1>1, <1>3, <2>1, <2>2
<1>7. CallInv(d)'
  BY <1>1, <1>2 DEF CallInv, NoCall
<1>8. ASSUME NEW c \in Devices, c # d PROVE CaughtUp(c)' /\ CallInv(c)'
  <2>1. /\ cursor'[c] = cursor[c] /\ seen[c] \subseteq seen'[c]
        /\ hidden[c] \subseteq hidden'[c] /\ SameCall(c)
    BY <1>1, <1>2, <1>3, <1>8 DEF SameCall
  <2> QED BY <1>0, <2>1, DeviceStays
<1> QED BY <1>0, <1>4, <1>6, <1>7, <1>8, DiffLog DEF DiffInv

(* A pushed update fits a device only if nothing stands between the device's pts
   and the update's. *)
LEMMA PushKeeps == ASSUME DiffInv, NEW w \in Workers, Push(w) PROVE DiffInv'
<1> DEFINE k == work[w].key
           u0 == work[w].held
<1>0. /\ DiffNext /\ work[w].stage = "send" /\ UNCHANGED <<account, hidden, swept>>
  BY DEF DiffNext, Push, Sent
<1>1. /\ online \subseteq Devices /\ behind \subseteq Devices
      /\ cursor \in [Devices -> State] /\ seen \in [Devices -> SUBSET Keys]
      /\ diff \in [Devices -> {NoCall} \cup Reads \cup Answer] /\ drops \in Nat
      /\ Shape
  BY DEF DiffInv, DeviceTypes, LogInv
<1>2. k \in Keys /\ u0 \in Row /\ u0.pts \in Nat /\ u0.seq \in Nat /\ PtsCount[k] \in Nat
  <2>1. k \in Keys /\ u0 \in Row
    BY <1>0, <1>1, BusyRecord DEF Shape, TypeOK, HeldRow
  <2> QED BY <2>1, ConstantTypes DEF Row
<1>3. PICK received \in SUBSET online, takes \in SUBSET online, gaps \in SUBSET online,
           waits \in SUBSET online :
        /\ \A d \in takes : diff[d] = NoCall /\ Fits(d, k, u0)
        /\ \A d \in waits : diff[d] # NoCall
        /\ drops' \in {drops, drops + 1}
        /\ online' = received
        /\ cursor' = [d \in Devices |->
                        IF d \notin takes THEN cursor[d]
                        ELSE [pts |-> IF Scope[k] = Account THEN u0.pts ELSE cursor[d].pts,
                              seq |-> u0.seq]]
        /\ seen' = [d \in Devices |-> IF d \in takes THEN seen[d] \cup {k} ELSE seen[d]]
        /\ behind' = behind \cup gaps
        /\ diff' = [d \in Devices |->
                      IF d \in waits THEN [diff[d] EXCEPT !.again = TRUE] ELSE diff[d]]
  <2> DEFINE takesOf(r) == {d \in r : diff[d] = NoCall /\ Fits(d, k, u0)}
             gapsOf(r) == {d \in r : diff[d] = NoCall /\ ~Fits(d, k, u0) /\ ~IsOld(d, u0)}
             waitsOf(r) == {d \in r : diff[d] # NoCall}
  <2>1. PICK r \in SUBSET online :
          /\ drops' = IF r # online THEN drops + 1 ELSE drops
          /\ online' = r
          /\ cursor' = [d \in Devices |->
                          IF d \notin takesOf(r) THEN cursor[d]
                          ELSE [pts |-> IF Scope[k] = Account THEN u0.pts ELSE cursor[d].pts,
                                seq |-> u0.seq]]
          /\ seen' = [d \in Devices |-> IF d \in takesOf(r) THEN seen[d] \cup {k} ELSE seen[d]]
          /\ behind' = behind \cup gapsOf(r)
          /\ diff' = [d \in Devices |->
                        IF d \in waitsOf(r) THEN [diff[d] EXCEPT !.again = TRUE] ELSE diff[d]]
    BY DEF Push
  <2>2. /\ takesOf(r) \in SUBSET online /\ gapsOf(r) \in SUBSET online
        /\ waitsOf(r) \in SUBSET online
        /\ \A d \in takesOf(r) : diff[d] = NoCall /\ Fits(d, k, u0)
        /\ \A d \in waitsOf(r) : diff[d] # NoCall
    OBVIOUS
  <2> HIDE DEF takesOf, gapsOf, waitsOf
  <2> QED BY <2>1, <2>2
<1> HIDE DEF k, u0
<1>4. ASSUME NEW r \in Reads \cup Answer
      PROVE  LET a == [r EXCEPT !.again = TRUE]
             IN  /\ a \in Reads \cup Answer /\ a.stage = r.stage
                 /\ r \in Reads => /\ a.from = r.from /\ a.top = r.top /\ a.todo = r.todo
                                   /\ a.kept = r.kept /\ a.hidden = r.hidden
                 /\ r \in Answer => /\ a.page = r.page /\ a.result = r.result
                                    /\ a.hidden = r.hidden
  BY DEF Reads, Answer
<1>5. ASSUME NEW d \in Devices PROVE diff'[d] = diff[d] \/ (diff[d] \in Reads \cup Answer
                                     /\ diff'[d] = [diff[d] EXCEPT !.again = TRUE])
  BY <1>1, <1>3
<1>6. DeviceTypes'
  <2>1. diff' \in [Devices -> {NoCall} \cup Reads \cup Answer]
    <3>1. \A d \in Devices : diff'[d] \in {NoCall} \cup Reads \cup Answer
      <4> SUFFICES ASSUME NEW d \in Devices PROVE diff'[d] \in {NoCall} \cup Reads \cup Answer
        OBVIOUS
      <4>1. CASE diff'[d] = diff[d]
        BY <1>1, <4>1
      <4>2. CASE diff[d] \in Reads \cup Answer /\ diff'[d] = [diff[d] EXCEPT !.again = TRUE]
        BY <1>4, <4>2
      <4> QED BY <1>5, <4>1, <4>2
    <3>2. DOMAIN diff' = Devices /\ diff' = [d \in Devices |-> diff'[d]]
      BY <1>3
    <3> QED BY <3>1, <3>2
  <2>2. cursor' \in [Devices -> State] /\ seen' \in [Devices -> SUBSET Keys]
    BY <1>1, <1>2, <1>3 DEF State
  <2>3. online' \subseteq Devices /\ behind' \subseteq Devices /\ drops' \in Nat
    BY <1>1, <1>3
  <2> QED BY <1>0, <2>1, <2>2, <2>3 DEF DiffInv, DeviceTypes
<1>7. ASSUME NEW d \in Devices PROVE SameCall(d)
  <2>1. diff[d].stage \in {"rows", "settle"} => diff[d] \in Reads
    BY CallTypes DEF DiffInv
  <2>2. diff[d].stage = "mark" => diff[d] \in Answer
    BY CallTypes DEF DiffInv
  <2> QED BY <1>4, <1>5, <2>1, <2>2 DEF SameCall
<1>8. ASSUME NEW d \in Devices, d \notin takes PROVE CaughtUp(d)' /\ CallInv(d)'
  BY <1>0, <1>3, <1>7, <1>8, DeviceStays
<1>9. ASSUME NEW d \in takes PROVE CaughtUp(d)' /\ CallInv(d)'
  <2> DEFINE sent == Named(k, u0.pts)
  <2>0. d \in Devices /\ diff[d] = NoCall /\ Fits(d, k, u0)
    BY <1>1, <1>3
  <2>1. CallInv(d)'
    BY <1>7, <2>0 DEF SameCall, CallInv, NoCall
  <2>2. /\ CaughtUp(d) /\ cursor[d].pts \in Nat /\ account.pts \in Nat
        /\ \A u \in Standing(Account) : u.pts \in Nat
        /\ \A u \in Standing(Account)' :
              u \in Standing(Account) \/ (u.pts \in Nat /\ account.pts < u.pts)
    BY <1>0, <1>1, <2>0, DiffLog DEF DiffInv, State
  <2>3. cursor'[d].pts = IF Scope[k] = Account THEN u0.pts ELSE cursor[d].pts
    BY <1>3, <2>0
  <2>4. seen'[d] = seen[d] \cup {k} /\ hidden' = hidden
    BY <1>0, <1>3, <2>0
  <2>5. CASE cursor'[d].pts = cursor[d].pts
    <3>1. cursor'[d].pts <= account'.pts
      BY <1>0, <2>2, <2>5 DEF CaughtUp
    <3>2. ASSUME NEW u \in Standing(Account)', u.pts <= cursor'[d].pts
          PROVE  u.name \in seen'[d] \/ Names(hidden'[d], u)
      <4>1. u \in Standing(Account)
        BY <2>2, <2>5, <3>2 DEF CaughtUp
      <4> QED BY <2>2, <2>4, <2>5, <3>2, <4>1 DEF CaughtUp, Names
    <3> QED BY <2>1, <3>1, <3>2 DEF CaughtUp
  <2>6. CASE cursor'[d].pts # cursor[d].pts
    <3>1. Scope[k] = Account /\ cursor'[d].pts = u0.pts
          /\ u0.pts = cursor[d].pts + PtsCount[k] /\ PtsCount[k] > 0
      BY <1>2, <2>0, <2>2, <2>3, <2>6 DEF Fits
    <3>2. sent \in Taken(Account) /\ sent.pts = u0.pts /\ sent.name = k
      BY <1>0, <1>2, <3>1 DEF Taken, HeldAt, CountedIn, Named, k, u0
    <3>3. cursor'[d].pts <= account'.pts
      BY <1>0, <3>1, <3>2, AccountScope DEF DiffInv, Separate, TakenBelow
    <3>4. ASSUME NEW u \in Standing(Account)', u.pts <= cursor'[d].pts
          PROVE  u.name \in seen'[d] \/ Names(hidden'[d], u)
      <4>1. u \in Standing(Account)
        BY <1>0, <1>2, <2>2, <3>1, <3>3, <3>4
      <4>2. u \in Taken(Account) /\ Low(u) \in Int /\ Low(u) < u.pts /\ u.pts \in Nat
        BY <1>1, <4>1, AccountScope, TakenRanges
      <4>3. Low(sent) = cursor[d].pts
        BY <1>2, <2>2, <3>1, <3>2 DEF Low
      <4>4. u = sent \/ u.pts <= Low(sent) \/ sent.pts <= Low(u)
        BY <3>2, <4>2 DEF DiffInv, Separate
      <4>5. CASE u = sent
        BY <2>4, <3>2, <4>5
      <4>6. CASE u.pts <= cursor[d].pts
        BY <2>2, <2>4, <4>1, <4>6 DEF CaughtUp, Names
      <4>7. ~(sent.pts <= Low(u))
        BY <1>2, <3>1, <3>2, <3>4, <4>2
      <4> QED BY <4>3, <4>4, <4>5, <4>6, <4>7
    <3> QED BY <2>1, <3>3, <3>4 DEF CaughtUp
  <2> QED BY <2>5, <2>6
<1> QED BY <1>0, <1>6, <1>8, <1>9, DiffLog DEF DiffInv

----------------------------------------------------------------------------
\* Every step.

(* The log is empty and no device has asked. *)
LEMMA DiffInvInit == DiffInit => DiffInv
<1> SUFFICES ASSUME DiffInit PROVE DiffInv
  OBVIOUS
<1>1. LogInv
  BY LogInvInit DEF DiffInit
<1>2. /\ \A w \in Workers : work[w].stage = "idle"
      /\ \A k \in Keys : row[k] = NoRow
  BY IdleRecord DEF DiffInit, Init
<1>3. Taken(Account) = {} /\ Standing(Account) = {}
  BY <1>2 DEF Taken, Standing, InRows, HeldAt, CountedIn
<1>4. Separate(Account) /\ Numbered
  BY <1>2, <1>3 DEF Separate, TakenBelow, Numbered
<1>5. DeviceTypes
  BY DEF DiffInit, DeviceTypes, State
<1>6. \A d \in Devices : CaughtUp(d) /\ CallInv(d)
  BY <1>3 DEF DiffInit, Init, CaughtUp, CallInv, NoCall
<1> QED BY <1>1, <1>4, <1>5, <1>6 DEF DiffInv

(* Every step keeps devices caught up. *)
LEMMA DiffInvNext == DiffInv /\ [DiffNext]_allVars => DiffInv'
<1> SUFFICES ASSUME DiffInv, [DiffNext]_allVars PROVE DiffInv'
  OBVIOUS
<1>0. DeviceTypes
  BY DEF DiffInv
<1>1. ASSUME UNCHANGED <<cursor, seen, hidden, diff>>, online' \subseteq Devices,
             behind' \subseteq Devices, drops' \in Nat, swept' \subseteq Keys
      PROVE  DiffInv'
  <2>1. DeviceTypes'
    BY <1>0, <1>1 DEF DeviceTypes
  <2>2. \A d \in Devices : SameCall(d)
    BY <1>1 DEF SameCall
  <2> QED BY <1>1, <2>1, <2>2, AllStay
<1>2. CASE (Publishing \/ Upkeep) /\ LogOnly
  BY <1>0, <1>1, <1>2 DEF LogOnly, deviceVars, DeviceTypes
<1>3. ASSUME NEW d \in Devices, Connect(d) \/ Disconnect(d) \/ Poll(d) PROVE DiffInv'
  BY <1>0, <1>1, <1>3 DEF Connect, Disconnect, Poll, DeviceTypes
<1>4. CASE Restart
  <2>1. DeviceTypes' /\ \A d \in Devices : diff'[d] = NoCall
    BY <1>0, <1>4 DEF Restart, DeviceTypes
  <2> QED BY <1>4, <2>1, AllStay DEF Restart
<1>5. CASE UNCHANGED allVars
  BY <1>0, <1>1, <1>5 DEF allVars, deviceVars, DeviceTypes
<1>6. ASSUME NEW d \in Devices, Ask(d) \/ Reading(d) PROVE DiffInv'
  BY <1>6, AskKeeps, FetchKeeps, SettleKeeps, AwaitKeeps, BuildKeeps, MarkKeeps, ReplyKeeps
  DEF Reading
<1> QED BY <1>2, <1>3, <1>4, <1>5, <1>6, PushKeeps DEF DiffNext

(* The types of Difference hold in every reachable state. *)
THEOREM DiffTypeCorrect == DiffSpec => []DiffTypeOK
<1>1. DiffInv => DiffTypeOK
  BY DEF DiffInv, LogInv, Shape, DeviceTypes, DiffTypeOK, HiddenRow, State
<1> QED BY DiffInvInit, DiffInvNext, <1>1, PTL DEF DiffSpec

(* However devices, calls and publishers interleave, and whatever connections break
   and processes die, a device moves past an update only after it was given the
   update, except for the rows that a difference is known to hide. *)
THEOREM OnlyHiddenSkipped == DiffSpec => []SkipsOnlyHidden
<1>1. DiffInv => SkipsOnlyHidden
  <2> SUFFICES ASSUME DiffInv, NEW d \in Devices, NEW k \in Keys,
                      Passed(d, k), PtsCount[k] > 0
               PROVE  Covered(d, k)
    BY DEF SkipsOnlyHidden
  <2> DEFINE u == Named(k, row[k].pts)
  <2>1. u \in Standing(Account) /\ u.name = k /\ u.pts = row[k].pts
    BY DEF Passed, Standing, InRows, CountedIn, Named
  <2>2. k \in seen[d] \/ Names(hidden[d], u)
    BY <2>1 DEF DiffInv, CaughtUp, Passed
  <2> QED BY <2>1, <2>2 DEF Names, Covered, HiddenFrom
<1> QED BY DiffInvInit, DiffInvNext, <1>1, PTL DEF DiffSpec

----------------------------------------------------------------------------
\* Marks and payloads.

\* The key's row has its payload, or had it once.
Finished(k) == (row[k] # NoRow /\ row[k].payload # 0) \/ k \in swept

\* What is about to be marked is finished.
CreatesUnmarked ==
    \A w \in Workers : work[w].stage = "create" => ~work[w].held.published
SentFinished ==
    \A w \in Workers : work[w].stage \in {"send", "mark"} =>
        row[work[w].key] = NoRow \/ Finished(work[w].key)
CallFinished(d) ==
    /\ diff[d].stage = "settle" => \A e \in diff[d].kept : e.ready => Finished(e.key)
    /\ diff[d].stage = "mark" => \A k \in diff[d].marks : Finished(k)

MarkInv ==
    /\ DiffInv /\ PayloadInv
    /\ PublishedHasPayload /\ CreatesUnmarked /\ SentFinished
    /\ \A d \in Devices : CallFinished(d)

(* A payload is not taken from its row; only trimming and the sweep drop a row that
   has one, and the history notes it. *)
LEMMA FinishedStays ==
    ASSUME DiffInv, [DiffNext]_allVars, NEW k \in Keys, Finished(k)
    PROVE  Finished(k)'
<1> USE DEF DiffInv, LogInv, Shape
<1>0. /\ row \in [Keys -> Row \cup {NoRow}] /\ work \in [Workers -> WorkRecord]
      /\ \A w \in Workers : Busy(w) => work[w].key \in Keys
  BY BusyRecord DEF TypeOK, Busy
<1>1. [Next]_vars
  BY DiffSteps
<1>2. ASSUME row[k] # NoRow, row[k].payload # 0, row'[k] # NoRow PROVE row'[k].payload # 0
  <2>1. CASE QuietStep
    <3>1. StaysPut
      BY <2>1, QuietStays
    <3> QED BY <1>2, <3>1 DEF StaysPut, RowStays
  <2>2. CASE \/ \E w \in Workers : Allocate(w)
             \/ \E s \in Scopes, d \in RpcDates : AdvancePts(s, d)
    BY <1>2, <2>2 DEF Allocate, AdvancePts
  <2>3. ASSUME NEW w \in Workers, CreateRow(w) PROVE row'[k].payload # 0
    <3> DEFINE rows == [row EXCEPT ![work[w].key] = work[w].held]
    <3>1. row' = Trimmed(rows, Scope[work[w].key]) /\ row[work[w].key] = NoRow
      BY <2>3 DEF CreateRow, CreatesNewest, Newest
    <3>2. row'[k] \in {NoRow, rows[k]}
      BY <3>1 DEF Trimmed
    <3>3. rows[k] = row[k]
      BY <1>0, <1>2, <3>1
    <3> QED BY <1>2, <3>2, <3>3
  <2>4. ASSUME NEW w \in Workers, StorePayload(w) PROVE row'[k].payload # 0
    <3>1. work[w].held.pts # 0
      BY <2>4 DEF StorePayload, Numbered
    <3>2. \A p : [row[k] EXCEPT !.payload = p].payload = p
      BY <1>0, <1>2 DEF Row
    <3> QED BY <1>0, <1>2, <2>4, <3>1, <3>2 DEF StorePayload
  <2> QED
    BY <1>1, <2>1, <2>2, <2>3, <2>4 DEF Next, Publishing, Step, Upkeep, QuietStep
<1>3. ASSUME row[k] # NoRow, row[k].payload # 0, row'[k] = NoRow PROVE k \in swept'
  <2>1. CASE (Publishing \/ Upkeep) /\ LogOnly
    <3>1. ~Releases
      <4> SUFFICES ASSUME NEW w \in Workers, work[w].stage = "release", work'[w] # work[w]
                   PROVE  FALSE
        BY DEF Releases
      <4>1. ASSUME Release(w) PROVE FALSE
        BY <1>0, <1>3, <4>1 DEF Release, Pending
      <4>2. ASSUME NEW v \in Workers, v # w, Step(v) PROVE work'[w] = work[w]
        BY <1>0, <4>2
        DEF Step, Reclaim, Allocate, CreateRow, CreateFails, Abort, Release, StorePayload,
            MarkPublished, Goes, Becomes, Ends
      <4>3. ASSUME Step(w) PROVE Release(w)
        BY <4>3 DEF Step, Reclaim, Allocate, CreateRow, CreateFails, Abort, StorePayload,
                    MarkPublished
      <4>4. ASSUME NEW v \in Workers, NEW j \in Keys, Start(v, j) PROVE work'[w] = work[w]
        BY <1>0, <4>4 DEF Start, Busy, Becomes
      <4>5. Upkeep => work'[w] = work[w]
        BY DEF Upkeep, AdvancePts, GraceElapses, PruneExpired
      <4> QED BY <2>1, <4>1, <4>2, <4>3, <4>4, <4>5 DEF Publishing
    <3> QED BY <1>3, <2>1, <3>1 DEF LogOnly
  <2>2. ASSUME NEW d \in Devices, Settle(d) PROVE FALSE
    BY <1>0, <1>3, <2>2 DEF Settle, DiscardAbandoned, Pending, vars
  <2>3. ASSUME NEW j, Published(j) PROVE FALSE
    <3>1. row[k] \in Row /\ [row[k] EXCEPT !.published = TRUE] \in Row
      BY <1>0, <1>3 DEF Row
    <3> QED BY <1>0, <1>3, <2>3, <3>1, DistinctNames DEF Published, Row
  <2>4. ASSUME NEW d \in Devices, MarkPage(d) PROVE FALSE
    BY <2>3, <2>4 DEF MarkPage, ReaderMarks
  <2>5. CASE UNCHANGED row
    BY <1>3, <2>5
  <2> QED
    BY <2>1, <2>2, <2>4, <2>5
    DEF DiffNext, Reading, Push, Sent, Connect, Disconnect, Poll, Ask, FetchRows,
        AwaitPending, BuildPage, Reply, Restart, Crash, allVars, vars
<1>4. swept \subseteq swept'
  BY DEF DiffNext, LogOnly, Reading, Push, Connect, Disconnect, Poll, Ask, FetchRows, Settle,
         AwaitPending, BuildPage, MarkPage, Reply, Restart, allVars
<1> QED BY <1>2, <1>3, <1>4 DEF Finished

(* A step of the log marks only finished rows, sends only what it stored, and
   inserts rows unmarked. *)
LEMMA LogMarks ==
    ASSUME OneWorkerPerKey, MarkInv, [DiffNext]_allVars
    PROVE  PublishedHasPayload' /\ CreatesUnmarked' /\ SentFinished'
<1> DEFINE Goal == PublishedHasPayload' /\ CreatesUnmarked' /\ SentFinished'
           \* No row appears, and only finished ones are marked.
           RowsKept == \A k \in Keys : row'[k] # NoRow =>
              /\ row[k] # NoRow
              /\ row'[k].published => row[k].published \/ Finished(k)
           \* No call begins to create or to send.
           WorkKept == \A w \in Workers :
              \/ work'[w] = work[w]
              \/ work'[w].stage \notin {"create", "send", "mark"}
              \/ /\ work[w].stage = "send" /\ work'[w].stage = "mark"
                 /\ work'[w].key = work[w].key
<1> USE DEF MarkInv, DiffInv, LogInv, Shape
<1>0. /\ row \in [Keys -> Row \cup {NoRow}] /\ work \in [Workers -> WorkRecord]
      /\ \A k \in Keys : row[k] # NoRow => row[k] \in Row
      /\ \A w \in Workers : Busy(w) => work[w].key \in Keys /\ work[w].key \in Jobs[w]
  BY BusyRecord DEF TypeOK, Busy, PayloadInv, OwnJobs
<1>1. \A k \in Keys : Finished(k) => Finished(k)'
  BY FinishedStays
<1>2. ASSUME RowsKept PROVE PublishedHasPayload'
  <2> SUFFICES ASSUME NEW k \in Keys, row'[k] # NoRow, row'[k].published
               PROVE  Finished(k)'
    BY DEF PublishedHasPayload, Finished
  <2>1. Finished(k)
    BY <1>2 DEF PublishedHasPayload, Finished
  <2> QED BY <1>1, <2>1
<1>3. ASSUME RowsKept, NEW w \in Workers, work[w].stage \in {"send", "mark"},
             NEW j, j = work[w].key
      PROVE  row'[j] = NoRow \/ Finished(j)'
  <2>1. j \in Keys /\ (row[j] = NoRow \/ Finished(j))
    BY <1>0, <1>3 DEF Busy, SentFinished
  <2> QED BY <1>1, <1>3, <2>1
<1>4. ASSUME RowsKept, WorkKept PROVE Goal
  <2>1. CreatesUnmarked'
    BY <1>4 DEF CreatesUnmarked
  <2>2. SentFinished'
    <3> SUFFICES ASSUME NEW w \in Workers, work'[w].stage \in {"send", "mark"},
                        NEW j, j = work'[w].key
                 PROVE  row'[j] = NoRow \/ Finished(j)'
      BY DEF SentFinished, Finished
    <3>1. work[w].stage \in {"send", "mark"} /\ work'[w].key = work[w].key
      BY <1>4
    <3> QED BY <1>3, <1>4, <3>1
  <2> QED BY <1>2, <1>4, <2>1, <2>2
<1>5. UNCHANGED row => RowsKept
  OBVIOUS
<1>6. UNCHANGED work => WorkKept
  OBVIOUS
<1>7. ASSUME NEW w \in Workers,
             \/ Ends(w)
             \/ \E stage \in {"reserve", "build", "release"} : \E k, held, claimed :
                   Becomes(w, stage, k, held, claimed)
             \/ work[w].stage = "send" /\ Goes(w, "mark")
      PROVE  WorkKept
  BY <1>0, <1>7, IdleRecord DEF Ends, Goes, Becomes
<1>8. ASSUME NEW k \in Keys, Published(k), row[k] = NoRow \/ Finished(k) PROVE RowsKept
  <2>1. \A j \in Keys : j # k => row'[j] = row[j]
    BY <1>0, <1>8 DEF Published
  <2>2. row[k] = NoRow => row'[k] = NoRow
    BY <1>0, <1>8 DEF Published
  <2> QED BY <1>8, <2>1, <2>2
<1>9. ASSUME NEW k \in Keys, NEW f \in BOOLEAN, row[k] # NoRow,
             row' = [row EXCEPT ![k] = [row[k] EXCEPT !.fresh = f]]
      PROVE  RowsKept
  <2>1. [row[k] EXCEPT !.fresh = f].published = row[k].published
    BY <1>0, <1>9 DEF Row
  <2> QED BY <1>0, <1>9, <2>1
<1>10. ASSUME NEW w \in Workers, NEW k \in Keys, Start(w, k) PROVE Goal
  <2>1. WorkKept
    <3>1. \/ UNCHANGED work
          \/ Becomes(w, "reserve", k, NoRow, FALSE)
          \/ Becomes(w, "build", k, row[k], FALSE)
      BY <1>10 DEF Start
    <3> QED BY <1>6, <1>7, <3>1
  <2> QED BY <1>4, <1>5, <1>10, <2>1 DEF Start
<1>11. ASSUME NEW w \in Workers, Reclaim(w) PROVE Goal
  <2>1. work[w].key \in Keys
    BY <1>0, <1>11 DEF Reclaim, Busy
  <2>2. RowsKept
    BY <1>9, <1>11, <2>1 DEF Reclaim
  <2>3. WorkKept
    BY <1>7, <1>11 DEF Reclaim
  <2> QED BY <1>4, <2>2, <2>3
<1>12. ASSUME NEW w \in Workers, Allocate(w) PROVE Goal
  <2>1. /\ row' = row /\ work'[w].stage = "create" /\ ~work'[w].held.published
        /\ \A v \in Workers \ {w} : work'[v] = work[v]
    BY <1>0, <1>12 DEF Allocate, Becomes
  <2>2. CreatesUnmarked'
    BY <2>1 DEF CreatesUnmarked
  <2>3. SentFinished'
    <3> SUFFICES ASSUME NEW v \in Workers, work'[v].stage \in {"send", "mark"},
                        NEW j, j = work'[v].key
                 PROVE  row'[j] = NoRow \/ Finished(j)'
      BY DEF SentFinished, Finished
    <3> QED BY <1>3, <1>5, <2>1
  <2> QED BY <1>2, <1>5, <2>1, <2>2, <2>3
<1>13. ASSUME NEW w \in Workers, CreateRow(w) PROVE Goal
  <2> DEFINE k == work[w].key
             rows == [row EXCEPT ![k] = work[w].held]
  <2>1. /\ k \in Keys /\ k \in Jobs[w] /\ ~work[w].held.published
        /\ row' = Trimmed(rows, Scope[k])
    BY <1>0, <1>13 DEF CreateRow, Busy, CreatesUnmarked
  <2>2. \A j \in Keys : row'[j] \in {NoRow, rows[j]}
    BY <2>1 DEF Trimmed
  <2>3. \A j \in Keys : rows[j] = IF j = k THEN work[w].held ELSE row[j]
    BY <1>0
  <2>4. work'[w].stage = "build" /\ \A v \in Workers \ {w} : work'[v] = work[v]
    BY <1>0, <1>13 DEF CreateRow, Goes, Becomes
  <2> HIDE DEF k, rows
  <2>5. PublishedHasPayload'
    <3> SUFFICES ASSUME NEW j \in Keys, row'[j] # NoRow, row'[j].published
                 PROVE  Finished(j)'
      BY DEF PublishedHasPayload, Finished
    <3>1. j # k /\ row'[j] = row[j]
      BY <2>1, <2>2, <2>3
    <3>2. Finished(j)
      BY <3>1 DEF PublishedHasPayload, Finished
    <3> QED BY <1>1, <3>2
  <2>6. CreatesUnmarked'
    BY <2>4 DEF CreatesUnmarked
  <2>7. SentFinished'
    <3> SUFFICES ASSUME NEW v \in Workers, work'[v].stage \in {"send", "mark"},
                        NEW j, j = work'[v].key
                 PROVE  row'[j] = NoRow \/ Finished(j)'
      BY DEF SentFinished, Finished
    <3>1. v # w /\ work'[v] = work[v] /\ j \in Keys /\ j \in Jobs[v]
      BY <1>0, <2>4 DEF Busy
    <3>2. j # k
      BY <2>1, <3>1 DEF OneWorkerPerKey
    <3>3. row'[j] \in {NoRow, row[j]}
      BY <2>2, <2>3, <3>1, <3>2
    <3>4. row[j] = NoRow \/ Finished(j)
      BY <3>1 DEF SentFinished
    <3> QED BY <1>1, <3>1, <3>3, <3>4
  <2> QED BY <2>5, <2>6, <2>7
<1>14. ASSUME NEW w \in Workers, CreateFails(w) \/ Abort(w) PROVE Goal
  <2>1. WorkKept
    BY <1>7, <1>14 DEF CreateFails, Abort, Goes
  <2> QED BY <1>4, <1>5, <1>14, <2>1 DEF CreateFails, Abort
<1>15. ASSUME NEW w \in Workers, Release(w) PROVE Goal
  <2>1. RowsKept
    BY <1>0, <1>15 DEF Release
  <2>2. WorkKept
    BY <1>7, <1>15 DEF Release
  <2> QED BY <1>4, <2>1, <2>2
<1>16. ASSUME NEW w \in Workers, StorePayload(w) PROVE Goal
  <2> DEFINE k == work[w].key
  <2>1. k \in Keys /\ work[w].held.pts # 0
    BY <1>0, <1>16 DEF StorePayload, Busy, Numbered
  <2>2. ASSUME NEW r \in Row, NEW p
        PROVE  /\ [r EXCEPT !.payload = p].published = r.published
               /\ [r EXCEPT !.payload = p].payload = p
    BY DEF Row
  <2>3. RowsKept
    BY <1>0, <1>16, <2>2 DEF StorePayload
  <2>4. ASSUME NEW j, j = k PROVE row'[j] = NoRow \/ Finished(j)'
    <3>1. row'[j] # NoRow => row'[j].payload # 0
      BY <1>0, <1>16, <2>1, <2>2, <2>4 DEF StorePayload
    <3> QED BY <3>1 DEF Finished
  <2>5. /\ work'[w].stage = "send" /\ work'[w].key = k
        /\ \A v \in Workers \ {w} : work'[v] = work[v]
    BY <1>0, <1>16 DEF StorePayload, Goes, Becomes
  <2> HIDE DEF k
  <2>6. CreatesUnmarked'
    BY <2>5 DEF CreatesUnmarked
  <2>7. SentFinished'
    <3> SUFFICES ASSUME NEW v \in Workers, work'[v].stage \in {"send", "mark"},
                        NEW j, j = work'[v].key
                 PROVE  row'[j] = NoRow \/ Finished(j)'
      BY DEF SentFinished, Finished
    <3>1. CASE v = w
      BY <2>4, <2>5, <3>1
    <3>2. CASE v # w
      BY <1>3, <2>3, <2>5, <3>2
    <3> QED BY <3>1, <3>2
  <2> QED BY <1>2, <2>3, <2>6, <2>7
<1>17. ASSUME NEW w \in Workers, NEW reached \in BOOLEAN, Sent(w, reached) PROVE Goal
  <2>1. WorkKept
    BY <1>7, <1>17 DEF Sent
  <2> QED BY <1>4, <1>5, <1>17, <2>1 DEF Sent
<1>18. ASSUME NEW w \in Workers, MarkPublished(w) PROVE Goal
  <2>1. work[w].key \in Keys /\ (row[work[w].key] = NoRow \/ Finished(work[w].key))
    BY <1>0, <1>18 DEF MarkPublished, Busy, SentFinished
  <2>2. RowsKept
    BY <1>8, <1>18, <2>1 DEF MarkPublished
  <2>3. WorkKept
    BY <1>7, <1>18 DEF MarkPublished
  <2> QED BY <1>4, <2>2, <2>3
<1>19. ASSUME NEW k \in Keys, GraceElapses(k) \/ DiscardAbandoned(k) PROVE Goal
  <2>1. RowsKept
    <3>1. CASE GraceElapses(k)
      BY <1>9, <3>1 DEF GraceElapses, Pending
    <3>2. CASE DiscardAbandoned(k)
      BY <1>0, <3>2 DEF DiscardAbandoned
    <3> QED BY <1>19, <3>1, <3>2
  <2> QED BY <1>4, <1>6, <1>19, <2>1 DEF GraceElapses, DiscardAbandoned
<1>20. ASSUME NEW d \in Cutoffs, PruneExpired(d) PROVE Goal
  <2>1. RowsKept
    BY <1>20 DEF PruneExpired
  <2> QED BY <1>4, <1>6, <1>20, <2>1 DEF PruneExpired
<1>21. ASSUME NEW s \in Scopes, NEW d \in RpcDates, AdvancePts(s, d) PROVE Goal
  BY <1>4, <1>5, <1>6, <1>21 DEF AdvancePts
<1>22. ASSUME Crash PROVE Goal
  <2>1. WorkKept
    BY <1>22, IdleRecord DEF Crash
  <2> QED BY <1>4, <1>5, <1>22, <2>1 DEF Crash
<1>23. ASSUME UNCHANGED vars PROVE Goal
  BY <1>4, <1>5, <1>6, <1>23 DEF vars
<1>24. ASSUME NEW w \in Workers, Step(w) PROVE Goal
  BY <1>11, <1>12, <1>13, <1>14, <1>15, <1>16, <1>18, <1>24 DEF Step
<1>25. ASSUME NEW d \in Devices, NEW k \in Keys,
              diff[d].stage = "mark", k \in diff[d].marks, ReaderMarks(k)
       PROVE  Goal
  <2>1. Finished(k)
    BY <1>25 DEF CallFinished
  <2>2. RowsKept
    BY <1>8, <1>25, <2>1 DEF ReaderMarks
  <2> QED BY <1>4, <1>6, <1>25, <2>2 DEF ReaderMarks
<1>26. ASSUME Publishing \/ Upkeep PROVE Goal
  <2> HIDE DEF Goal
  <2> QED BY <1>10, <1>19, <1>20, <1>21, <1>24, <1>26 DEF Publishing, Upkeep
<1>27. LogStep
  BY DiffSteps
<1>28. Goal
  <2> HIDE DEF Goal
  <2> QED BY <1>17, <1>19, <1>22, <1>23, <1>25, <1>26, <1>27 DEF LogStep
<1> QED BY <1>28

(* What a call is about to mark is finished: entries say so of the rows they are made
   of, and an answer holds the entries that are ready. *)
LEMMA CallMarks ==
    ASSUME MarkInv, [DiffNext]_allVars, NEW d \in Devices
    PROVE  CallFinished(d)'
<1> USE DEF MarkInv
<1>0. /\ diff \in [Devices -> {NoCall} \cup Reads \cup Answer] /\ Shape
      /\ \A k \in Keys : row[k] # NoRow => row[k] \in Row
  BY DEF DiffInv, DeviceTypes, LogInv, Shape, TypeOK
<1>1. \A k \in Keys : Finished(k) => Finished(k)'
  BY FinishedStays
<1>2. /\ diff[d].stage \in {"rows", "settle"} => diff[d] \in Reads
      /\ diff[d].stage = "mark" => diff[d] \in Answer
  BY CallTypes DEF DiffInv
<1>3. ASSUME diff'[d].stage = diff[d].stage,
             diff[d].stage = "settle" => diff'[d].kept = diff[d].kept,
             diff[d].stage = "mark" => diff'[d].marks \subseteq diff[d].marks
      PROVE  CallFinished(d)'
  <2>1. diff[d].stage = "settle" =>
          \A e \in diff[d].kept : e.key \in Keys /\ (e.ready => Finished(e.key))
    BY <1>2 DEF CallFinished, Reads, EntryOf
  <2>2. diff[d].stage = "mark" => \A k \in diff[d].marks : k \in Keys /\ Finished(k)
    BY <1>2 DEF CallFinished, Answer
  <2>3. ASSUME diff'[d].stage = "settle", NEW e \in diff'[d].kept, e.ready
        PROVE  Finished(e.key)'
    <3>1. e.key \in Keys /\ Finished(e.key)
      BY <1>3, <2>1, <2>3
    <3> QED BY <1>1, <3>1
  <2>4. ASSUME diff'[d].stage = "mark", NEW k \in diff'[d].marks PROVE Finished(k)'
    <3>1. k \in Keys /\ Finished(k)
      BY <1>3, <2>2, <2>4
    <3> QED BY <1>1, <3>1
  <2> QED BY <2>3, <2>4 DEF CallFinished, Finished
<1>4. diff'[d].stage \notin {"settle", "mark"} => CallFinished(d)'
  BY DEF CallFinished
<1>5. diff'[d] = diff[d] => CallFinished(d)'
  BY <1>3
<1>6. ASSUME NEW c \in Devices, c # d, Ask(c) \/ Reading(c) PROVE CallFinished(d)'
  BY <1>0, <1>5, <1>6
  DEF Ask, Reading, FetchRows, Settle, AwaitPending, BuildPage, MarkPage, Reply
<1>7. CASE Ask(d) \/ Reply(d) \/ AwaitPending(d) \/ Restart
  <2>1. CASE AwaitPending(d)
    <3>1. diff[d] \in Reads
      BY <1>2, <2>1 DEF AwaitPending, Settled
    <3>2. diff'[d] = [diff[d] EXCEPT !.stage = "rows", !.waited = TRUE]
      BY <1>0, <2>1 DEF AwaitPending
    <3>3. diff'[d].stage = "rows"
      BY <3>1, <3>2 DEF Reads
    <3> QED BY <1>4, <3>3
  <2>2. CASE Ask(d) \/ Reply(d) \/ Restart
    BY <1>0, <1>4, <2>2 DEF Ask, Reply, Restart, NoCall
  <2> QED BY <1>7, <2>1, <2>2
<1>8. CASE FetchRows(d)
  <2> DEFINE rows == RowsAfter(Account, diff[d].from)
             kept == {e \in FirstOf(rows, FetchLimit) : e.ready}
  <2>1. diff[d] \in Reads /\ UNCHANGED <<row, swept>>
    BY <1>2, <1>8 DEF FetchRows, vars
  <2>2. diff'[d].stage = "settle" /\ diff'[d].kept = kept
    BY <1>0, <1>8, <2>1 DEF FetchRows, AccountRowsAfter, Reads
  <2>3. ASSUME NEW e \in kept PROVE Finished(e.key)
    <3>1. PICK k \in Keys : /\ row[k] # NoRow
                            /\ e = Entry(k, <<row[k].pts, row[k].seq>>)
      BY DEF RowsAfter, FirstOf
    <3> QED BY <3>1 DEF Entry, Finished
  <2> HIDE DEF kept
  <2> QED BY <2>1, <2>2, <2>3 DEF CallFinished, Finished
<1>9. CASE Settle(d)
  <2> DEFINE e == Head1(diff[d].todo)
             new == Entry(e.key, e.at)
  <2>1. diff[d] \in Reads /\ diff[d].stage = "settle"
    BY <1>2, <1>9 DEF Settle
  <2> DEFINE rest == [diff[d] EXCEPT !.todo = diff[d].todo \ {e}]
  <2>0. rest.stage = "settle" /\ rest.kept = diff[d].kept /\ rest \in Reads
    BY <2>1 DEF Reads
  <2>2. /\ diff'[d].stage = "settle"
        /\ \/ diff'[d].kept = diff[d].kept
           \/ /\ diff'[d].kept = diff[d].kept \cup {new}
              /\ row[e.key] # NoRow /\ UNCHANGED <<row, swept>>
    <3>1. \/ diff'[d] = rest
          \/ /\ diff'[d] = [rest EXCEPT !.kept = rest.kept \cup {new}]
             /\ row[e.key] # NoRow /\ UNCHANGED <<row, swept>>
      BY <1>0, <1>9 DEF Settle, vars
    <3>2. \A S : /\ [rest EXCEPT !.kept = S].kept = S
                 /\ [rest EXCEPT !.kept = S].stage = rest.stage
      BY <2>0 DEF Reads
    <3> HIDE DEF rest, new, e
    <3> QED BY <2>0, <3>1, <3>2
  <2>3. CASE diff'[d].kept = diff[d].kept
    BY <1>3, <2>1, <2>2, <2>3
  <2>4. CASE /\ diff'[d].kept = diff[d].kept \cup {new}
             /\ row[e.key] # NoRow /\ UNCHANGED <<row, swept>>
    <3>1. new.ready => Finished(new.key)
      BY <2>4 DEF Entry, Finished
    <3> HIDE DEF new
    <3>2. \A f \in diff'[d].kept : f.ready => Finished(f.key)
      BY <2>1, <2>4, <3>1 DEF CallFinished
    <3> QED BY <2>2, <2>4, <3>2 DEF CallFinished, Finished
  <2> QED BY <2>2, <2>3, <2>4
<1>10. CASE BuildPage(d)
  <2>1. diff[d].stage = "settle" /\ UNCHANGED <<row, swept>>
    BY <1>10 DEF BuildPage, Settled, vars
  <2>2. diff'[d].stage = "mark"
    BY <1>0, <1>10 DEF BuildPage
  <2>3. diff'[d].marks = {e.key : e \in FirstOf(ReadyPrefix(diff[d].kept), MaxPage)}
    BY <1>0, <1>10 DEF BuildPage
  <2>4. \A k \in diff'[d].marks : Finished(k)
    BY <2>1, <2>3 DEF FirstOf, ReadyPrefix, CallFinished
  <2> QED BY <2>1, <2>2, <2>4 DEF CallFinished, Finished
<1>11. CASE MarkPage(d)
  <2>1. diff[d] \in Answer /\ diff[d].stage = "mark"
    BY <1>2, <1>11 DEF MarkPage
  <2>2. PICK k : diff'[d] = [diff[d] EXCEPT !.marks = diff[d].marks \ {k}]
    BY <1>0, <1>11 DEF MarkPage
  <2>3. diff'[d].stage = "mark" /\ diff'[d].marks \subseteq diff[d].marks
    BY <2>1, <2>2 DEF Answer
  <2> QED BY <1>3, <2>1, <2>3
<1>12. ASSUME NEW w \in Workers, Push(w) PROVE CallFinished(d)'
  <2>1. diff'[d] = diff[d] \/ (diff[d] # NoCall /\ diff'[d] = [diff[d] EXCEPT !.again = TRUE])
    BY <1>12 DEF Push
  <2>2. CASE diff[d] # NoCall /\ diff'[d] = [diff[d] EXCEPT !.again = TRUE]
    <3>1. CASE diff[d] \in Reads
      <4>1. diff'[d].stage = diff[d].stage /\ diff'[d].kept = diff[d].kept
        BY <2>2, <3>1 DEF Reads
      <4>2. diff[d].stage # "mark"
        BY <3>1 DEF Reads
      <4> QED BY <1>3, <4>1, <4>2
    <3>2. CASE diff[d] \in Answer
      <4>1. diff'[d].stage = diff[d].stage /\ diff'[d].marks = diff[d].marks
        BY <2>2, <3>2 DEF Answer
      <4>2. diff[d].stage # "settle"
        BY <3>2 DEF Answer
      <4> QED BY <1>3, <4>1, <4>2
    <3> QED BY <1>0, <2>2, <3>1, <3>2
  <2> QED BY <1>5, <2>1, <2>2
<1>13. CASE ((Publishing \/ Upkeep) /\ LogOnly) \/ UNCHANGED allVars
  BY <1>5, <1>13 DEF LogOnly, deviceVars, allVars
<1>14. ASSUME NEW c \in Devices, Connect(c) \/ Disconnect(c) \/ Poll(c)
       PROVE  CallFinished(d)'
  BY <1>5, <1>14 DEF Connect, Disconnect, Poll
<1> QED
  BY <1>6, <1>7, <1>8, <1>9, <1>10, <1>11, <1>12, <1>13, <1>14 DEF DiffNext, Reading

(* With one publisher per key, a row is marked published only with its payload,
   however late the mark of a difference or of a slow publisher comes, unless the row
   it is meant for was trimmed or swept. *)
THEOREM PublishedIsFinished ==
    ASSUME OneWorkerPerKey
    PROVE  DiffSpec => []PublishedHasPayload
<1>1. DiffInit => MarkInv
  <2> SUFFICES ASSUME DiffInit PROVE MarkInv
    OBVIOUS
  <2>1. DiffInv /\ PayloadInv
    BY DiffInvInit, PayloadInvInit DEF DiffInit
  <2>2. /\ \A w \in Workers : work[w].stage = "idle"
        /\ \A k \in Keys : row[k] = NoRow
        /\ \A d \in Devices : diff[d].stage = "none"
    BY IdleRecord DEF DiffInit, Init, NoCall
  <2> QED BY <2>1, <2>2
      DEF MarkInv, PublishedHasPayload, CreatesUnmarked, SentFinished, CallFinished
<1>2. MarkInv /\ [DiffNext]_allVars => MarkInv'
  <2> SUFFICES ASSUME MarkInv, [DiffNext]_allVars PROVE MarkInv'
    OBVIOUS
  <2>1. DiffInv' /\ [Next]_vars
    BY DiffInvNext, DiffSteps DEF MarkInv
  <2>2. PayloadInv'
    BY <2>1, PayloadInvNext DEF MarkInv
  <2>3. PublishedHasPayload' /\ CreatesUnmarked' /\ SentFinished'
    BY LogMarks
  <2>4. \A d \in Devices : CallFinished(d)'
    BY CallMarks
  <2> QED BY <2>1, <2>2, <2>3, <2>4 DEF MarkInv
<1>3. MarkInv => PublishedHasPayload
  BY DEF MarkInv
<1> QED BY <1>1, <1>2, <1>3, PTL DEF DiffSpec

----------------------------------------------------------------------------
\* Devices do not go back.

\* A call leads from the request's pts onwards.
Onwards(d) ==
    /\ diff[d].stage \in {"rows", "settle"} => diff[d].from <= diff[d].top.pts
    /\ diff[d].stage = "settle" =>
          /\ \A e \in diff[d].kept : diff[d].from <= e.pts
          /\ \A e \in diff[d].todo : /\ diff[d].from <= e.at[1]
                                     /\ ReservedAt(e.key, e.at[1], diff[d].from)
    /\ diff[d].stage = "mark" => cursor[d].pts <= diff[d].result.pts

OnwardsInv == DiffInv /\ \A d \in Devices : Onwards(d)

(* A call that a step leaves as it is still leads onwards. *)
LEMMA OnwardsStays ==
    ASSUME OnwardsInv, [DiffNext]_allVars, NEW d \in Devices,
           SameCall(d), cursor'[d] = cursor[d]
    PROVE  Onwards(d)'
<1>1. /\ diff[d].stage \in {"rows", "settle"} => diff[d] \in Reads
      /\ Onwards(d) /\ CallInv(d) /\ CaughtUp(d) /\ cursor[d] \in State
  BY CallTypes DEF OnwardsInv, DiffInv, DeviceTypes
<1>2. ASSUME diff[d].stage = "settle", NEW e \in diff[d].todo
      PROVE  diff[d].from <= e.at[1] /\ ReservedAt(e.key, e.at[1], diff[d].from)'
  <2>0. PICK p : p = diff[d].from
    OBVIOUS
  <2>1. e.key \in Keys /\ Scope[e.key] = Account
    BY <1>1, <1>2 DEF CallInv, Fetched, Entries, Reads, EntryOf
  <2>2. p \in Nat /\ p <= BasePts(Scope[e.key]) /\ ReservedAt(e.key, e.at[1], p) /\ p <= e.at[1]
    BY <1>1, <1>2, <2>0, <2>1, AccountScope DEF CallInv, CaughtUp, State, Onwards
  <2>3. ReservedAt(e.key, e.at[1], p)'
    BY <2>1, <2>2, DiffSteps, ReservedStays DEF OnwardsInv, DiffInv
  <2>4. diff'[d].from = p
    BY <1>2, <2>0 DEF SameCall
  <2> QED BY <2>0, <2>2, <2>3, <2>4 DEF ReservedAt
<1>3. diff[d].stage = "settle" =>
        /\ diff'[d].from = diff[d].from /\ diff'[d].todo = diff[d].todo
        /\ diff'[d].kept = diff[d].kept
  BY DEF SameCall
<1> QED BY <1>1, <1>2, <1>3 DEF SameCall, Onwards

(* The steps of a call lead onwards: what is fetched lies behind the request's pts,
   and a row read again was kept or reserved anew. *)
LEMMA CallOnwards ==
    ASSUME OnwardsInv, [DiffNext]_allVars, NEW d \in Devices,
           \/ Ask(d) \/ FetchRows(d) \/ Settle(d) \/ AwaitPending(d) \/ BuildPage(d)
    PROVE  Onwards(d)'
<1> USE DEF OnwardsInv
<1>0. /\ diff \in [Devices -> {NoCall} \cup Reads \cup Answer] /\ cursor[d] \in State
      /\ cursor' = cursor /\ account.pts \in Nat /\ Shape
      /\ Onwards(d) /\ CallInv(d) /\ CaughtUp(d)
  BY DEF DiffInv, DeviceTypes, LogInv, Shape, TypeOK, Ask, FetchRows, Settle, AwaitPending,
         BuildPage
<1>1. /\ diff[d].stage \in {"rows", "settle"} => diff[d] \in Reads
      /\ diff[d] \in Reads => diff[d].from \in Nat /\ diff[d].top.pts \in Nat
  BY CallTypes DEF DiffInv, Reads, State
<1>2. ASSUME Ask(d) PROVE Onwards(d)'
  <2>1. /\ diff'[d].stage = "rows" /\ diff'[d].from = cursor[d].pts
        /\ diff'[d].top.pts = account.pts
    BY <1>0, <1>2 DEF Ask
  <2> QED BY <1>0, <2>1 DEF CaughtUp, Onwards
<1>3. ASSUME AwaitPending(d) PROVE Onwards(d)'
  <2>1. diff[d] \in Reads /\ diff[d].stage = "settle"
    BY <1>1, <1>3 DEF AwaitPending, Settled
  <2>2. diff'[d].stage = "rows" /\ diff'[d].from = diff[d].from /\ diff'[d].top = diff[d].top
    BY <1>0, <1>3, <2>1 DEF AwaitPending, Reads
  <2> QED BY <1>0, <2>1, <2>2 DEF Onwards
<1>4. ASSUME FetchRows(d) PROVE Onwards(d)'
  <2> DEFINE rows == RowsAfter(Account, diff[d].from)
             found == FirstOf(rows, FetchLimit)
  <2>1. diff[d] \in Reads /\ diff[d].stage = "rows" /\ UNCHANGED vars
    BY <1>1, <1>4 DEF FetchRows
  <2>2. /\ diff'[d].stage = "settle" /\ diff'[d].from = diff[d].from
        /\ diff'[d].top = diff[d].top
        /\ diff'[d].todo \subseteq found /\ diff'[d].kept \subseteq found
    BY <1>0, <1>4, <2>1 DEF FetchRows, AccountRowsAfter, Reads
  <2>3. ASSUME NEW e \in found
        PROVE  /\ diff[d].from <= e.pts /\ diff[d].from <= e.at[1]
               /\ ReservedAt(e.key, e.at[1], diff[d].from)
    <3>1. PICK k \in Keys : /\ row[k] # NoRow /\ row[k].pts > diff[d].from
                            /\ e = Entry(k, <<row[k].pts, row[k].seq>>)
      BY DEF RowsAfter, FirstOf
    <3>2. e.key = k /\ e.pts = row[k].pts /\ e.at[1] = row[k].pts /\ row[k].pts \in Nat
      BY <1>0, <3>1 DEF Entry, Shape, TypeOK, Row
    <3>3. \A w \in Workers : work[w].stage = "create" => work[w].key # k
      BY <3>1 DEF DiffInv, LogInv, CreatesNewest, Newest
    <3> QED BY <1>1, <2>1, <3>1, <3>2, <3>3 DEF ReservedAt
  <2> HIDE DEF found
  <2>4. \A e \in diff'[d].todo : ReservedAt(e.key, e.at[1], diff[d].from)'
    BY <2>1, <2>2, <2>3 DEF ReservedAt, vars
  <2> QED BY <1>0, <2>1, <2>2, <2>3, <2>4 DEF Onwards
<1>5. ASSUME Settle(d) PROVE Onwards(d)'
  <2> DEFINE e == Head1(diff[d].todo)
             k == e.key
             rest == [diff[d] EXCEPT !.todo = diff[d].todo \ {e}]
             new == Entry(k, e.at)
  <2>1. diff[d] \in Reads /\ diff[d].stage = "settle"
    BY <1>1, <1>5 DEF Settle
  <2>2. e \in diff[d].todo
    BY <1>0, <1>5, <2>1, HeadOf DEF Settle, CallInv, Fetched, Reads
  <2>3. /\ rest.stage = "settle" /\ rest.from = diff[d].from /\ rest.top = diff[d].top
        /\ rest.todo = diff[d].todo \ {e} /\ rest.kept = diff[d].kept /\ rest \in Reads
    BY <2>1 DEF Reads
  <2>4. /\ diff'[d].stage = "settle" /\ diff'[d].from = diff[d].from
        /\ diff'[d].top = diff[d].top /\ diff'[d].todo \subseteq diff[d].todo
        /\ \/ diff'[d].kept = diff[d].kept
           \/ diff'[d].kept = diff[d].kept \cup {new} /\ row[k] # NoRow
    <3>1. \/ diff'[d] = rest
          \/ diff'[d] = [rest EXCEPT !.kept = rest.kept \cup {new}] /\ row[k] # NoRow
      BY <1>0, <1>5 DEF Settle
    <3> HIDE DEF e, new, rest
    <3> QED BY <2>3, <3>1 DEF Reads
  <2>5. diff[d].from <= row[k].pts \/ row[k] = NoRow
    <3>1. k \in Keys /\ PtsCount[k] \in Nat /\ (row[k] # NoRow => row[k].pts \in Nat)
      BY <1>0, <2>1, <2>2, ConstantTypes DEF Reads, EntryOf, Shape, TypeOK, Row
    <3>2. diff[d].from <= e.at[1] /\ ReservedAt(k, e.at[1], diff[d].from)
      BY <1>0, <2>1, <2>2 DEF Onwards
    <3> QED BY <1>1, <2>1, <3>1, <3>2 DEF ReservedAt
  <2>6. \A f \in diff'[d].kept : diff[d].from <= f.pts
    BY <1>0, <2>1, <2>4, <2>5 DEF Onwards, Entry
  <2>7. ASSUME NEW f \in diff'[d].todo PROVE ReservedAt(f.key, f.at[1], diff[d].from)'
    <3>1. ReservedAt(f.key, f.at[1], diff[d].from)
      BY <1>0, <2>1, <2>4 DEF Onwards
    <3>2. (\A j \in Keys : row'[j] \in {NoRow, row[j]}) /\ work' = work
      BY <1>0, <1>5 DEF Settle, DiscardAbandoned, Shape, TypeOK, vars
    <3>3. f.key \in Keys
      BY <2>1, <2>4 DEF Reads, EntryOf
    <3> QED BY <2>4, <3>1, <3>2, <3>3 DEF ReservedAt
  <2> QED BY <1>0, <2>1, <2>4, <2>6, <2>7 DEF Onwards
<1>6. ASSUME BuildPage(d) PROVE Onwards(d)'
  <2> DEFINE kept == diff[d].kept
             page == FirstOf(ReadyPrefix(kept), MaxPage)
  <2>1. diff[d] \in Reads /\ diff[d].stage = "settle" /\ diff[d].from = cursor[d].pts
    BY <1>0, <1>1, <1>6 DEF BuildPage, Settled, CallInv
  <2>2. /\ kept \in SUBSET EntryOf /\ IsFiniteSet(kept) /\ page \in SUBSET kept
    BY <1>0, <2>1 DEF CallInv, Fetched, Reads, FirstOf, ReadyPrefix
  <2> HIDE DEF kept, page
  <2>3. IsFiniteSet(page)
    BY <2>2, FS_Subset
  <2>4. page # {} => Last1(page) \in kept
    BY <2>2, <2>3, LastOf
  <2>5. diff'[d].stage = "mark"
    BY <1>0, <1>6 DEF BuildPage
  <2>6. \/ diff'[d].result.pts = diff[d].from
        \/ page # {} /\ diff'[d].result.pts = Last1(page).pts
        \/ diff'[d].result = diff[d].top
    <3>1. CASE page = {} /\ kept = {}
      <4>1. Cardinality(page) = Cardinality(kept) /\ Cardinality(kept) \in Nat
        BY <2>2, <3>1, FS_CardinalityType
      <4> QED BY <1>0, <1>6, <3>1, <4>1 DEF BuildPage, kept, page
    <3>2. CASE page = {} /\ kept # {}
      BY <1>0, <1>6, <3>2 DEF BuildPage, kept, page
    <3>3. CASE page # {}
      BY <1>0, <1>6, <3>3 DEF BuildPage, kept, page
    <3> QED BY <3>1, <3>2, <3>3
  <2>7. cursor[d].pts <= diff'[d].result.pts
    BY <1>0, <1>1, <2>1, <2>4, <2>6 DEF Onwards, kept
  <2> QED BY <1>0, <2>5, <2>7 DEF Onwards
<1> QED BY <1>2, <1>3, <1>4, <1>5, <1>6

(* Every step leaves calls that lead onwards, and no device behind where it was. *)
LEMMA OnwardsKept ==
    ASSUME OnwardsInv, [DiffNext]_allVars, NEW d \in Devices
    PROVE  Onwards(d)' /\ cursor[d].pts <= cursor'[d].pts
<1> USE DEF OnwardsInv
<1>0. /\ diff \in [Devices -> {NoCall} \cup Reads \cup Answer] /\ Onwards(d)
      /\ cursor \in [Devices -> State] /\ cursor[d].pts \in Nat
  BY DEF DiffInv, DeviceTypes, State
<1>1. /\ diff[d].stage \in {"rows", "settle"} => diff[d] \in Reads
      /\ diff[d].stage = "mark" => diff[d] \in Answer
      /\ NoCall.stage = "none"
  BY CallTypes DEF DiffInv
<1>2. SameCall(d) /\ cursor'[d] = cursor[d] => Onwards(d)' /\ cursor[d].pts <= cursor'[d].pts
  BY <1>0, OnwardsStays
<1>3. diff'[d] = NoCall => Onwards(d)'
  BY <1>1 DEF Onwards
<1>4. diff'[d] = diff[d] => SameCall(d)
  BY DEF SameCall
<1>5. ASSUME NEW c \in Devices \ {d}, Ask(c) \/ Reading(c)
      PROVE  diff'[d] = diff[d] /\ cursor'[d] = cursor[d]
  BY <1>0, <1>5
  DEF Ask, Reading, FetchRows, Settle, AwaitPending, BuildPage, MarkPage, Reply
<1>6. ASSUME \/ Ask(d) \/ FetchRows(d) \/ Settle(d) \/ AwaitPending(d) \/ BuildPage(d)
      PROVE  Onwards(d)' /\ cursor'[d] = cursor[d]
  BY <1>6, CallOnwards DEF Ask, FetchRows, Settle, AwaitPending, BuildPage
<1>7. ASSUME MarkPage(d) PROVE SameCall(d) /\ cursor'[d] = cursor[d]
  <2>1. diff[d] \in Answer /\ diff[d].stage = "mark"
    BY <1>1, <1>7 DEF MarkPage
  <2>2. PICK k : diff'[d] = [diff[d] EXCEPT !.marks = diff[d].marks \ {k}]
    BY <1>0, <1>7 DEF MarkPage
  <2> QED BY <1>7, <2>1, <2>2 DEF SameCall, Answer, MarkPage
<1>8. ASSUME Reply(d) PROVE Onwards(d)' /\ cursor[d].pts <= cursor'[d].pts
  <2>1. diff'[d] = NoCall /\ cursor'[d] \in {cursor[d], diff[d].result}
    BY <1>0, <1>8 DEF Reply
  <2>2. cursor[d].pts <= diff[d].result.pts
    BY <1>0, <1>8 DEF Reply, Onwards
  <2> QED BY <1>0, <1>3, <2>1, <2>2
<1>9. ASSUME NEW w \in Workers, Push(w)
      PROVE  Onwards(d)' /\ cursor[d].pts <= cursor'[d].pts
  <2> DEFINE k == work[w].key
             u == work[w].held
  <2>1. k \in Keys /\ u \in Row /\ PtsCount[k] \in Nat /\ u.pts \in Nat
    <3>1. work[w].stage = "send" /\ Shape
      BY <1>9 DEF Push, Sent, DiffInv, LogInv
    <3> QED BY <3>1, BusyRecord, ConstantTypes DEF Shape, TypeOK, HeldRow, Row
  <2>2. \/ cursor'[d] = cursor[d] /\ diff'[d] = diff[d]
        \/ /\ cursor'[d] = cursor[d] /\ diff[d] # NoCall
           /\ diff'[d] = [diff[d] EXCEPT !.again = TRUE]
        \/ /\ diff[d] = NoCall /\ diff'[d] = NoCall /\ Fits(d, k, u)
           /\ cursor'[d].pts = (IF Scope[k] = Account THEN u.pts ELSE cursor[d].pts)
    BY <1>0, <1>9 DEF Push
  <2>3. ASSUME diff[d] # NoCall, diff'[d] = [diff[d] EXCEPT !.again = TRUE] PROVE SameCall(d)
    <3>1. diff[d] \in Reads \cup Answer
      BY <1>0, <2>3
    <3> QED BY <2>3, <3>1 DEF Reads, Answer, SameCall
  <2>4. Fits(d, k, u) /\ Scope[k] = Account => cursor[d].pts <= u.pts
    BY <1>0, <2>1 DEF Fits
  <2> QED BY <1>0, <1>2, <1>3, <1>4, <2>2, <2>3, <2>4
<1>10. ASSUME \/ (Publishing \/ Upkeep) /\ LogOnly
              \/ \E c \in Devices : Connect(c) \/ Disconnect(c) \/ Poll(c)
              \/ UNCHANGED allVars
       PROVE  diff'[d] = diff[d] /\ cursor'[d] = cursor[d]
  BY <1>10 DEF LogOnly, deviceVars, Connect, Disconnect, Poll, allVars
<1>11. Restart => diff'[d] = NoCall /\ cursor'[d] = cursor[d]
  BY DEF Restart
<1> QED
  BY <1>0, <1>2, <1>3, <1>4, <1>5, <1>6, <1>7, <1>8, <1>9, <1>10, <1>11 DEF DiffNext, Reading

(* However late an answer to getDifference comes, and whatever was dropped and reserved
   anew while it was built, a device that takes it does not go back. *)
THEOREM PtsNeverBack == DiffSpec => NeverBack
<1>1. DiffInit => OnwardsInv
  BY DiffInvInit DEF DiffInit, OnwardsInv, Onwards, NoCall
<1>2. OnwardsInv /\ [DiffNext]_allVars =>
        OnwardsInv' /\ \A d \in Devices : cursor[d].pts <= cursor'[d].pts
  BY DiffInvNext, OnwardsKept DEF OnwardsInv
<1> QED BY <1>1, <1>2, PTL DEF DiffSpec, NeverBack
=============================================================================
