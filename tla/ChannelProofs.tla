--------------------------- MODULE ChannelProofs ---------------------------
(***************************************************************************)
(* ChannelDifference implements ChannelStream, for every set of devices,   *)
(* keys and workers and every page, fetch and backlog limit.               *)
(***************************************************************************)
EXTENDS ChannelDifference, LogGrowth

(* The channel is a scope. *)
LEMMA ChanScope == Chan \in Scopes
  BY ChannelConstants DEF Scopes

(* The pts the channel's next update is counted from are a natural number. *)
LEMMA BaseType == TypeOK => BasePts(Chan) \in Nat
  BY BaseIsNat, ChanScope

(* The counted entries of a page whose rows continue the device's pts take every
   pts up to the last of them. *)
LEMMA PageCovers ==
    ASSUME NEW S \in SUBSET EntryOf, IsFiniteSet(S), NEW n \in Nat, NEW from \in Nat,
           Contiguous(from, S), NEW page, page = FirstOf(ReadyPrefix(S), n),
           NEW l \in page, PtsCount[l.key] > 0,
           NEW m \in Nat, from < m, m <= l.pts
    PROVE  \E e \in page : /\ PtsCount[e.key] > 0
                           /\ e.pts - PtsCount[e.key] < m /\ m <= e.pts
<1> DEFINE counted == {e \in S : PtsCount[e.key] > 0}
           high == {e \in page : PtsCount[e.key] > 0 /\ m <= e.pts}
           highPts == {e.pts : e \in high}
           earlier(e) == {f \in counted : Before(f, e)}
<1>1. page \subseteq S
  BY DEF FirstOf, ReadyPrefix
<1>2. PICK e \in high : \A f \in high : e.pts <= f.pts
  <2>1. l \in high
    OBVIOUS
  <2>2. highPts \subseteq Nat /\ highPts # {}
    BY <1>1, <2>1 DEF EntryOf
  <2>3. \E x \in highPts : \A y \in highPts : x <= y
    <3> HIDE DEF highPts
    <3> QED BY <2>2, LeastOf
  <2> QED BY <2>3
<1>3. e \in EntryOf /\ e \in S /\ e \in page /\ m <= e.pts /\ PtsCount[e.key] > 0
  BY <1>1, <1>2
<1>4. e.pts \in Nat /\ PtsCount[e.key] \in Nat
  BY <1>3, ConstantTypes DEF EntryOf
<1>5. e.pts - PtsCount[e.key] = IF earlier(e) = {} THEN from ELSE Last1(earlier(e)).pts
  BY <1>3 DEF Contiguous
<1>6. CASE earlier(e) = {}
  BY <1>3, <1>4, <1>5, <1>6
<1>7. CASE earlier(e) # {}
  <2>1. earlier(e) \in SUBSET S
    OBVIOUS
  <2>2. earlier(e) \in SUBSET EntryOf /\ IsFiniteSet(earlier(e))
    BY <2>1, FS_Subset
  <2>3. Last1(earlier(e)) \in earlier(e)
    <3> HIDE DEF earlier
    <3> QED BY <1>7, <2>2, LastOf
  <2> DEFINE f == Last1(earlier(e))
  <2>4. f \in S /\ Before(f, e) /\ PtsCount[f.key] > 0
    BY <2>3
  <2>5. f \in page
    BY <1>3, <2>4, PageIsPrefix
  <2>6. f.pts = e.pts - PtsCount[e.key] /\ f.pts \in Nat
    BY <1>5, <1>7, <2>2, <2>3 DEF EntryOf
  <2>7. ~(m <= f.pts)
    <3> SUFFICES ASSUME m <= f.pts PROVE FALSE
      OBVIOUS
    <3>1. f \in high
      BY <2>4, <2>5
    <3>2. e.pts <= f.pts
      BY <1>2, <3>1
    <3> QED BY <1>3, <1>4, <2>6, <3>2
  <2> QED BY <1>3, <1>4, <2>6, <2>7
<1> QED BY <1>6, <1>7

----------------------------------------------------------------------------
\* The inductive invariant.

Known == stored \cup Taken(Chan)

\* The ranges of all counted updates there ever were are disjoint; an open one
\* has no payload yet and is not being pushed.
KnownInv ==
    /\ stored \subseteq [name : CountedIn(Chan), pts : Nat]
    /\ \A u \in Known : u.pts <= BasePts(Chan) /\ u.pts # 0
    /\ \A u, v \in Known : u = v \/ u.pts <= Low(v) \/ v.pts <= Low(u)
    /\ FinishedIn(Chan) \subseteq stored
    /\ \A u \in Open(Chan) : u \notin stored /\ u \notin Sending(Chan)

Reading == [stage : {"rows", "settle"}, from : Nat, latest : Nat, todo : SUBSET EntryOf,
            kept : SUBSET EntryOf, beyond : SUBSET EntryOf]
Answer == [stage : Kinds, from : Nat, pts : Nat, page : SUBSET Update,
           marks : SUBSET Keys, again : BOOLEAN]

DeviceTypes ==
    /\ online \subseteq Devices /\ must \subseteq Devices /\ unserved \subseteq Devices
    /\ cpts \in [Devices -> Nat] /\ rebuilt \in [Devices -> Nat]
    /\ date \in [Devices -> Nat]
    /\ given \in [Devices -> SUBSET Update] /\ unnamed \in [Devices -> SUBSET Update]
    /\ call \in [Devices -> {NoCall} \cup Reading \cup Answer]
    /\ state \in [Devices -> {NoCall} \cup [stage : {"scopes"}, date : Nat]]
    /\ drops \in Nat /\ asks \in Nat

\* A device is behind everything unfinished, unless it has rebuilt past it.
Behind(d) ==
    /\ cpts[d] <= BasePts(Chan)
    /\ d \in unserved \/ \A u \in Open(Chan) : u.pts > cpts[d] \/ u.pts <= rebuilt[d]

\* What a call has kept is in the log; its rows are the channel's.
Keeps(d) ==
    /\ IsFiniteSet(call[d].todo) /\ IsFiniteSet(call[d].kept)
    /\ \A e \in call[d].todo : Scope[e.key] = Chan
    /\ \A e \in call[d].kept : /\ e.pts <= BasePts(Chan)
                               /\ e.ready /\ PtsCount[e.key] > 0 => Named(e.key, e.pts) \in stored

\* A page holds all that the device moves over.
Covers(d) ==
    /\ \A u \in stored : call[d].from < u.pts /\ u.pts <= call[d].pts => u \in call[d].page
    /\ \A u \in Open(Chan) : ~(call[d].from < u.pts /\ u.pts <= call[d].pts)

CallInv(d) ==
    /\ Asking(d) => call[d].from = cpts[d]
    /\ call[d].stage \in {"rows", "settle"} => call[d].latest <= BasePts(Chan)
    /\ call[d].stage = "settle" => Keeps(d)
    /\ call[d].stage \in Kinds => call[d].pts <= BasePts(Chan)
    /\ call[d].stage = "page" => Covers(d)
    /\ call[d].stage = "reset" => call[d].page = {}

ChanInv ==
    /\ LogInv /\ KnownInv /\ DeviceTypes
    /\ \A d \in Devices : Behind(d) /\ CallInv(d)

(* The names and pts of counted updates. *)
LEMMA UpdateTypes ==
    ASSUME Shape, stored \subseteq [name : CountedIn(Chan), pts : Nat]
    PROVE  /\ \A u \in Known : u.name \in CountedIn(Chan) /\ u.pts \in Nat /\ Low(u) < u.pts
                               /\ Low(u) \in Int /\ u \in Update
           /\ \A u : Fresh(Chan, u) => u.pts \in Nat /\ Low(u) < u.pts /\ Low(u) \in Int
           /\ Open(Chan) \subseteq Taken(Chan)
           /\ Sending(Chan) \subseteq Taken(Chan)
           /\ FinishedIn(Chan) \subseteq Taken(Chan)
<1>1. \A k \in CountedIn(Chan) : k \in Keys /\ PtsCount[k] \in Nat /\ PtsCount[k] > 0
  BY ConstantTypes DEF CountedIn
<1>2. Known \subseteq [name : CountedIn(Chan), pts : Nat]
  BY TakenTypes, ChanScope DEF Known
<1>3. /\ Open(Chan) \subseteq Taken(Chan) /\ Sending(Chan) \subseteq Taken(Chan)
      /\ FinishedIn(Chan) \subseteq Taken(Chan)
  BY TakenTypes, ChanScope DEF Open, Sending, Taken, InRows, HeldAt, Pending, CountedIn
<1>4. \A u \in Known : u.name \in CountedIn(Chan) /\ u.pts \in Nat /\ u \in Update
  BY <1>1, <1>2 DEF Update
<1>5. \A u : Fresh(Chan, u) => u.pts \in Nat /\ u.name \in CountedIn(Chan)
  BY DEF Fresh, Update
<1> QED BY <1>1, <1>3, <1>4, <1>5 DEF Low

(* Ranges stay disjoint while the log grows and its updates are remembered. *)
LEMMA KnownKept ==
    ASSUME LogInv, LogInv', KnownInv, Grows(Chan),
           \/ stored' = stored \cup FinishedIn(Chan)'
           \/ stored' = stored /\ FinishedIn(Chan)' \subseteq FinishedIn(Chan)
    PROVE  KnownInv'
<1>1. /\ Shape /\ BasePts(Chan) \in Nat /\ BasePts(Chan)' \in Nat
      /\ BasePts(Chan) <= BasePts(Chan)'
  BY BaseType DEF LogInv, Shape, Grows
<1>2. /\ \A u \in Known : u.pts \in Nat /\ Low(u) < u.pts /\ Low(u) \in Int
      /\ \A u : Fresh(Chan, u) => u.pts \in Nat /\ Low(u) < u.pts /\ Low(u) \in Int
      /\ Open(Chan) \subseteq Taken(Chan) /\ Sending(Chan) \subseteq Taken(Chan)
      /\ FinishedIn(Chan) \subseteq Taken(Chan)
  BY <1>1, UpdateTypes DEF KnownInv
<1>3. \A u \in stored' : u \in stored \/ (u \in Open(Chan) /\ u \notin Open(Chan)')
  BY DEF KnownInv, Grows
<1>4. stored' \subseteq Known
  BY <1>2, <1>3 DEF Known
<1>5. \A u \in Known' : u \in Known \/ (Fresh(Chan, u) /\ u \in Taken(Chan)' \ Taken(Chan))
  BY <1>4 DEF Known, Grows
<1>6. \A u \in Known : u.pts <= BasePts(Chan) /\ u.pts # 0
  BY DEF KnownInv
<1>7. stored' \subseteq [name : CountedIn(Chan), pts : Nat]
  BY <1>1, <1>4, TakenTypes, ChanScope DEF Known, KnownInv
<1>8. \A u \in Known' : u.pts <= BasePts(Chan)' /\ u.pts # 0
  BY <1>1, <1>2, <1>5, <1>6 DEF Fresh
<1>9. \A u, v \in Known' : u = v \/ u.pts <= Low(v) \/ v.pts <= Low(u)
  <2> SUFFICES ASSUME NEW u \in Known', NEW v \in Known'
               PROVE  u = v \/ u.pts <= Low(v) \/ v.pts <= Low(u)
    OBVIOUS
  <2>1. CASE u \in Known /\ v \in Known
    BY <2>1 DEF KnownInv
  <2>2. CASE u \in Known /\ Fresh(Chan, v)
    BY <1>1, <1>2, <1>6, <2>2 DEF Fresh
  <2>3. CASE Fresh(Chan, u) /\ v \in Known
    BY <1>1, <1>2, <1>6, <2>3 DEF Fresh
  <2>4. CASE u \in Taken(Chan)' \ Taken(Chan) /\ v \in Taken(Chan)' \ Taken(Chan)
    BY <2>4 DEF Grows
  <2> QED BY <1>5, <2>1, <2>2, <2>3, <2>4
<1>10. FinishedIn(Chan)' \subseteq stored'
  BY DEF KnownInv
<1>11. ASSUME NEW u, Fresh(Chan, u) PROVE u \notin Known
  BY <1>1, <1>2, <1>6, <1>11 DEF Fresh
<1>12. ASSUME NEW u \in Open(Chan)' PROVE u \notin stored' /\ u \notin Sending(Chan)'
  <2>1. u \in Open(Chan) \/ Fresh(Chan, u)
    BY <1>12 DEF Grows
  <2>2. u \notin stored'
    BY <1>3, <1>4, <1>11, <1>12, <2>1 DEF KnownInv
  <2>3. u \notin Sending(Chan)'
    BY <1>2, <1>11, <1>12, <2>1 DEF KnownInv, Grows, Known
  <2> QED BY <2>2, <2>3
<1> QED BY <1>7, <1>8, <1>9, <1>10, <1>12 DEF KnownInv, Low

(* A device that does not move stays behind what is unfinished, and so does its
   call. *)
LEMMA DeviceStays ==
    ASSUME LogInv, KnownInv, DeviceTypes, Grows(Chan), NEW d \in Devices, Behind(d),
           cpts'[d] = cpts[d], rebuilt'[d] = rebuilt[d],
           d \in unserved => d \in unserved',
           stored \subseteq stored', \A u \in stored' : u \in stored \/ u \in Open(Chan)
    PROVE  /\ Behind(d)'
           /\ CallInv(d) /\ call'[d] = call[d] => CallInv(d)'
<1>1. /\ BasePts(Chan) \in Nat /\ BasePts(Chan)' \in Nat
      /\ BasePts(Chan) <= BasePts(Chan)' /\ cpts[d] \in Nat
      /\ rebuilt[d] \in Nat
  BY BaseType DEF LogInv, Shape, Grows, DeviceTypes
<1>2. /\ \A u \in Open(Chan) : u.pts \in Nat
      /\ \A u : Fresh(Chan, u) => u.pts \in Nat /\ BasePts(Chan) < u.pts
      /\ \A u \in Open(Chan)' : u \in Open(Chan) \/ Fresh(Chan, u)
  <2>1. Open(Chan) \subseteq Taken(Chan)
    BY UpdateTypes DEF LogInv, KnownInv
  <2>2. \A u \in Open(Chan) : u.pts \in Nat
    BY <2>1, UpdateTypes DEF LogInv, KnownInv, Known
  <2>3. \A u : Fresh(Chan, u) => u.pts \in Nat /\ Low(u) < u.pts /\ Low(u) \in Int
                              /\ BasePts(Chan) <= Low(u)
    BY UpdateTypes DEF LogInv, KnownInv, Fresh
  <2> QED BY <1>1, <2>2, <2>3 DEF Grows
<1>3. Behind(d)'
  BY <1>1, <1>2 DEF Behind
<1>4. ASSUME CallInv(d), call'[d] = call[d] PROVE CallInv(d)'
  <2>1. call[d].stage \in {"rows", "settle"} => call[d].latest <= BasePts(Chan)'
    <3>1. call[d].stage \in {"rows", "settle"} => call[d].latest \in Nat
      BY DEF DeviceTypes, Reading, Answer, Kinds, NoCall
    <3> QED BY <1>1, <1>4, <3>1 DEF CallInv
  <2>2. call[d].stage \in Kinds => call[d].pts <= BasePts(Chan)' /\ call[d].pts \in Nat
    <3>1. call[d].stage \in Kinds => call[d].pts \in Nat
      BY DEF DeviceTypes, Reading, Answer, Kinds, NoCall
    <3> QED BY <1>1, <1>4, <3>1 DEF CallInv
  <2>3. call[d].stage = "settle" => Keeps(d)'
    <3> SUFFICES ASSUME call[d].stage = "settle" PROVE Keeps(d)'
      OBVIOUS
    <3>1. \A e \in call[d].kept : e.pts \in Nat
      BY DEF DeviceTypes, Reading, Answer, Kinds, NoCall, EntryOf
    <3> QED BY <1>1, <1>4, <3>1 DEF CallInv, Keeps
  <2>4. call[d].stage = "page" => Covers(d)'
    <3> SUFFICES ASSUME call[d].stage = "page" PROVE Covers(d)'
      OBVIOUS
    <3>1. Covers(d) /\ call[d].pts <= BasePts(Chan) /\ call[d].pts \in Nat
      BY <1>4, <2>2 DEF CallInv, Kinds
    <3>2. \A u \in Open(Chan)' : ~(call[d].from < u.pts /\ u.pts <= call[d].pts)
      BY <1>1, <1>2, <3>1 DEF Covers
    <3> QED BY <1>4, <3>1, <3>2 DEF Covers
  <2> QED BY <1>4, <2>1, <2>2, <2>3, <2>4 DEF CallInv, Asking
<1> QED BY <1>3, <1>4

----------------------------------------------------------------------------
\* The rows of the channel as a difference reads them.

(* An entry of a row of the channel is behind the state, and what it counts is
   remembered once it is ready. *)
LEMMA EntryKept ==
    ASSUME LogInv, KnownInv, NEW k \in Keys, row[k] # NoRow, Scope[k] = Chan,
           NEW at \in Nat \X Nat
    PROVE  LET e == Entry(k, at)
           IN  /\ e \in EntryOf /\ e.key = k /\ e.pts <= BasePts(Chan)
               /\ e.ready /\ PtsCount[e.key] > 0 => Named(e.key, e.pts) \in stored
<1>1. row[k].pts <= BasePts(Chan)
  BY ChannelConstants, DistinctNames DEF LogInv, RowsBehind, BasePts
<1>2. row[k].payload # 0 /\ PtsCount[k] > 0 => Named(k, row[k].pts) \in stored
  BY DEF KnownInv, FinishedIn
<1> QED BY <1>1, <1>2, EntryTypes DEF LogInv

(* The rows behind a pts are finitely many entries of the channel. *)
LEMMA ChanRows ==
    ASSUME LogInv, KnownInv, NEW pts
    PROVE  /\ RowsAfter(Chan, pts) \in SUBSET EntryOf
           /\ IsFiniteSet(RowsAfter(Chan, pts))
           /\ \A e \in RowsAfter(Chan, pts) :
                 /\ Scope[e.key] = Chan /\ e.pts <= BasePts(Chan)
                 /\ e.ready /\ PtsCount[e.key] > 0 => Named(e.key, e.pts) \in stored
<1>1. ASSUME NEW e \in RowsAfter(Chan, pts)
      PROVE  /\ Scope[e.key] = Chan /\ e.pts <= BasePts(Chan)
             /\ e.ready /\ PtsCount[e.key] > 0 => Named(e.key, e.pts) \in stored
  <2>1. PICK k \in Keys : /\ row[k] # NoRow /\ Scope[k] = Chan
                          /\ e = Entry(k, <<row[k].pts, row[k].seq>>)
                          /\ <<row[k].pts, row[k].seq>> \in Nat \X Nat
    BY <1>1, RowsRead, ChannelConstants DEF LogInv
  <2> QED BY <2>1, EntryKept
<1> QED BY <1>1, RowsRead, ChannelConstants DEF LogInv

----------------------------------------------------------------------------
\* The invariant's proof.

(* Every step is a step of the log, and what was taken or stored stays known. *)
LEMMA ChanLog ==
    ASSUME ChanInv, [ChanNext]_allVars
    PROVE  /\ [Next]_vars /\ LogInv' /\ Grows(Chan) /\ KnownInv'
           /\ \/ Logs /\ stored' = stored \cup FinishedIn(Chan)'
              \/ stored' = stored /\ FinishedIn(Chan)' \subseteq FinishedIn(Chan)
           /\ stored \subseteq stored' /\ \A u \in stored' : u \in stored \/ u \in Open(Chan)
<1> USE DEF ChanInv
<1>1. CASE Logs
  <2>1. [Next]_vars
    BY <1>1 DEF Logs, Next
  <2>2. LogInv'
    BY <2>1, LogInvNext
  <2>3. Grows(Chan)
    BY <2>1, <2>2, LogGrows, ChanScope DEF KnownInv, TakenBelow, Known
  <2>4. stored' = stored \cup FinishedIn(Chan)'
    BY <1>1 DEF Logs, InLog
  <2>5. KnownInv'
    BY <2>2, <2>3, <2>4, KnownKept
  <2>6. \A u \in stored' : u \in stored \/ u \in Open(Chan)
    BY <2>3, <2>4 DEF KnownInv, Grows
  <2> QED BY <1>1, <2>1, <2>2, <2>3, <2>4, <2>5, <2>6
<1>2. CASE ~Logs
  <2>1. QuietStep /\ stored' = stored
    <3>1. ASSUME NEW w \in Workers, Push(w) PROVE QuietStep /\ stored' = stored
      <4>1. Sent(w, online # {}) /\ (online # {}) \in BOOLEAN
        BY <3>1 DEF Push
      <4> QED BY <3>1, <4>1 DEF QuietStep, Push
    <3>2. ASSUME NEW d \in Devices,
                 \/ Connect(d) \/ Disconnect(d) \/ NameChannels(d)
                 \/ Ask(d) \/ FetchRows(d) \/ AnswerReset(d) \/ AnswerPage(d) \/ Reply(d)
          PROVE  QuietStep /\ stored' = stored
      <4>1. UNCHANGED vars /\ stored' = stored
        BY <3>2 DEF Connect, Disconnect, NameChannels, Ask, FetchRows, AnswerReset,
                    AnswerPage, Reply
      <4> QED BY <4>1 DEF QuietStep
    <3>3. ASSUME NEW d \in Devices, Settle(d) PROVE QuietStep /\ stored' = stored
      <4> DEFINE k == Head1(call[d].todo).key
      <4>1. DiscardAbandoned(k) \/ UNCHANGED vars
        BY <3>3 DEF Settle
      <4>2. CASE DiscardAbandoned(k) /\ k \in Keys
        BY <3>3, <4>2 DEF QuietStep, Settle
      <4>3. k \in Keys
        <5>1. call[d].todo \in SUBSET EntryOf /\ IsFiniteSet(call[d].todo)
          BY <3>3 DEF Settle, DeviceTypes, Reading, Answer, Kinds, NoCall, CallInv, Keeps
        <5>2. Head1(call[d].todo) \in EntryOf
          BY <3>3, <5>1, HeadOf DEF Settle
        <5> QED BY <5>2 DEF EntryOf
      <4> QED BY <3>3, <4>1, <4>2, <4>3 DEF QuietStep, Settle
    <3>4. ASSUME NEW d \in Devices, MarkPage(d) PROVE QuietStep /\ stored' = stored
      <4>1. PICK k \in call[d].marks : ReaderMarks(k)
        BY <3>4 DEF MarkPage
      <4>2. call[d].marks \in SUBSET Keys
        BY <3>4 DEF MarkPage, Answered, DeviceTypes, Reading, Answer, Kinds, NoCall
      <4> QED BY <3>4, <4>1, <4>2 DEF QuietStep, MarkPage
    <3>5. CASE Restart \/ UNCHANGED allVars
      BY <3>5 DEF QuietStep, Restart, allVars
    <3> QED BY <1>2, <3>1, <3>2, <3>3, <3>4, <3>5 DEF ChanNext
  <2>2. [Next]_vars
    BY <2>1 DEF QuietStep, Next, Publishing, Step, Upkeep
  <2>3. LogInv'
    BY <2>2, LogInvNext
  <2>4. Grows(Chan) /\ FinishedIn(Chan)' \subseteq FinishedIn(Chan)
    BY <2>1, QuietStays, QuietGrows, ChanScope DEF LogInv
  <2>5. KnownInv'
    BY <2>1, <2>3, <2>4, KnownKept
  <2> QED BY <2>1, <2>2, <2>3, <2>4, <2>5
<1> QED BY <1>1, <1>2

(* What the stage of a call says of it. *)
LEMMA CallTypes ==
    ASSUME DeviceTypes, NEW d \in Devices
    PROVE  /\ call[d].stage \in {"rows", "settle"} => call[d] \in Reading
           /\ call[d].stage \in Kinds => call[d] \in Answer
           /\ Asking(d) => call[d] \in Reading \cup Answer
           /\ call[d] = NoCall => call[d].stage = "none"
  BY DEF DeviceTypes, Reading, Answer, Kinds, NoCall, Asking

(* A step that moves no device and ends calls at most. *)
LEMMA AllStay ==
    ASSUME ChanInv, [ChanNext]_allVars, DeviceTypes',
           UNCHANGED <<cpts, rebuilt, unserved>>,
           \A d \in Devices : call'[d] \in {call[d], NoCall}
    PROVE  ChanInv'
<1>1. ASSUME NEW d \in Devices PROVE Behind(d)' /\ CallInv(d)'
  <2>1. Behind(d)' /\ (CallInv(d) /\ call'[d] = call[d] => CallInv(d)')
    BY ChanLog, DeviceStays DEF ChanInv
  <2>2. call'[d] = NoCall => CallInv(d)'
    BY DEF CallInv, Asking, NoCall, Kinds
  <2> QED BY <2>1, <2>2 DEF ChanInv
<1> QED BY <1>1, ChanLog DEF ChanInv

(* A step of one device's call that does not move the device. *)
LEMMA CallMoves ==
    ASSUME ChanInv, [ChanNext]_allVars, DeviceTypes', NEW d \in Devices,
           UNCHANGED <<cpts, rebuilt, unserved>>,
           \A e \in Devices \ {d} : call'[e] = call[e],
           CallInv(d)'
    PROVE  ChanInv'
<1>1. ASSUME NEW e \in Devices PROVE Behind(e)' /\ CallInv(e)'
  <2>1. Behind(e)' /\ (CallInv(e) /\ call'[e] = call[e] => CallInv(e)')
    BY ChanLog, DeviceStays DEF ChanInv
  <2> QED BY <2>1 DEF ChanInv
<1> QED BY <1>1, ChanLog DEF ChanInv

(* The handler reads the channel's state. *)
LEMMA AskKeeps == ASSUME ChanInv, NEW d \in Devices, Ask(d) PROVE ChanInv'
<1>0. ChanNext
  BY DEF ChanNext
<1>1. BasePts(Chan) \in Nat /\ BasePts(Chan)' = BasePts(Chan)
  BY BaseType DEF ChanInv, LogInv, Shape, BasePts, Ask, vars
<1>2. /\ cpts[d] \in Nat /\ call \in [Devices -> {NoCall} \cup Reading \cup Answer]
      /\ asks \in Nat
  BY DEF ChanInv, DeviceTypes
<1>3. /\ call' = [call EXCEPT ![d] = call'[d]] /\ call'[d].stage = "rows"
      /\ call'[d].latest = BasePts(Chan) /\ call'[d].from = cpts[d]
  BY <1>1, <1>2 DEF Ask
<1>4. call'[d] \in Reading
  BY <1>1, <1>2, FS_EmptySet DEF Ask, Reading
<1>5. DeviceTypes'
  BY <1>2, <1>3, <1>4 DEF ChanInv, DeviceTypes, Ask
<1>6. CallInv(d)'
  BY <1>1, <1>3 DEF CallInv, Kinds, Ask
<1> QED BY <1>0, <1>2, <1>3, <1>5, <1>6, CallMoves DEF Ask

(* The handler reads the rows. *)
LEMMA FetchKeeps == ASSUME ChanInv, NEW d \in Devices, FetchRows(d) PROVE ChanInv'
<1> DEFINE rows == RowsAfter(Chan, call[d].from)
           found == FirstOf(rows, FetchLimit)
           todo == {e \in found : ~e.ready}
           kept == {e \in found : e.ready}
<1>0. /\ ChanNext /\ call[d].stage = "rows"
      /\ UNCHANGED <<vars, stored, online, cpts, given, rebuilt, must, date, state,
                     drops, asks, unnamed, unserved>>
  BY DEF ChanNext, FetchRows
<1>1. BasePts(Chan)' = BasePts(Chan)
  BY DEF BasePts, FetchRows, vars
<1>2. /\ rows \in SUBSET EntryOf /\ IsFiniteSet(rows)
      /\ \A e \in rows :
            /\ Scope[e.key] = Chan /\ e.pts <= BasePts(Chan)
            /\ e.ready /\ PtsCount[e.key] > 0 => Named(e.key, e.pts) \in stored
  BY ChanRows DEF ChanInv
<1>3. call[d] \in Reading /\ call \in [Devices -> {NoCall} \cup Reading \cup Answer]
  BY CallTypes DEF ChanInv, DeviceTypes, FetchRows
<1>4. call' = [call EXCEPT ![d] = [call[d] EXCEPT !.stage = "settle", !.todo = todo,
                                          !.kept = kept, !.beyond = rows \ found]]
  BY <1>3 DEF FetchRows
<1>5. /\ todo \in SUBSET rows /\ kept \in SUBSET rows /\ (rows \ found) \in SUBSET rows
  BY DEF FirstOf
<1>6. IsFiniteSet(todo) /\ IsFiniteSet(kept)
  <2> HIDE DEF todo, kept, rows, found
  <2> QED BY <1>2, <1>5, FS_Subset
<1> HIDE DEF rows, found
<1>7. /\ call'[d] \in Reading /\ call'[d].stage = "settle" /\ call'[d].todo = todo
      /\ call'[d].kept = kept /\ call'[d].from = call[d].from
      /\ call'[d].latest = call[d].latest
      /\ \A e \in Devices \ {d} : call'[e] = call[e]
  <2> HIDE DEF todo, kept
  <2> QED BY <1>2, <1>3, <1>4, <1>5 DEF Reading
<1>8. DeviceTypes'
  BY <1>0, <1>3, <1>4, <1>7 DEF ChanInv, DeviceTypes
<1>9. Keeps(d)'
  <2>1. stored' = stored
    BY DEF FetchRows
  <2> QED BY <1>1, <1>2, <1>5, <1>6, <1>7, <2>1 DEF Keeps
<1>10. CallInv(d)'
  <2>1. call[d].from = cpts[d] /\ call[d].latest <= BasePts(Chan)
    <3>1. Asking(d)
      BY <1>0 DEF Asking, NoCall
    <3> QED BY <1>0, <3>1 DEF ChanInv, CallInv
  <2> QED BY <1>0, <1>1, <1>7, <1>9, <2>1 DEF CallInv, Kinds
<1> QED BY <1>0, <1>7, <1>8, <1>10, CallMoves

(* What is not finished is an update. *)
LEMMA UnfinishedTypes == ASSUME Shape PROVE Unfinished \subseteq Update
<1>1. \A k \in Keys : row[k] # NoRow => row[k] \in Row
  BY TakenTypes, ChanScope
<1>2. ASSUME NEW w \in Workers, work[w].stage = "create"
      PROVE  work[w].key \in Keys /\ work[w].held.pts \in Nat
  <2>1. work[w] \in WorkRecord /\ work[w].held \in Row
    BY <1>2 DEF Shape, TypeOK, HeldRow
  <2> QED BY <1>2, <2>1, BusyRecord DEF Row
<1> QED BY <1>1, <1>2 DEF Unfinished, Pending, Named, Update, Row

(* The handler looks at the next row without a payload. *)
LEMMA SettleKeeps == ASSUME ChanInv, NEW d \in Devices, Settle(d) PROVE ChanInv'
<1> DEFINE e == Head1(call[d].todo)
           k == e.key
           todo == call[d].todo \ {e}
           f == Entry(k, e.at)
<1>0. /\ ChanNext /\ call[d].stage = "settle" /\ call[d].todo # {}
      /\ UNCHANGED <<stored, online, cpts, given, rebuilt, must, date, state,
                     drops, asks, unnamed, unserved>>
  BY DEF ChanNext, Settle
<1>1. /\ call[d] \in Reading /\ call \in [Devices -> {NoCall} \cup Reading \cup Answer]
      /\ Asking(d) /\ call[d].from = cpts[d] /\ call[d].latest <= BasePts(Chan)
      /\ Keeps(d)
  <2>1. /\ call[d] \in Reading
        /\ call \in [Devices -> {NoCall} \cup Reading \cup Answer]
    BY <1>0, CallTypes DEF ChanInv, DeviceTypes
  <2>2. Asking(d)
    BY <1>0 DEF Asking, NoCall
  <2> QED BY <1>0, <2>1, <2>2 DEF ChanInv, CallInv
<1>2. e \in EntryOf /\ e \in call[d].todo /\ k \in Keys /\ Scope[k] = Chan
      /\ e.at \in Nat \X Nat
  <2>1. call[d].todo \in SUBSET EntryOf /\ IsFiniteSet(call[d].todo)
    BY <1>1 DEF Reading, Keeps
  <2>2. e \in call[d].todo
    BY <1>0, <2>1, HeadOf
  <2> HIDE DEF e
  <2> QED BY <1>1, <2>1, <2>2 DEF Keeps, EntryOf
<1>3. /\ \/ call' = [call EXCEPT ![d] = [call[d] EXCEPT !.todo = todo]]
         \/ /\ row[k] # NoRow
            /\ call' = [call EXCEPT ![d] = [call[d] EXCEPT !.todo = todo,
                                                           !.kept = call[d].kept \cup {f}]]
  <2> HIDE DEF f
  <2> QED BY <1>0, <1>1 DEF Settle, Reading, f
<1>4. row[k] # NoRow =>
        /\ f \in EntryOf /\ f.pts <= BasePts(Chan)
        /\ f.ready /\ PtsCount[f.key] > 0 => Named(f.key, f.pts) \in stored
  <2> HIDE DEF e
  <2> QED BY <1>2, EntryKept DEF ChanInv
<1> HIDE DEF e, f
<1>5. /\ call'[d] \in Reading /\ call'[d].stage = "settle" /\ call'[d].todo = todo
      /\ \/ call'[d].kept = call[d].kept
         \/ row[k] # NoRow /\ call'[d].kept = call[d].kept \cup {f}
      /\ call'[d].from = call[d].from /\ call'[d].latest = call[d].latest
      /\ \A c \in Devices \ {d} : call'[c] = call[c]
  <2>1. todo \in SUBSET EntryOf /\ call[d].kept \in SUBSET EntryOf
    BY <1>1 DEF Reading
  <2> HIDE DEF todo
  <2>2. CASE call' = [call EXCEPT ![d] = [call[d] EXCEPT !.todo = todo]]
    BY <1>0, <1>1, <2>1, <2>2 DEF Reading
  <2>3. CASE /\ row[k] # NoRow
             /\ call' = [call EXCEPT ![d] = [call[d] EXCEPT !.todo = todo,
                                                            !.kept = call[d].kept \cup {f}]]
    <3> DEFINE kept == call[d].kept \cup {f}
    <3>1. kept \in SUBSET EntryOf
      BY <1>4, <2>1, <2>3
    <3>2. call' = [call EXCEPT ![d] = [call[d] EXCEPT !.todo = todo, !.kept = kept]]
      BY <2>3
    <3> HIDE DEF kept
    <3>3. /\ call'[d] \in Reading /\ call'[d].stage = "settle" /\ call'[d].todo = todo
          /\ call'[d].kept = kept
          /\ call'[d].from = call[d].from /\ call'[d].latest = call[d].latest
          /\ \A c \in Devices \ {d} : call'[c] = call[c]
      BY <1>0, <1>1, <2>1, <3>1, <3>2 DEF Reading
    <3> QED BY <2>3, <3>3 DEF kept
  <2> QED BY <1>3, <2>2, <2>3
<1>6. DeviceTypes'
  <2>1. call' \in [Devices -> {NoCall} \cup Reading \cup Answer]
    BY <1>1, <1>3, <1>5
  <2> QED BY <1>0, <2>1 DEF ChanInv, DeviceTypes
<1>7. BasePts(Chan) \in Nat /\ BasePts(Chan)' \in Nat /\ BasePts(Chan) <= BasePts(Chan)'
  BY <1>0, ChanLog, BaseType DEF ChanInv, LogInv, Shape, Grows
<1>8. Keeps(d)'
  <2>1. IsFiniteSet(todo) /\ IsFiniteSet(call'[d].kept)
    <3>1. IsFiniteSet(call[d].todo) /\ IsFiniteSet(call[d].kept)
      BY <1>1 DEF Keeps
    <3>2. IsFiniteSet(todo) /\ IsFiniteSet(call[d].kept \cup {f})
      BY <3>1, FS_RemoveElement, FS_AddElement
    <3> QED BY <1>5, <3>1, <3>2
  <2>2. \A g \in call'[d].kept :
           /\ g.pts <= BasePts(Chan)
           /\ g.ready /\ PtsCount[g.key] > 0 => Named(g.key, g.pts) \in stored
    BY <1>1, <1>4, <1>5 DEF Keeps
  <2>3. \A g \in call'[d].kept : g.pts \in Nat
    BY <1>5 DEF Reading, EntryOf
  <2>4. \A g \in todo : Scope[g.key] = Chan
    BY <1>1 DEF Keeps
  <2>5. \A g \in call'[d].kept : g.pts <= BasePts(Chan)'
    BY <1>7, <2>2, <2>3
  <2> HIDE DEF todo
  <2> QED BY <1>0, <1>5, <2>1, <2>2, <2>4, <2>5 DEF Keeps
<1>9. CallInv(d)'
  <2>1. call[d].latest \in Nat
    BY <1>1 DEF Reading
  <2> QED BY <1>0, <1>1, <1>5, <1>7, <1>8, <2>1 DEF CallInv, Kinds
<1> QED BY <1>0, <1>5, <1>6, <1>9, CallMoves

(* The answer is to rebuild the channel. *)
LEMMA ResetKeeps == ASSUME ChanInv, NEW d \in Devices, AnswerReset(d) PROVE ChanInv'
<1> DEFINE answer == [stage |-> "reset", from |-> call[d].from, pts |-> call[d].latest,
                      page |-> {}, marks |-> {}, again |-> FALSE]
<1>0. /\ ChanNext /\ call[d].stage = "settle"
      /\ UNCHANGED <<vars, stored, online, cpts, given, rebuilt, must, date, state,
                     drops, asks, unnamed, unserved>>
  BY DEF ChanNext, AnswerReset, Settled
<1>1. /\ call[d] \in Reading /\ call \in [Devices -> {NoCall} \cup Reading \cup Answer]
      /\ Asking(d) /\ call[d].from = cpts[d] /\ call[d].latest <= BasePts(Chan)
  <2>1. /\ call[d] \in Reading
        /\ call \in [Devices -> {NoCall} \cup Reading \cup Answer]
    BY <1>0, CallTypes DEF ChanInv, DeviceTypes
  <2>2. Asking(d)
    BY <1>0 DEF Asking, NoCall
  <2> QED BY <1>0, <2>1, <2>2 DEF ChanInv, CallInv
<1>2. call' = [call EXCEPT ![d] = answer]
  BY DEF AnswerReset, Decides
<1>3. answer \in Answer
  BY <1>1 DEF Reading, Answer, Kinds
<1>4. /\ call'[d] = answer /\ \A c \in Devices \ {d} : call'[c] = call[c]
      /\ call' \in [Devices -> {NoCall} \cup Reading \cup Answer]
  <2> HIDE DEF answer
  <2> QED BY <1>1, <1>2, <1>3
<1>5. DeviceTypes'
  BY <1>0, <1>4 DEF ChanInv, DeviceTypes
<1>6. BasePts(Chan)' = BasePts(Chan)
  BY <1>0 DEF BasePts, vars
<1>7. CallInv(d)'
  BY <1>0, <1>1, <1>4, <1>6 DEF CallInv
<1> QED BY <1>0, <1>4, <1>5, <1>7, CallMoves

(* The answer is a page, with what the device moves over, or tells it to go on. *)
LEMMA PageKeeps == ASSUME ChanInv, NEW d \in Devices, AnswerPage(d) PROVE ChanInv'
<1> DEFINE c == call[d]
           ready == ReadyPrefix(c.kept)
           page == FirstOf(ready, MaxPage)
           result == IF c.kept = {} THEN c.latest
                     ELSE IF page = {} THEN c.from ELSE Last1(page).pts
           stale == c.from = c.latest /\ ~Contiguous(c.from, c.kept)
           blind == page # {} /\ ~\E e \in page : PtsCount[e.key] > 0 /\ e.pts = result
           kind == IF Resets(d) \/ stale \/ blind THEN "gap" ELSE "page"
           names == {Named(e.key, e.pts) : e \in page}
           answer == [stage |-> kind, from |-> c.from, pts |-> result, page |-> names,
                      marks |-> {e.key : e \in page}, again |-> page # ready]
<1>0. /\ ChanNext /\ call[d].stage = "settle"
      /\ UNCHANGED <<vars, stored, online, cpts, given, rebuilt, must, date, state,
                     drops, asks, unserved>>
  BY DEF ChanNext, AnswerPage, Settled
<1>1. /\ c \in Reading /\ call \in [Devices -> {NoCall} \cup Reading \cup Answer]
      /\ Asking(d) /\ c.from = cpts[d] /\ c.latest <= BasePts(Chan) /\ Keeps(d)
  <2>1. /\ call[d] \in Reading
        /\ call \in [Devices -> {NoCall} \cup Reading \cup Answer]
    BY <1>0, CallTypes DEF ChanInv, DeviceTypes
  <2>2. Asking(d)
    BY <1>0 DEF Asking, NoCall
  <2> QED BY <1>0, <2>1, <2>2 DEF ChanInv, CallInv
<1>2. /\ call' = [call EXCEPT ![d] = answer]
      /\ unnamed' = IF page # ready THEN unnamed
                    ELSE [unnamed EXCEPT ![d] = @ \cup Unfinished \cup
                            {Named(e.key, e.pts) : e \in (c.kept \cup c.beyond) \ page}]
  BY DEF AnswerPage, Decides
<1>3. /\ c.kept \in SUBSET EntryOf /\ IsFiniteSet(c.kept) /\ c.beyond \in SUBSET EntryOf
      /\ c.from \in Nat /\ c.latest \in Nat
  BY <1>1 DEF Reading, Keeps
<1>4. page \in SUBSET c.kept /\ \A e \in page : e.ready
  BY DEF FirstOf, ReadyPrefix
<1>5. BasePts(Chan) \in Nat /\ BasePts(Chan)' = BasePts(Chan)
  BY <1>0, BaseType DEF ChanInv, LogInv, Shape, BasePts, vars
<1>6. result \in Nat /\ result <= BasePts(Chan)
  <2>1. CASE c.kept = {}
    BY <1>1, <1>3, <2>1
  <2>2. CASE page = {} /\ c.kept # {}
    BY <1>1, <1>3, <2>2 DEF ChanInv, Behind
  <2>3. CASE page # {}
    <3>1. page \in SUBSET EntryOf /\ IsFiniteSet(page)
      <4> HIDE DEF page
      <4> QED BY <1>3, <1>4, FS_Subset
    <3>2. Last1(page) \in page
      <4> HIDE DEF page
      <4> QED BY <2>3, <3>1, LastOf
    <3>3. Last1(page).pts \in Nat /\ Last1(page).pts <= BasePts(Chan)
      <4> HIDE DEF page
      <4> QED BY <1>1, <1>4, <3>1, <3>2 DEF EntryOf, Keeps
    <3>4. c.kept # {}
      BY <1>4, <2>3
    <3> QED BY <2>3, <3>3, <3>4
  <2> QED BY <2>1, <2>2, <2>3
<1>7. answer \in Answer
  <2>1. names \in SUBSET Update /\ {e.key : e \in page} \in SUBSET Keys
    BY <1>3, <1>4 DEF EntryOf, Named, Update
  <2>2. kind \in Kinds /\ (page # ready) \in BOOLEAN
    BY DEF Kinds
  <2> HIDE DEF names, kind, page, ready, result
  <2> QED BY <1>3, <1>6, <2>1, <2>2 DEF Answer
<1>8. /\ call'[d] = answer /\ \A b \in Devices \ {d} : call'[b] = call[b]
      /\ call' \in [Devices -> {NoCall} \cup Reading \cup Answer]
  <2> HIDE DEF answer
  <2> QED BY <1>1, <1>2, <1>7
<1>9. unnamed' \in [Devices -> SUBSET Update]
  <2>1. unnamed \in [Devices -> SUBSET Update]
    BY DEF ChanInv, DeviceTypes
  <2>2. {Named(e.key, e.pts) : e \in (c.kept \cup c.beyond) \ page} \subseteq Update
    BY <1>3 DEF EntryOf, Named, Update
  <2>3. Unfinished \subseteq Update
    BY UnfinishedTypes DEF ChanInv, LogInv
  <2> HIDE DEF page, ready
  <2> QED BY <1>2, <2>1, <2>2, <2>3
<1>10. DeviceTypes'
  BY <1>0, <1>8, <1>9 DEF ChanInv, DeviceTypes
<1>11. ASSUME kind = "page" PROVE Covers(d)'
  <2> HIDE DEF answer
  <2>1. c.from <= c.latest /\ Contiguous(c.from, c.kept) /\ ~blind
        /\ (c.from = c.latest \/ c.kept # {})
    <3>1. ~Resets(d) /\ ~stale /\ ~blind
      BY <1>11
    <3> QED BY <1>3, <3>1 DEF Resets, NeedsReset
  <2>2. ASSUME NEW u \in Known, c.from < u.pts, u.pts <= result
        PROVE  u \in names /\ u \in stored
    <3>1. u.pts \in Nat
      BY UpdateTypes DEF ChanInv, LogInv, KnownInv
    <3>2. page # {}
      BY <1>3, <2>1, <2>2, <3>1
    <3>3. PICK l \in page : PtsCount[l.key] > 0 /\ l.pts = result
      BY <2>1, <3>2
    <3>4. PICK e \in page : /\ PtsCount[e.key] > 0
                            /\ e.pts - PtsCount[e.key] < u.pts /\ u.pts <= e.pts
      <4>1. MaxPage \in Nat /\ u.pts <= l.pts
        BY <2>2, <3>3, ChannelConstants
      <4> HIDE DEF result, kind, blind, stale
      <4> QED BY <1>3, <2>1, <2>2, <3>1, <3>3, <4>1, PageCovers
    <3> DEFINE v == Named(e.key, e.pts)
    <3>5. v \in stored /\ v \in names
      BY <1>1, <1>4, <3>4 DEF Keeps
    <3>6. u = v \/ u.pts <= Low(v) \/ v.pts <= Low(u)
      BY <3>5 DEF ChanInv, KnownInv, Known
    <3>7. Low(v) < u.pts /\ u.pts <= v.pts /\ v.pts \in Nat /\ Low(v) \in Int
      <4>1. v \in Known
        BY <3>5 DEF Known
      <4>2. Low(v) \in Int /\ v.pts \in Nat
        BY <4>1, UpdateTypes DEF ChanInv, LogInv, KnownInv
      <4> QED BY <3>4, <4>2 DEF Low, Named
    <3>8. Low(u) < u.pts /\ Low(u) \in Int
      BY UpdateTypes DEF ChanInv, LogInv, KnownInv
    <3>9. u = v
      <4> HIDE DEF v, result
      <4> QED BY <3>1, <3>6, <3>7, <3>8
    <3> QED BY <3>5, <3>9
  <2>3. call'[d].from = c.from /\ call'[d].pts = result /\ call'[d].page = names
    BY <1>8 DEF answer
  <2>4. /\ stored \subseteq Known /\ Open(Chan) \subseteq Known /\ stored' = stored
        /\ Open(Chan)' = Open(Chan)
    <3>1. Open(Chan) \subseteq Known
      BY UpdateTypes DEF ChanInv, LogInv, KnownInv, Known
    <3> QED BY <1>0, <3>1 DEF Known, Open, HeldAt, Pending, vars
  <2>5. \A u \in Open(Chan) : u \notin stored
    BY DEF ChanInv, KnownInv
  <2> HIDE DEF result, names, kind
  <2> QED BY <2>2, <2>3, <2>4, <2>5 DEF Covers
<1>12. CallInv(d)'
  <2>1. /\ call'[d].stage = kind /\ kind \in {"gap", "page"} /\ call'[d].from = c.from
        /\ call'[d].pts = result
    <3>1. kind \in {"gap", "page"}
      OBVIOUS
    <3> HIDE DEF kind, result
    <3> QED BY <1>8, <3>1
  <2> HIDE DEF kind, result, answer
  <2> QED BY <1>0, <1>1, <1>5, <1>6, <1>11, <2>1 DEF CallInv
<1> QED BY <1>0, <1>8, <1>10, <1>12, CallMoves

(* A row of the page is marked. *)
LEMMA MarkKeeps == ASSUME ChanInv, NEW d \in Devices, MarkPage(d) PROVE ChanInv'
<1>0. /\ ChanNext /\ call[d].stage \in Kinds /\ Asking(d)
      /\ UNCHANGED <<stored, online, cpts, given, rebuilt, must, date, state,
                     drops, asks, unnamed, unserved>>
  BY DEF ChanNext, MarkPage, Answered
<1>1. /\ call[d] \in Answer /\ call \in [Devices -> {NoCall} \cup Reading \cup Answer]
      /\ CallInv(d)
  BY <1>0, CallTypes DEF ChanInv, DeviceTypes
<1>2. PICK k \in call[d].marks :
        /\ ReaderMarks(k)
        /\ call' = [call EXCEPT ![d] = [call[d] EXCEPT !.marks = call[d].marks \ {k}]]
  BY DEF MarkPage
<1> DEFINE marks == call[d].marks \ {k}
<1>3. marks \in SUBSET Keys
  BY <1>1 DEF Answer
<1>4. call' = [call EXCEPT ![d] = [call[d] EXCEPT !.marks = marks]]
  BY <1>2
<1> HIDE DEF marks
<1>5. /\ call'[d] \in Answer /\ call'[d].stage = call[d].stage
      /\ call'[d].from = call[d].from /\ call'[d].pts = call[d].pts
      /\ call'[d].page = call[d].page
      /\ \A c \in Devices \ {d} : call'[c] = call[c]
      /\ call' \in [Devices -> {NoCall} \cup Reading \cup Answer]
  BY <1>1, <1>3, <1>4 DEF Answer
<1>6. DeviceTypes'
  BY <1>0, <1>5 DEF ChanInv, DeviceTypes
<1>7. /\ BasePts(Chan)' = BasePts(Chan) /\ stored' = stored
      /\ \A u \in Open(Chan)' : u \in Open(Chan)
  <2>1. BasePts(Chan)' = BasePts(Chan)
    BY <1>2 DEF ReaderMarks, BasePts
  <2>2. work' = work /\ \A j \in Keys : Pending(j)' => Pending(j) /\ row'[j].pts = row[j].pts
    <3>1. \A j \in Keys : row[j] # NoRow => row[j] \in Row
      BY TakenTypes, ChanScope DEF ChanInv, LogInv
    <3>2. k \in Keys /\ row \in [Keys -> Row \cup {NoRow}]
      BY <1>1, <1>2 DEF Answer, ChanInv, LogInv, Shape, TypeOK
    <3> QED BY <1>2, <3>1, <3>2 DEF ReaderMarks, Published, Pending, Row
  <2> QED BY <1>0, <2>1, <2>2 DEF Open, HeldAt, CountedIn
<1>8. Covers(d) => Covers(d)'
  BY <1>5, <1>7 DEF Covers
<1>9. CallInv(d)'
  BY <1>0, <1>1, <1>5, <1>7, <1>8 DEF CallInv, Kinds, Asking
<1> QED BY <1>0, <1>5, <1>6, <1>9, CallMoves

(* The device takes the answer, or has gone. *)
LEMMA ReplyKeeps == ASSUME ChanInv, NEW d \in Devices, Reply(d) PROVE ChanInv'
<1>0. /\ ChanNext /\ call[d].stage \in Kinds /\ Asking(d)
      /\ call' = [call EXCEPT ![d] = NoCall]
      /\ UNCHANGED <<vars, stored, online, date, state, drops, asks, unnamed>>
  BY DEF ChanNext, Reply, Answered
<1>1. /\ call[d] \in Answer /\ call \in [Devices -> {NoCall} \cup Reading \cup Answer]
      /\ CallInv(d) /\ Behind(d)
  BY <1>0, CallTypes DEF ChanInv, DeviceTypes
<1>2. /\ call' \in [Devices -> {NoCall} \cup Reading \cup Answer]
      /\ call'[d] = NoCall
      /\ \A c \in Devices \ {d} : call'[c] = call[c]
  BY <1>0, <1>1
<1>3. CASE d \notin online
  <2>1. DeviceTypes'
    BY <1>0, <1>2, <1>3 DEF ChanInv, DeviceTypes, Reply
  <2>2. \A c \in Devices : call'[c] \in {call[c], NoCall}
    BY <1>2
  <2> QED BY <1>0, <1>3, <2>1, <2>2, AllStay DEF Reply
<1>4. CASE d \in online
  <2>1. Takes(d)
    BY <1>4 DEF Reply
  <2>2. /\ call[d].pts \in Nat /\ call[d].page \in SUBSET Update
        /\ cpts[d] \in Nat /\ rebuilt[d] \in Nat
    BY <1>1 DEF Answer, ChanInv, DeviceTypes
  <2>3. DeviceTypes'
    BY <1>0, <1>2, <2>1, <2>2 DEF ChanInv, DeviceTypes, Takes
  <2>4. /\ cpts'[d] = call[d].pts
        /\ \A c \in Devices \ {d} : /\ cpts'[c] = cpts[c] /\ rebuilt'[c] = rebuilt[c]
                                    /\ c \in unserved <=> c \in unserved'
    BY <2>1 DEF Takes, ChanInv, DeviceTypes
  <2>5. BasePts(Chan)' = BasePts(Chan) /\ Open(Chan)' = Open(Chan)
    BY <1>0 DEF BasePts, Open, HeldAt, Pending, vars
  <2>6. Behind(d)'
    <3>1. cpts'[d] <= BasePts(Chan)
      BY <1>0, <1>1, <2>4 DEF CallInv
    <3>2. CASE call[d].stage = "gap"
      <4>1. d \in unserved'
        BY <2>1, <3>2 DEF Takes
      <4> QED BY <2>5, <3>1, <4>1 DEF Behind
    <3>3. CASE call[d].stage = "reset"
      <4>1. rebuilt'[d] = call[d].pts
        BY <2>1, <3>3 DEF Takes, ChanInv, DeviceTypes
      <4>2. \A u \in Open(Chan) : u.pts \in Nat
        BY UpdateTypes DEF ChanInv, LogInv, KnownInv, Known
      <4> QED BY <2>2, <2>4, <2>5, <3>1, <4>1, <4>2 DEF Behind
    <3>4. CASE call[d].stage = "page"
      <4>1. rebuilt' = rebuilt /\ unserved' = unserved
        BY <2>1, <3>4 DEF Takes
      <4>2. Covers(d) /\ call[d].from = cpts[d]
        BY <1>0, <1>1, <3>4 DEF CallInv
      <4>3. \A u \in Open(Chan) : u.pts \in Nat
        BY UpdateTypes DEF ChanInv, LogInv, KnownInv, Known
      <4> QED BY <1>1, <2>2, <2>4, <2>5, <3>1, <4>1, <4>2, <4>3 DEF Behind, Covers
    <3> QED BY <1>0, <3>2, <3>3, <3>4 DEF Kinds
  <2>7. CallInv(d)'
    BY <1>2 DEF CallInv, Asking, NoCall, Kinds
  <2>8. ASSUME NEW c \in Devices \ {d} PROVE Behind(c)' /\ CallInv(c)'
    <3>1. Behind(c)' /\ (CallInv(c) /\ call'[c] = call[c] => CallInv(c)')
      BY <1>0, <2>4, ChanLog, DeviceStays DEF ChanInv
    <3> QED BY <1>2, <3>1 DEF ChanInv
  <2> QED BY <1>0, <2>3, <2>6, <2>7, <2>8, ChanLog DEF ChanInv
<1> QED BY <1>3, <1>4

(* A pushed update that a device takes lies directly behind its pts, and nothing
   unfinished is passed by. *)
LEMMA PushMoves ==
    ASSUME ChanInv, NEW w \in Workers, Push(w)
    PROVE  /\ DeviceTypes'
           /\ UNCHANGED <<stored, rebuilt, call, unserved>>
           /\ \A d \in Devices :
                 \/ cpts'[d] = cpts[d] /\ given'[d] = given[d]
                 \/ \E u \in Sending(Chan) : /\ ~Asking(d) /\ cpts[d] = Low(u) /\ cpts'[d] = u.pts
                                       /\ given'[d] = given[d] \cup {u}
<1> DEFINE k == work[w].key
           u == work[w].held
           v == Named(k, u.pts)
<1>1. PICK received \in SUBSET online :
        LET heard == IF Scope[k] = Chan /\ PtsCount[k] > 0 THEN received ELSE {}
            takes == {d \in heard : ~Asking(d) /\ Fits(d, k, u)}
        IN  /\ drops' = IF received # online THEN drops + 1 ELSE drops
            /\ online' = received
            /\ state' = [d \in Devices |-> IF d \in received THEN state[d] ELSE NoCall]
            /\ cpts' = [d \in Devices |-> IF d \in takes THEN u.pts ELSE cpts[d]]
            /\ given' = [d \in Devices |-> IF d \in takes THEN given[d] \cup {v} ELSE given[d]]
            /\ must' = must \cup {d \in heard \ takes : Asking(d) \/ ~IsOld(d, u)}
  BY DEF Push
<1> DEFINE heard == IF Scope[k] = Chan /\ PtsCount[k] > 0 THEN received ELSE {}
           takes == {d \in heard : ~Asking(d) /\ Fits(d, k, u)}
<1>2. /\ UNCHANGED <<stored, rebuilt, call, date, asks, unnamed, unserved>>
      /\ work[w].stage = "send"
  BY DEF Push, Sent
<1>3. k \in Keys /\ u.pts \in Nat /\ v \in Update
  <2>1. work[w] \in WorkRecord /\ u \in Row
    BY <1>2 DEF ChanInv, LogInv, Shape, TypeOK, HeldRow
  <2>2. k \in Keys
    BY <1>2, <2>1, BusyRecord
  <2> QED BY <2>1, <2>2 DEF Row, Named, Update
<1>4. /\ received \subseteq Devices /\ heard \subseteq received /\ takes \subseteq heard
      /\ drops \in Nat
  BY DEF ChanInv, DeviceTypes
<1>5. DeviceTypes'
  <2>1. /\ online' \subseteq Devices /\ must' \subseteq Devices /\ drops' \in Nat
        /\ state' \in [Devices -> {NoCall} \cup [stage : {"scopes"}, date : Nat]]
    <3> HIDE DEF heard, takes
    <3> QED BY <1>1, <1>4 DEF ChanInv, DeviceTypes, heard, takes
  <2>2. cpts' \in [Devices -> Nat] /\ given' \in [Devices -> SUBSET Update]
    <3>1. cpts' = [d \in Devices |-> IF d \in takes THEN u.pts ELSE cpts[d]]
      BY <1>1
    <3>2. given' = [d \in Devices |-> IF d \in takes THEN given[d] \cup {v} ELSE given[d]]
      BY <1>1
    <3> HIDE DEF takes, u, v
    <3> QED BY <1>3, <3>1, <3>2 DEF ChanInv, DeviceTypes
  <2> QED BY <1>2, <2>1, <2>2 DEF ChanInv, DeviceTypes
<1>6. ASSUME NEW d \in Devices
      PROVE  \/ cpts'[d] = cpts[d] /\ given'[d] = given[d]
             \/ \E x \in Sending(Chan) : /\ ~Asking(d) /\ cpts[d] = Low(x) /\ cpts'[d] = x.pts
                                   /\ given'[d] = given[d] \cup {x}
  <2>1. CASE d \notin takes
    BY <1>1, <2>1
  <2>2. CASE d \in takes
    <3>1. Scope[k] = Chan /\ PtsCount[k] > 0 /\ ~Asking(d) /\ Fits(d, k, u)
      BY <2>2
    <3>2. v \in Sending(Chan)
      BY <1>2, <1>3, <3>1 DEF Sending, HeldAt, CountedIn
    <3>3. cpts[d] = Low(v)
      BY <1>3, <3>1, ConstantTypes DEF Fits, Low, Named, ChanInv, DeviceTypes
    <3>4. cpts'[d] = v.pts /\ given'[d] = given[d] \cup {v}
      BY <1>1, <2>2 DEF Named
    <3> HIDE DEF v
    <3> QED BY <3>1, <3>2, <3>3, <3>4
  <2> QED BY <2>1, <2>2
<1> QED BY <1>2, <1>5, <1>6

(* An update is pushed. *)
LEMMA PushKeeps == ASSUME ChanInv, NEW w \in Workers, Push(w) PROVE ChanInv'
<1>0. ChanNext
  BY DEF ChanNext
<1>1. /\ DeviceTypes' /\ UNCHANGED <<stored, rebuilt, call, unserved>>
  BY PushMoves
<1>2. LogInv' /\ Grows(Chan) /\ KnownInv'
  BY <1>0, ChanLog
<1>3. ASSUME NEW d \in Devices PROVE Behind(d)' /\ CallInv(d)'
  <2>1. CASE cpts'[d] = cpts[d]
    <3>1. Behind(d)' /\ (CallInv(d) /\ call'[d] = call[d] => CallInv(d)')
      BY <1>1, <1>2, <2>1, DeviceStays DEF ChanInv
    <3> QED BY <1>1, <3>1 DEF ChanInv
  <2>2. ASSUME NEW u \in Sending(Chan), ~Asking(d), cpts[d] = Low(u), cpts'[d] = u.pts
        PROVE  Behind(d)' /\ CallInv(d)'
    <3>1. /\ BasePts(Chan) \in Nat /\ BasePts(Chan)' \in Nat
          /\ BasePts(Chan) <= BasePts(Chan)'
          /\ rebuilt[d] \in Nat /\ cpts[d] \in Nat
      BY <1>2, BaseType DEF ChanInv, LogInv, Shape, Grows, DeviceTypes
    <3>2. /\ u \in Known /\ u.pts \in Nat /\ Low(u) < u.pts /\ u.pts <= BasePts(Chan)
          /\ \A v \in Open(Chan) : v \in Known /\ v.pts \in Nat /\ Low(v) < v.pts /\ Low(v) \in Int
      <4>1. u \in Known /\ Open(Chan) \subseteq Known
        BY UpdateTypes DEF ChanInv, LogInv, KnownInv, Known
      <4> QED BY <4>1, UpdateTypes DEF ChanInv, LogInv, KnownInv
    <3>3. cpts'[d] <= BasePts(Chan)'
      BY <2>2, <3>1, <3>2
    <3>4. ASSUME NEW v \in Open(Chan), d \notin unserved PROVE v.pts > u.pts \/ v.pts <= rebuilt[d]
      <4>1. u # v
        BY DEF ChanInv, KnownInv
      <4>2. u.pts <= Low(v) \/ v.pts <= Low(u)
        BY <3>2, <4>1 DEF ChanInv, KnownInv
      <4>3. v.pts > cpts[d] \/ v.pts <= rebuilt[d]
        BY <3>4 DEF ChanInv, Behind
      <4> QED BY <2>2, <3>1, <3>2, <4>2, <4>3
    <3>5. ASSUME NEW v, Fresh(Chan, v) PROVE v.pts > u.pts
      <4>1. Low(v) < v.pts /\ Low(v) \in Int /\ v.pts \in Nat /\ BasePts(Chan) <= Low(v)
        BY <3>5, UpdateTypes DEF ChanInv, LogInv, KnownInv, Fresh
      <4> QED BY <3>1, <3>2, <4>1
    <3>6. \A v \in Open(Chan)' : v \in Open(Chan) \/ Fresh(Chan, v)
      BY <1>2 DEF Grows
    <3>7. Behind(d)'
      BY <1>1, <2>2, <3>3, <3>4, <3>5, <3>6 DEF Behind
    <3>8. CallInv(d)'
      BY <1>1, <2>2 DEF CallInv, Asking, NoCall, Kinds
    <3> QED BY <3>7, <3>8
  <2> QED BY <2>1, <2>2, PushMoves
<1> QED BY <1>1, <1>2, <1>3 DEF ChanInv

(* The invariant holds at first. *)
LEMMA ChanInvInit == ChanInit => ChanInv
<1> SUFFICES ASSUME ChanInit PROVE ChanInv
  OBVIOUS
<1>1. LogInv
  BY LogInvInit DEF ChanInit
<1>2. BasePts(Chan) \in Nat /\ 1 <= BasePts(Chan)
  BY <1>1, BaseType, ChannelConstants DEF ChanInit, Init, BasePts, NoRecord, LogInv, Shape
<1>3. /\ \A w \in Workers : work[w].stage = "idle"
      /\ \A k \in Keys : row[k] = NoRow
  BY IdleRecord DEF ChanInit, Init
<1>4. Taken(Chan) = {} /\ Open(Chan) = {} /\ FinishedIn(Chan) = {} /\ stored = {}
  BY <1>3 DEF Taken, Open, FinishedIn, InRows, HeldAt, CountedIn, Pending, ChanInit
<1>5. KnownInv
  BY <1>4 DEF KnownInv, Known
<1>6. DeviceTypes
  BY DEF ChanInit, DeviceTypes
<1>7. ASSUME NEW d \in Devices PROVE Behind(d) /\ CallInv(d)
  <2>1. cpts[d] = 1 /\ call[d] = NoCall
    BY DEF ChanInit
  <2> QED BY <1>2, <1>4, <2>1 DEF Behind, CallInv, Asking, NoCall, Kinds
<1> QED BY <1>1, <1>5, <1>6, <1>7 DEF ChanInv

(* Every step keeps the invariant. *)
LEMMA ChanInvNext == ChanInv /\ [ChanNext]_allVars => ChanInv'
<1> SUFFICES ASSUME ChanInv, [ChanNext]_allVars PROVE ChanInv'
  OBVIOUS
<1>1. CASE Logs
  <2>1. UNCHANGED deviceVars
    BY <1>1 DEF Logs
  <2>2. DeviceTypes'
    BY <2>1 DEF ChanInv, DeviceTypes, deviceVars
  <2> QED BY <2>1, <2>2, AllStay DEF deviceVars
<1>2. ASSUME NEW d \in Devices, Connect(d) PROVE ChanInv'
  <2>1. DeviceTypes'
    <3>1. account.date \in Nat
      BY DEF ChanInv, LogInv, Shape, TypeOK
    <3> QED BY <1>2, <3>1 DEF ChanInv, DeviceTypes, Connect
  <2> QED BY <1>2, <2>1, AllStay DEF Connect
<1>3. ASSUME NEW d \in Devices, Disconnect(d) PROVE ChanInv'
  <2>1. DeviceTypes'
    BY <1>3 DEF ChanInv, DeviceTypes, Disconnect
  <2> QED BY <1>3, <2>1, AllStay DEF Disconnect
<1>4. ASSUME NEW d \in Devices, NameChannels(d) PROVE ChanInv'
  <2>1. DeviceTypes'
    <3>1. Unfinished \subseteq Update
      BY UnfinishedTypes DEF ChanInv, LogInv
    <3>2. state[d].date \in Nat
      BY <1>4 DEF ChanInv, DeviceTypes, NameChannels
    <3> QED BY <1>4, <3>1, <3>2 DEF ChanInv, DeviceTypes, NameChannels
  <2> QED BY <1>4, <2>1, AllStay DEF NameChannels
<1>5. CASE Restart
  <2>1. DeviceTypes'
    BY <1>5 DEF ChanInv, DeviceTypes, Restart
  <2> QED BY <1>5, <2>1, AllStay DEF Restart
<1>6. CASE UNCHANGED allVars
  <2>1. DeviceTypes'
    BY <1>6 DEF ChanInv, DeviceTypes, allVars, deviceVars
  <2> QED BY <1>6, <2>1, AllStay DEF allVars, deviceVars
<1> QED
  BY <1>1, <1>2, <1>3, <1>4, <1>5, <1>6, PushKeeps, AskKeeps, FetchKeeps, SettleKeeps,
     ResetKeeps, PageKeeps, MarkKeeps, ReplyKeeps DEF ChanNext

(* Every variable of the log and of the devices has its type. *)
THEOREM ChanTypeCorrect == ChanSpec => []ChanTypeOK
<1>1. ChanInv => ChanTypeOK
  BY DEF ChanInv, LogInv, Shape, KnownInv, DeviceTypes, ChanTypeOK, CountedIn, Update
<1> QED BY ChanInvInit, ChanInvNext, <1>1, PTL DEF ChanSpec

----------------------------------------------------------------------------
\* The step simulation behind KeepsStream.

(* At most one update gets its payload, and none that a follower has passed. *)
LEMMA LogsAdd ==
    ASSUME ChanInv, Logs
    PROVE  [Log!StreamNext]_(Log!streamVars)
<1>1. /\ Grows(Chan) /\ stored' = stored \cup FinishedIn(Chan)'
      /\ \A u \in stored' : u \in stored \/ u \in Open(Chan)
  BY ChanLog DEF ChanNext, Logs, InLog
<1>2. UNCHANGED <<cpts, given, rebuilt, unserved>>
  BY DEF Logs, deviceVars
<1>3. CASE stored' = stored
  BY <1>2, <1>3 DEF Log!streamVars
<1>4. CASE stored' # stored
  <2>1. PICK u \in FinishedIn(Chan)' : u \notin stored
    BY <1>1, <1>4
  <2>2. u \in Open(Chan) /\ u \notin FinishedIn(Chan)
    BY <1>1, <2>1 DEF ChanInv, KnownInv
  <2>3. stored' = stored \cup {u}
    <3>1. \A v \in FinishedIn(Chan)' : v \in stored \/ v = u
      BY <1>1, <2>1, <2>2 DEF Grows, ChanInv, KnownInv
    <3> QED BY <1>1, <2>1, <3>1
  <2>4. \A d \in Devices \ unserved : u.pts > cpts[d] \/ u.pts <= rebuilt[d]
    BY <2>2 DEF ChanInv, Behind
  <2>5. Log!Add(u)
    BY <1>2, <2>3, <2>4 DEF Log!Add
  <2>6. u \in stored' \cap Log!Update
    <3>1. Open(Chan) \subseteq Known
      BY UpdateTypes DEF ChanInv, LogInv, KnownInv, Known
    <3>2. u \in Update
      BY <2>2, <3>1, UpdateTypes DEF ChanInv, LogInv, KnownInv
    <3> QED BY <2>3, <3>2 DEF Update, Log!Update
  <2> QED BY <2>5, <2>6 DEF Log!StreamNext
<1> QED BY <1>3, <1>4

(* The devices that take a pushed update follow the stream over it alone. *)
LEMMA PushFollows ==
    ASSUME ChanInv, NEW w \in Workers, Push(w)
    PROVE  Log!Follow
<1>1. DeviceTypes' /\ UNCHANGED <<stored, rebuilt, unserved>>
  BY PushMoves
<1>2. ASSUME NEW d \in Devices
      PROVE  /\ given[d] \subseteq given'[d]
             /\ Log!Between(d, cpts'[d]) \subseteq given'[d]
  <2>1. cpts[d] \in Nat /\ stored \subseteq Known
    BY DEF ChanInv, DeviceTypes, Known
  <2>2. \A v \in stored : v \in Known /\ v.pts \in Nat /\ Low(v) < v.pts /\ Low(v) \in Int
    BY <2>1, UpdateTypes DEF ChanInv, LogInv, KnownInv
  <2>3. CASE cpts'[d] = cpts[d] /\ given'[d] = given[d]
    BY <2>1, <2>2, <2>3 DEF Log!Between
  <2>4. ASSUME NEW u \in Sending(Chan), cpts[d] = Low(u), cpts'[d] = u.pts,
               given'[d] = given[d] \cup {u}
        PROVE  given[d] \subseteq given'[d] /\ Log!Between(d, cpts'[d]) \subseteq given'[d]
    <3>1. u \in Known
      BY UpdateTypes DEF ChanInv, LogInv, KnownInv, Known
    <3>2. u.pts \in Nat /\ Low(u) < u.pts /\ Low(u) \in Int
      BY <3>1, UpdateTypes DEF ChanInv, LogInv, KnownInv
    <3>3. ASSUME NEW v \in stored, v.pts > cpts[d], v.pts <= u.pts PROVE v = u
      <4>1. u = v \/ u.pts <= Low(v) \/ v.pts <= Low(u)
        BY <2>2, <3>1 DEF ChanInv, KnownInv
      <4> QED BY <2>1, <2>2, <2>4, <3>2, <3>3, <4>1
    <3> QED BY <2>4, <3>3 DEF Log!Between
  <2> QED BY <2>3, <2>4, PushMoves
<1> QED BY <1>1, <1>2 DEF Log!Follow, DeviceTypes

(* An answer moves the device over its page, makes it rebuild, or forsakes it. *)
LEMMA ReplyFollows ==
    ASSUME ChanInv, NEW d \in Devices, Reply(d)
    PROVE  [Log!StreamNext]_(Log!streamVars)
<1>1. call[d].stage \in Kinds /\ Asking(d) /\ stored' = stored
  BY DEF Reply, Answered
<1>2. call[d] \in Answer /\ CallInv(d)
  BY <1>1, CallTypes DEF ChanInv
<1>3. /\ call[d].pts \in Nat /\ call[d].page \in SUBSET Update
      /\ cpts \in [Devices -> Nat] /\ rebuilt \in [Devices -> Nat]
      /\ given \in [Devices -> SUBSET Update]
  BY <1>2 DEF Answer, ChanInv, DeviceTypes
<1>4. CASE d \notin online
  BY <1>1, <1>4 DEF Reply, Log!streamVars
<1>5. CASE Takes(d) /\ call[d].stage = "page"
  <2>1. /\ cpts' = [cpts EXCEPT ![d] = call[d].pts] /\ rebuilt' = rebuilt
        /\ given' = [given EXCEPT ![d] = given[d] \cup call[d].page]
        /\ unserved' = unserved
    BY <1>5 DEF Takes
  <2>2. Covers(d) /\ call[d].from = cpts[d]
    BY <1>1, <1>2, <1>5 DEF CallInv
  <2>3. Log!Between(d, cpts'[d]) \subseteq given'[d]
    BY <1>3, <2>1, <2>2 DEF Log!Between, Covers
  <2>4. ASSUME NEW c \in Devices \ {d}
        PROVE  given[c] \subseteq given'[c] /\ Log!Between(c, cpts'[c]) \subseteq given'[c]
    <3>1. cpts'[c] = cpts[c] /\ given'[c] = given[c] /\ cpts[c] \in Nat
      BY <1>3, <2>1
    <3>2. \A u \in stored : u.pts \in Nat
      BY DEF ChanInv, KnownInv
    <3> QED BY <3>1, <3>2 DEF Log!Between
  <2>5. cpts' \in [Devices -> Nat] /\ DOMAIN given' = Devices /\ given[d] \subseteq given'[d]
    BY <1>3, <2>1
  <2>6. Log!Follow
    BY <1>1, <2>1, <2>3, <2>4, <2>5 DEF Log!Follow
  <2> QED BY <2>6 DEF Log!StreamNext
<1>6. CASE Takes(d) /\ call[d].stage = "gap"
  <2>1. /\ cpts' = [cpts EXCEPT ![d] = call[d].pts] /\ rebuilt' = rebuilt
        /\ given' = [given EXCEPT ![d] = given[d] \cup call[d].page]
        /\ unserved' = unserved \cup {d}
    BY <1>6 DEF Takes
  <2>2. cpts'[d] = call[d].pts /\ given'[d] = given[d] \cup call[d].page
    BY <1>3, <2>1
  <2>3. given[d] \cup (given'[d] \ given[d]) = given[d] \cup call[d].page
    BY <2>2
  <2>4. Log!Forsake(d, cpts'[d], given'[d] \ given[d])
    BY <1>1, <1>3, <2>1, <2>2, <2>3 DEF Log!Forsake
  <2> QED BY <2>4 DEF Log!StreamNext
<1>7. CASE Takes(d) /\ call[d].stage = "reset"
  <2>1. /\ cpts' = [cpts EXCEPT ![d] = call[d].pts]
        /\ rebuilt' = [rebuilt EXCEPT ![d] = call[d].pts]
        /\ unserved' = unserved \ {d}
    BY <1>7 DEF Takes
  <2>2. given' = given
    BY <1>2, <1>3, <1>7 DEF Takes, CallInv
  <2>3. cpts'[d] = call[d].pts
    BY <1>3, <2>1
  <2>4. Log!Rebuild(d, cpts'[d])
    BY <1>1, <1>3, <2>1, <2>2, <2>3 DEF Log!Rebuild
  <2> QED BY <2>4 DEF Log!StreamNext
<1> QED BY <1>1, <1>4, <1>5, <1>6, <1>7 DEF Reply, Kinds

(* Every step of the devices and the log is a step of the stream. *)
LEMMA StreamSteps == ChanInv /\ [ChanNext]_allVars => [Log!StreamNext]_(Log!streamVars)
<1> SUFFICES ASSUME ChanInv, [ChanNext]_allVars PROVE [Log!StreamNext]_(Log!streamVars)
  OBVIOUS
<1>1. ASSUME NEW w \in Workers, Push(w) PROVE [Log!StreamNext]_(Log!streamVars)
  BY <1>1, PushFollows DEF Log!StreamNext
<1>2. ASSUME NEW d \in Devices,
             Connect(d) \/ Disconnect(d) \/ NameChannels(d) \/ Ask(d) \/ Settle(d)
             \/ MarkPage(d)
      PROVE  [Log!StreamNext]_(Log!streamVars)
  BY <1>2 DEF Connect, Disconnect, NameChannels, Ask, Settle, MarkPage, Log!streamVars
<1>3. ASSUME NEW d \in Devices, FetchRows(d) \/ AnswerReset(d) \/ AnswerPage(d)
      PROVE  [Log!StreamNext]_(Log!streamVars)
  BY <1>3 DEF FetchRows, AnswerReset, AnswerPage, Log!streamVars
<1>4. CASE Restart \/ UNCHANGED allVars
  BY <1>4 DEF Restart, allVars, deviceVars, Log!streamVars
<1> QED BY <1>1, <1>2, <1>3, <1>4, LogsAdd, ReplyFollows DEF ChanNext

(* For any number of devices, calls and updates, and whatever the limits of a
   page, a fetch, a backlog and the retention are: pushes and channel differences
   keep the stream (update-manager.ts:1190). *)
THEOREM StreamKept == ChanSpec => KeepsStream
<1>1. ChanInit => Log!StreamInit
  BY DEF ChanInit, Log!StreamInit
<1> QED BY <1>1, ChanInvInit, ChanInvNext, StreamSteps, PTL DEF ChanSpec, KeepsStream, Log!Stream

(* A device of the code, then, has every update of the channel it has passed
   unless it was told to go on when it had to rebuild. *)
THEOREM DevicesFollow == ChanSpec => []Log!Followed
  BY StreamKept, Log!StreamFollowed DEF KeepsStream

----------------------------------------------------------------------------
\* The rows a call has read.

ReadBy(d) == call[d].todo \cup call[d].kept

\* What a call has read lies behind the request's pts and within the state.  A row that
\* is reserved anew while the handler looks at it moves behind all of it.
Places(d) ==
    call[d].stage = "settle" =>
      /\ \A e \in ReadBy(d) : call[d].from < e.at[1] /\ e.at[1] <= BasePts(Chan)
      /\ \A e, f \in ReadBy(d) :
            PtsCount[e.key] > 0 /\ PtsCount[f.key] > 0 /\ e.at[1] = f.at[1] => e.at = f.at
      /\ \A e \in call[d].kept, f \in ReadBy(d) :
            e.pts = e.at[1] \/ f.at[1] <= e.pts - PtsCount[e.key]
      /\ \A e \in call[d].todo, f \in ReadBy(d) : ReservedAt(e.key, e.at[1], f.at[1])

(* What is kept never moved down. *)
LEMMA PlacesRise ==
    ASSUME ChanInv, NEW d \in Devices, Places(d), call[d].stage = "settle"
    PROVE  \A e \in call[d].kept : /\ e \in EntryOf /\ call[d].from < e.at[1]
                                   /\ e.at[1] <= e.pts /\ call[d].from < e.pts
<1>1. call[d] \in Reading
  BY CallTypes DEF ChanInv
<1> SUFFICES ASSUME NEW e \in call[d].kept
             PROVE  /\ e \in EntryOf /\ call[d].from < e.at[1]
                    /\ e.at[1] <= e.pts /\ call[d].from < e.pts
  OBVIOUS
<1>2. /\ e \in EntryOf /\ e.pts \in Nat /\ e.at[1] \in Nat /\ call[d].from \in Nat
      /\ PtsCount[e.key] \in Nat
  BY <1>1, ConstantTypes DEF Reading, EntryOf
<1>3. /\ call[d].from < e.at[1]
      /\ e.pts = e.at[1] \/ e.at[1] <= e.pts - PtsCount[e.key]
  BY DEF Places, ReadBy
<1> QED BY <1>2, <1>3

(* The handler reads the rows. *)
LEMMA PlacesRead ==
    ASSUME ChanInv, NEW d \in Devices, FetchRows(d)
    PROVE  Places(d)'
<1> DEFINE rows == RowsAfter(Chan, call[d].from)
<1>1. /\ call[d] \in Reading /\ call \in [Devices -> {NoCall} \cup Reading \cup Answer]
      /\ UNCHANGED vars
  BY CallTypes DEF ChanInv, DeviceTypes, FetchRows
<1>2. /\ call'[d].from = call[d].from
      /\ call'[d].todo \subseteq rows /\ call'[d].kept \subseteq rows
  <2> DEFINE found == FirstOf(rows, FetchLimit)
             todo == {e \in found : ~e.ready}
             kept == {e \in found : e.ready}
             beyond == rows \ found
  <2>1. call' = [call EXCEPT ![d] = [call[d] EXCEPT !.stage = "settle", !.todo = todo,
                                           !.kept = kept, !.beyond = beyond]]
    BY <1>1 DEF FetchRows
  <2>2. todo \subseteq rows /\ kept \subseteq rows
    BY DEF FirstOf
  <2> HIDE DEF todo, kept, beyond
  <2> QED BY <1>1, <2>1, <2>2 DEF Reading
<1>3. ASSUME NEW e \in rows
      PROVE  /\ e.key \in Keys /\ row[e.key] # NoRow /\ Scope[e.key] = Chan
             /\ e.pts = row[e.key].pts /\ e.at = <<row[e.key].pts, row[e.key].seq>>
             /\ e.at[1] = e.pts /\ e.pts \in Nat
             /\ call[d].from < e.pts /\ e.pts <= BasePts(Chan)
             /\ ReservedAt(e.key, e.at[1], e.at[1])
             /\ \A w \in Workers : ~(work[w].stage = "create" /\ work[w].key = e.key)
  <2>1. PICK k \in Keys : /\ row[k] # NoRow /\ row[k].pts > call[d].from /\ Scope[k] = Chan
                          /\ e = Entry(k, <<row[k].pts, row[k].seq>>)
    BY <1>3 DEF RowsAfter
  <2>2. e.key = k /\ e.pts = row[k].pts /\ e.at = <<row[k].pts, row[k].seq>>
    BY <2>1 DEF Entry
  <2>3. row[k].pts \in Nat /\ row[k].seq \in Nat /\ call[d].from \in Nat
    BY <1>1, <2>1 DEF ChanInv, LogInv, Shape, TypeOK, Row, Reading
  <2>4. e.pts <= BasePts(Chan)
    BY <2>1, <2>3, EntryKept DEF ChanInv
  <2>5. \A w \in Workers : ~(work[w].stage = "create" /\ work[w].key = k)
    BY <2>1 DEF ChanInv, LogInv, CreatesNewest, Newest
  <2> QED BY <2>1, <2>2, <2>3, <2>4, <2>5 DEF ReservedAt
<1>4. ASSUME NEW e \in rows, NEW f \in rows,
             PtsCount[e.key] > 0, PtsCount[f.key] > 0, e.at[1] = f.at[1]
      PROVE  e.at = f.at
  <2> DEFINE u == Named(e.key, e.pts)
             v == Named(f.key, f.pts)
  <2>1. u \in Known /\ v \in Known
    BY <1>3, <1>4 DEF Known, Taken, InRows, CountedIn
  <2>2. /\ u = v \/ u.pts <= Low(v) \/ v.pts <= Low(u)
        /\ Low(u) < u.pts /\ Low(v) < v.pts /\ Low(u) \in Int /\ Low(v) \in Int
    BY <2>1, UpdateTypes DEF ChanInv, KnownInv, LogInv
  <2>3. u.pts = e.pts /\ v.pts = f.pts /\ u.name = e.key /\ v.name = f.key /\ e.pts = f.pts
    BY <1>3, <1>4 DEF Named
  <2> HIDE DEF u, v
  <2>4. e.key = f.key
    BY <1>3, <2>2, <2>3
  <2> QED BY <1>3, <2>4
<1>5. BasePts(Chan)' = BasePts(Chan)
  BY <1>1 DEF BasePts, vars
<1> HIDE DEF rows
<1> QED BY <1>1, <1>2, <1>3, <1>4, <1>5 DEF Places, ReadBy, ReservedAt, vars

(* Rows that were read stay where they were, or are reserved anew behind the state. *)
LEMMA PlacesStay ==
    ASSUME ChanInv, [ChanNext]_allVars, NEW d \in Devices, Places(d),
           call'[d].stage = "settle" =>
              /\ call[d].stage = "settle" /\ call'[d].from = call[d].from
              /\ call'[d].todo \subseteq call[d].todo
              /\ \A e \in call'[d].kept :
                    \/ e \in call[d].kept
                    \/ \E g \in call[d].todo : /\ e.key = g.key /\ e.at = g.at
                                               /\ row[g.key] # NoRow /\ e.pts = row[g.key].pts
    PROVE  Places(d)'
<1> SUFFICES ASSUME call'[d].stage = "settle" PROVE Places(d)'
  BY DEF Places
<1>1. /\ [Next]_vars /\ LogInv
      /\ BasePts(Chan) \in Nat /\ BasePts(Chan)' \in Nat /\ BasePts(Chan) <= BasePts(Chan)'
  BY ChanLog, BaseType DEF ChanInv, Grows, LogInv, Shape
<1>2. call[d].stage = "settle" /\ Keeps(d) /\ call[d] \in Reading
  BY CallTypes DEF ChanInv, CallInv
<1>3. \A e \in ReadBy(d) : e.key \in Keys /\ e.at[1] \in Nat
  BY <1>2 DEF Reading, EntryOf, ReadBy
<1>4. \A e \in ReadBy(d)' : \E g \in ReadBy(d) : e.key = g.key /\ e.at = g.at
  BY DEF ReadBy
<1>5. \A e \in ReadBy(d)' : call'[d].from < e.at[1] /\ e.at[1] <= BasePts(Chan)'
  <2>1. \A e \in ReadBy(d) : call[d].from < e.at[1] /\ e.at[1] <= BasePts(Chan)
    BY <1>2 DEF Places
  <2> QED BY <1>1, <1>3, <1>4, <2>1
<1>6. \A e, f \in ReadBy(d)' :
         PtsCount[e.key] > 0 /\ PtsCount[f.key] > 0 /\ e.at[1] = f.at[1] => e.at = f.at
  BY <1>2, <1>4 DEF Places
<1>7. ASSUME NEW e \in call'[d].kept, NEW f \in ReadBy(d)'
      PROVE  e.pts = e.at[1] \/ f.at[1] <= e.pts - PtsCount[e.key]
  <2>1. PICK h \in ReadBy(d) : f.at = h.at
    BY <1>4
  <2>2. CASE e \in call[d].kept
    BY <1>2, <2>1, <2>2 DEF Places
  <2>3. ASSUME NEW g \in call[d].todo, e.key = g.key, e.at = g.at,
               row[g.key] # NoRow, e.pts = row[g.key].pts
        PROVE  e.pts = e.at[1] \/ f.at[1] <= e.pts - PtsCount[e.key]
    BY <1>2, <2>1, <2>3 DEF Places, ReservedAt
  <2> QED BY <2>2, <2>3
<1>8. ASSUME NEW e \in call'[d].todo, NEW f \in ReadBy(d)'
      PROVE  ReservedAt(e.key, e.at[1], f.at[1])'
  <2>1. PICK h \in ReadBy(d) : f.at = h.at
    BY <1>4
  <2>2. /\ e \in ReadBy(d) /\ Scope[e.key] = Chan
        /\ h.at[1] <= BasePts(Chan) /\ ReservedAt(e.key, e.at[1], h.at[1])
    BY <1>2 DEF Places, Keeps, ReadBy
  <2>3. ReservedAt(e.key, e.at[1], h.at[1])'
    BY <1>1, <1>3, <2>2, ReservedStays
  <2> QED BY <2>1, <2>3
<1> QED BY <1>5, <1>6, <1>7, <1>8 DEF Places

(* What a handler looks at next is dropped, or kept as it is by now. *)
LEMMA Settles ==
    ASSUME ChanInv, NEW d \in Devices, Settle(d)
    PROVE  /\ call[d].stage = "settle" /\ call'[d].stage = "settle"
           /\ call'[d].from = call[d].from /\ call'[d].latest = call[d].latest
           /\ call'[d].beyond = call[d].beyond
           /\ call'[d].todo \subseteq call[d].todo /\ call[d].kept \subseteq call'[d].kept
           /\ \A e \in call'[d].kept :
                 \/ e \in call[d].kept
                 \/ \E g \in call[d].todo : /\ e.key = g.key /\ e.at = g.at
                                            /\ row[g.key] # NoRow /\ e.pts = row[g.key].pts
<1> DEFINE e == Head1(call[d].todo)
           f == Entry(e.key, e.at)
           todo == call[d].todo \ {e}
           kept == call[d].kept \cup {f}
<1>0. call[d].stage = "settle" /\ call[d].todo # {}
  BY DEF Settle
<1>1. /\ call[d] \in Reading /\ call \in [Devices -> {NoCall} \cup Reading \cup Answer]
      /\ Keeps(d)
  BY <1>0, CallTypes DEF ChanInv, DeviceTypes, CallInv
<1>2. e \in call[d].todo
  <2>1. call[d].todo \in SUBSET EntryOf /\ IsFiniteSet(call[d].todo)
    BY <1>1 DEF Reading, Keeps
  <2> QED BY <1>0, <2>1, HeadOf
<1>3. f.key = e.key /\ f.at = e.at /\ f.pts = row[e.key].pts
  BY DEF Entry
<1>4. \/ call' = [call EXCEPT ![d] = [call[d] EXCEPT !.todo = todo]]
      \/ /\ row[e.key] # NoRow
         /\ call' = [call EXCEPT ![d] = [call[d] EXCEPT !.todo = todo, !.kept = kept]]
  <2> HIDE DEF f
  <2> QED BY <1>0, <1>1 DEF Settle, Reading, e, f
<1> HIDE DEF e, f
<1>5. CASE call' = [call EXCEPT ![d] = [call[d] EXCEPT !.todo = todo]]
  BY <1>0, <1>1, <1>5 DEF Reading
<1>6. CASE /\ row[e.key] # NoRow
           /\ call' = [call EXCEPT ![d] = [call[d] EXCEPT !.todo = todo, !.kept = kept]]
  <2> HIDE DEF todo, kept
  <2>1. /\ call'[d].stage = "settle" /\ call'[d].todo = todo /\ call'[d].kept = kept
        /\ call'[d].beyond = call[d].beyond
        /\ call'[d].from = call[d].from /\ call'[d].latest = call[d].latest
    BY <1>0, <1>1, <1>6 DEF Reading
  <2> QED BY <1>0, <1>2, <1>3, <1>6, <2>1 DEF todo, kept
<1> QED BY <1>4, <1>5, <1>6

(* Every step keeps the places of what was read. *)
LEMMA PlacesKept ==
    ASSUME ChanInv, [ChanNext]_allVars, NEW d \in Devices, Places(d)
    PROVE  Places(d)'
<1>0. call \in [Devices -> {NoCall} \cup Reading \cup Answer]
  BY DEF ChanInv, DeviceTypes
<1>1. call'[d] = call[d] => Places(d)'
  BY PlacesStay
<1>2. call'[d].stage # "settle" => Places(d)'
  BY DEF Places
<1>3. ASSUME Settle(d) PROVE Places(d)'
  BY <1>3, Settles, PlacesStay
<1>4. ASSUME \/ Ask(d) \/ AnswerReset(d) \/ AnswerPage(d) \/ Reply(d) \/ Restart
      PROVE  Places(d)'
  <2>1. call'[d].stage # "settle"
    BY <1>0, <1>4 DEF Ask, AnswerReset, AnswerPage, Reply, Restart, Decides, NoCall
  <2> QED BY <1>2, <2>1
<1>5. ASSUME MarkPage(d) PROVE Places(d)'
  <2>1. call[d].stage \in Kinds
    BY <1>5 DEF MarkPage, Answered
  <2>2. call[d] \in Answer
    BY <2>1, CallTypes DEF ChanInv
  <2>3. PICK k : call' = [call EXCEPT ![d] = [call[d] EXCEPT !.marks = call[d].marks \ {k}]]
    BY <1>5 DEF MarkPage
  <2>4. call'[d].stage = call[d].stage
    BY <1>0, <2>2, <2>3 DEF Answer
  <2> QED BY <1>2, <2>1, <2>4 DEF Kinds
<1>6. ASSUME NEW c \in Devices \ {d},
             \/ Ask(c) \/ FetchRows(c) \/ Settle(c) \/ AnswerReset(c)
             \/ AnswerPage(c) \/ MarkPage(c) \/ Reply(c)
      PROVE  call'[d] = call[d]
  BY <1>0, <1>6
  DEF Ask, FetchRows, Settle, AnswerReset, AnswerPage, MarkPage, Reply, Decides
<1>7. ASSUME \/ Logs \/ UNCHANGED allVars \/ \E w \in Workers : Push(w)
             \/ \E c \in Devices : Connect(c) \/ Disconnect(c) \/ NameChannels(c)
      PROVE  call' = call
  BY <1>7 DEF Logs, allVars, deviceVars, Push, Connect, Disconnect, NameChannels
<1> QED BY <1>1, <1>3, <1>4, <1>5, <1>6, <1>7, PlacesRead DEF ChanNext

----------------------------------------------------------------------------
\* Devices do not go back and are given nothing twice.

GivenUpTo(d, p) == \A u \in given[d] : PtsCount[u.name] > 0 => u.pts <= p

\* A device that was not told to go on has nothing from behind its pts; what a call
\* is about to give it lies behind them, and on a page up to the pts it moves to.
Steady(d) ==
    /\ GivenUpTo(d, BasePts(Chan))
    /\ d \in unserved \/ GivenUpTo(d, cpts[d])
    /\ call[d].stage \in {"rows", "settle"} =>
          call[d].from <= call[d].latest /\ GivenUpTo(d, call[d].latest)
    /\ call[d].stage \in Kinds =>
          /\ cpts[d] <= call[d].pts
          /\ \A u \in call[d].page : PtsCount[u.name] > 0 =>
                cpts[d] < u.pts /\ u.pts <= BasePts(Chan)
    /\ call[d].stage = "reset" => GivenUpTo(d, call[d].pts)
    /\ call[d].stage = "page" =>
          \A u \in call[d].page : PtsCount[u.name] > 0 => u.pts <= call[d].pts

SteadyInv == \A d \in Devices : Places(d) /\ Steady(d)

(* Rows that continue the request's pts are where they were read: one that was reserved
   anew counts from behind all of them. *)
LEMMA InPlace ==
    ASSUME ChanInv, NEW d \in Devices, Places(d), call[d].stage = "settle",
           Contiguous(call[d].from, call[d].kept)
    PROVE  \A e \in call[d].kept : PtsCount[e.key] > 0 => e.pts = e.at[1]
<1> DEFINE kept == call[d].kept
           counted == {e \in kept : PtsCount[e.key] > 0}
           moved == {e \in counted : e.pts # e.at[1]}
           earlier(e) == {f \in counted : Before(f, e)}
<1>1. kept \in SUBSET EntryOf /\ IsFiniteSet(kept) /\ call[d].from \in Nat
  BY CallTypes DEF ChanInv, CallInv, Keeps, Reading
<1>2. counted \in SUBSET EntryOf /\ IsFiniteSet(counted)
      /\ moved \in SUBSET EntryOf /\ IsFiniteSet(moved)
  <2>1. counted \subseteq kept /\ moved \subseteq kept
    OBVIOUS
  <2> HIDE DEF counted, moved, kept
  <2> QED BY <1>1, <2>1, FS_Subset
<1>3. \A e \in EntryOf : /\ e.pts \in Nat /\ e.at[1] \in Nat /\ e.at[2] \in Nat
                         /\ PtsCount[e.key] \in Nat
  BY ConstantTypes DEF EntryOf
<1> SUFFICES ASSUME moved # {} PROVE FALSE
  OBVIOUS
<1>4. PICK r \in moved : \A f \in moved : ~Before(f, r)
  <2> HIDE DEF moved
  <2> QED BY <1>2, HeadOf
<1>5. r \in kept /\ r \in EntryOf /\ PtsCount[r.key] > 0 /\ r.pts # r.at[1]
  BY <1>2, <1>4
<1>6. call[d].from < r.at[1] /\ r.at[1] <= r.pts - PtsCount[r.key]
  BY <1>5 DEF Places, ReadBy
<1>7. r.pts - PtsCount[r.key] =
         IF earlier(r) = {} THEN call[d].from ELSE Last1(earlier(r)).pts
  BY <1>5 DEF Contiguous
<1>8. CASE earlier(r) = {}
  BY <1>1, <1>3, <1>5, <1>6, <1>7, <1>8
<1>9. CASE earlier(r) # {}
  <2>1. earlier(r) \in SUBSET EntryOf /\ IsFiniteSet(earlier(r))
    <3>1. earlier(r) \subseteq counted
      OBVIOUS
    <3> HIDE DEF earlier, counted
    <3> QED BY <1>2, <3>1, FS_Subset
  <2>2. PICK g \in earlier(r) : g = Last1(earlier(r))
    <3> HIDE DEF earlier
    <3> QED BY <1>9, <2>1, LastOf
  <2>3. g \in kept /\ g \in EntryOf /\ PtsCount[g.key] > 0 /\ Before(g, r)
    BY <2>1, <2>2
  <2>4. g.pts = g.at[1]
    BY <1>4, <2>3
  <2>5. r.at[1] <= g.at[1]
    BY <1>6, <1>7, <1>9, <2>2, <2>4
  <2>6. g.at[1] = r.at[1] => g.at = r.at
    BY <1>5, <2>3 DEF Places, ReadBy
  <2> QED BY <1>3, <1>5, <2>3, <2>5, <2>6 DEF Before
<1> QED BY <1>8, <1>9

(* The entries of a page lie at or before the last of them. *)
LEMMA PageEnds ==
    ASSUME NEW S \in SUBSET EntryOf, IsFiniteSet(S), \A e \in S : e.at[1] <= e.pts,
           NEW e \in S, e.at[1] = e.pts
    PROVE  Last1(S) \in S /\ e.pts <= Last1(S).pts
<1>1. Last1(S) \in S /\ ~Before(Last1(S), e)
  BY LastOf
<1>2. /\ e.pts \in Nat /\ e.at[1] \in Nat /\ e.at[2] \in Nat
      /\ Last1(S).pts \in Nat /\ Last1(S).at[1] \in Nat /\ Last1(S).at[2] \in Nat
      /\ Last1(S).at[1] <= Last1(S).pts
  BY <1>1 DEF EntryOf
<1> QED BY <1>1, <1>2 DEF Before

(* An answer with rows moves the device on, and gives it what lies behind its pts. *)
LEMMA PageSteady ==
    ASSUME ChanInv, NEW d \in Devices, Places(d), Steady(d), AnswerPage(d)
    PROVE  /\ call'[d].stage \in {"gap", "page"} /\ cpts[d] <= call'[d].pts
           /\ \A u \in call'[d].page : PtsCount[u.name] > 0 =>
                 /\ cpts[d] < u.pts /\ u.pts <= BasePts(Chan)
                 /\ call'[d].stage = "page" => u.pts <= call'[d].pts
<1> DEFINE c == call[d]
           ready == ReadyPrefix(c.kept)
           page == FirstOf(ready, MaxPage)
           result == IF c.kept = {} THEN c.latest
                     ELSE IF page = {} THEN c.from ELSE Last1(page).pts
           stale == c.from = c.latest /\ ~Contiguous(c.from, c.kept)
           blind == page # {} /\ ~\E e \in page : PtsCount[e.key] > 0 /\ e.pts = result
           kind == IF Resets(d) \/ stale \/ blind THEN "gap" ELSE "page"
           names == {Named(e.key, e.pts) : e \in page}
<1>0. c.stage = "settle"
  BY DEF AnswerPage, Settled
<1>1. /\ c \in Reading /\ call \in [Devices -> {NoCall} \cup Reading \cup Answer]
      /\ c.from = cpts[d] /\ Keeps(d) /\ c.from <= c.latest
      /\ c.from \in Nat /\ c.latest \in Nat
  BY <1>0, CallTypes DEF ChanInv, DeviceTypes, CallInv, Steady, Asking, NoCall, Reading
<1>2. /\ call'[d].stage = kind /\ kind \in {"gap", "page"}
      /\ call'[d].pts = result /\ call'[d].page = names
  <2>1. call' = [call EXCEPT ![d] = [stage |-> kind, from |-> c.from, pts |-> result,
                      page |-> names, marks |-> {e.key : e \in page}, again |-> page # ready]]
    BY DEF AnswerPage, Decides
  <2>2. kind \in {"gap", "page"}
    OBVIOUS
  <2> HIDE DEF kind, result, names, page, ready
  <2> QED BY <1>1, <2>1, <2>2
<1>3. /\ page \subseteq c.kept /\ page \in SUBSET EntryOf /\ IsFiniteSet(page)
  <2>1. c.kept \in SUBSET EntryOf /\ IsFiniteSet(c.kept)
    BY <1>1 DEF Reading, Keeps
  <2>2. page \subseteq c.kept
    BY DEF FirstOf, ReadyPrefix
  <2> HIDE DEF page
  <2> QED BY <2>1, <2>2, FS_Subset
<1>4. \A e \in page : /\ c.from < e.pts /\ e.at[1] <= e.pts /\ e.pts \in Nat
                      /\ e.pts <= BasePts(Chan)
  BY <1>0, <1>1, <1>3, PlacesRise DEF EntryOf, Keeps
<1>5. kind = "page" => Contiguous(c.from, c.kept)
  <2> SUFFICES ASSUME kind = "page" PROVE Contiguous(c.from, c.kept)
    OBVIOUS
  <2>1. ~Resets(d) /\ ~stale
    OBVIOUS
  <2> QED BY <1>1, <2>1 DEF Resets, NeedsReset
<1> HIDE DEF page, ready, kind, stale, blind
<1>6. c.from <= result
  <2>1. page # {} => Last1(page) \in page
    BY <1>3, LastOf
  <2> QED BY <1>1, <1>4, <2>1
<1>7. ASSUME NEW e \in page, PtsCount[e.key] > 0, kind = "page" PROVE e.pts <= result
  <2>1. e.pts = e.at[1]
    BY <1>0, <1>3, <1>5, <1>7, InPlace
  <2>2. e.pts <= Last1(page).pts
    BY <1>3, <1>4, <2>1, PageEnds
  <2> QED BY <1>3, <2>2
<1> HIDE DEF result
<1>8. \A u \in names : \E e \in page : u.name = e.key /\ u.pts = e.pts
  BY DEF Named
<1> HIDE DEF names
<1> QED BY <1>1, <1>2, <1>4, <1>6, <1>7, <1>8

(* A device that takes nothing stays as it is while the log grows. *)
LEMMA StaysSteady ==
    ASSUME ChanInv, [ChanNext]_allVars, NEW d \in Devices, Steady(d),
           cpts'[d] = cpts[d], given'[d] = given[d], d \in unserved => d \in unserved',
           call'[d] \in {call[d], NoCall}
    PROVE  Steady(d)'
<1>1. BasePts(Chan) \in Nat /\ BasePts(Chan)' \in Nat /\ BasePts(Chan) <= BasePts(Chan)'
  BY ChanLog, BaseType DEF ChanInv, Grows, LogInv, Shape
<1>2. \A u \in given[d] : u.pts \in Nat
  BY DEF ChanInv, DeviceTypes, Update
<1>3. call[d].stage \in Kinds => \A u \in call[d].page : u.pts \in Nat
  BY CallTypes DEF ChanInv, Answer, Update
<1> QED BY <1>1, <1>2, <1>3 DEF Steady, GivenUpTo, NoCall, Kinds

(* Each step of a device's call keeps it steady. *)
LEMMA CallSteady ==
    ASSUME ChanInv, NEW d \in Devices, Places(d), Steady(d),
           \/ Ask(d) \/ FetchRows(d) \/ Settle(d) \/ AnswerReset(d) \/ AnswerPage(d)
           \/ MarkPage(d)
    PROVE  Steady(d)'
<1>0. /\ call \in [Devices -> {NoCall} \cup Reading \cup Answer]
      /\ UNCHANGED <<cpts, given, unserved>>
  BY DEF ChanInv, DeviceTypes, Ask, FetchRows, Settle, AnswerReset, AnswerPage, MarkPage
<1>1. ChanNext /\ BasePts(Chan) \in Nat /\ BasePts(Chan)' \in Nat
      /\ BasePts(Chan) <= BasePts(Chan)'
  <2>1. ChanNext
    BY DEF ChanNext
  <2> QED BY <2>1, ChanLog, BaseType DEF ChanInv, Grows, LogInv, Shape
<1>2. GivenUpTo(d, BasePts(Chan))' /\ (d \in unserved' \/ GivenUpTo(d, cpts[d])')
  <2>1. \A u \in given[d] : u.pts \in Nat
    BY DEF ChanInv, DeviceTypes, Update
  <2> QED BY <1>0, <1>1, <2>1 DEF Steady, GivenUpTo
<1>3. CASE Ask(d)
  <2>1. call'[d].stage = "rows" /\ call'[d].from = cpts[d] /\ call'[d].latest = BasePts(Chan)
    BY <1>0, <1>3 DEF Ask
  <2>2. cpts[d] <= BasePts(Chan)
    BY DEF ChanInv, Behind
  <2> QED BY <1>0, <1>2, <2>1, <2>2 DEF Steady, GivenUpTo, Kinds
<1>4. CASE FetchRows(d)
  <2>1. call[d].stage = "rows" /\ call[d] \in Reading
    BY <1>4, CallTypes DEF ChanInv, FetchRows
  <2>2. PICK todo, kept, beyond :
          call' = [call EXCEPT ![d] = [call[d] EXCEPT !.stage = "settle", !.todo = todo,
                                             !.kept = kept, !.beyond = beyond]]
    BY <1>4, <2>1 DEF FetchRows
  <2>3. /\ call'[d].stage = "settle"
        /\ call'[d].from = call[d].from /\ call'[d].latest = call[d].latest
    BY <1>0, <2>1, <2>2 DEF Reading
  <2> QED BY <1>0, <1>2, <2>1, <2>3 DEF Steady, GivenUpTo, Kinds
<1>5. CASE Settle(d)
  BY <1>0, <1>2, <1>5, Settles DEF Steady, GivenUpTo, Kinds
<1>6. CASE AnswerReset(d)
  <2>1. call[d].stage = "settle" /\ call[d].from = cpts[d]
    BY <1>6 DEF AnswerReset, Settled, ChanInv, CallInv, Asking, NoCall
  <2>2. call'[d].stage = "reset" /\ call'[d].pts = call[d].latest /\ call'[d].page = {}
    BY <1>0, <1>6 DEF AnswerReset, Decides
  <2> QED BY <1>0, <1>2, <2>1, <2>2 DEF Steady, GivenUpTo, Kinds
<1>7. CASE AnswerPage(d)
  <2>1. BasePts(Chan)' = BasePts(Chan)
    BY <1>7 DEF AnswerPage, BasePts, vars
  <2> QED BY <1>0, <1>2, <1>7, <2>1, PageSteady DEF Steady, GivenUpTo, Kinds
<1>8. CASE MarkPage(d)
  <2>1. call[d].stage \in Kinds /\ call[d] \in Answer
    BY <1>8, CallTypes DEF ChanInv, MarkPage, Answered
  <2>2. PICK marks : call' = [call EXCEPT ![d] = [call[d] EXCEPT !.marks = marks]]
    BY <1>8 DEF MarkPage
  <2>3. /\ call'[d].stage = call[d].stage /\ call'[d].pts = call[d].pts
        /\ call'[d].page = call[d].page
    BY <1>0, <2>1, <2>2 DEF Answer
  <2>4. \A u \in call[d].page : u.pts \in Nat
    BY <2>1 DEF Answer, Update
  <2> QED BY <1>0, <1>1, <1>2, <2>1, <2>3, <2>4 DEF Steady, GivenUpTo, Kinds
<1> QED BY <1>3, <1>4, <1>5, <1>6, <1>7, <1>8

(* A device takes an answer: it moves on to the answer's pts. *)
LEMMA ReplySteady ==
    ASSUME ChanInv, NEW d \in Devices, Steady(d), Reply(d)
    PROVE  Steady(d)' /\ cpts[d] <= cpts'[d]
<1>1. /\ call[d] \in Answer /\ call[d].stage \in Kinds
      /\ cpts \in [Devices -> Nat] /\ given \in [Devices -> SUBSET Update]
      /\ call[d].pts <= BasePts(Chan)
  BY CallTypes DEF ChanInv, DeviceTypes, CallInv, Reply, Answered
<1>2. /\ call'[d] = NoCall /\ BasePts(Chan)' = BasePts(Chan) /\ BasePts(Chan) \in Nat
  BY BaseType DEF ChanInv, LogInv, Shape, DeviceTypes, Reply, BasePts, vars
<1>3. CASE d \notin online
  <2>1. UNCHANGED <<cpts, given, unserved>>
    BY <1>3 DEF Reply
  <2> QED BY <1>1, <1>2, <2>1 DEF Steady, GivenUpTo, NoCall, Kinds
<1>4. CASE d \in online
  <2>1. /\ cpts'[d] = call[d].pts /\ given'[d] = given[d] \cup call[d].page
        /\ d \in unserved' <=> \/ call[d].stage = "gap"
                               \/ call[d].stage = "page" /\ d \in unserved
    BY <1>1, <1>4 DEF Reply, Takes, Kinds
  <2>2. /\ call[d].pts \in Nat /\ cpts[d] \in Nat /\ cpts[d] <= call[d].pts
        /\ \A u \in given[d] \cup call[d].page : u.pts \in Nat
    BY <1>1 DEF Answer, Update, Steady
  <2>3. GivenUpTo(d, BasePts(Chan))'
    BY <1>1, <1>2, <2>1 DEF Steady, GivenUpTo
  <2>4. CASE call[d].stage = "gap"
    BY <1>2, <2>1, <2>2, <2>3, <2>4 DEF Steady, NoCall, Kinds
  <2>5. CASE call[d].stage = "reset"
    <3>1. call[d].page = {}
      BY <2>5 DEF ChanInv, CallInv
    <3>2. GivenUpTo(d, cpts[d])'
      BY <2>1, <2>5, <3>1 DEF Steady, GivenUpTo
    <3> QED BY <1>2, <2>1, <2>2, <2>3, <3>2 DEF Steady, NoCall, Kinds
  <2>6. CASE call[d].stage = "page"
    <3>1. d \notin unserved => GivenUpTo(d, cpts[d])'
      BY <2>1, <2>2, <2>6 DEF Steady, GivenUpTo
    <3> QED BY <1>2, <2>1, <2>2, <2>3, <2>6, <3>1 DEF Steady, NoCall, Kinds
  <2> QED BY <1>1, <2>4, <2>5, <2>6 DEF Kinds
<1> QED BY <1>3, <1>4

(* A pushed update that continues a device's pts moves it on. *)
LEMMA PushSteady ==
    ASSUME ChanInv, NEW w \in Workers, Push(w), NEW d \in Devices, Steady(d)
    PROVE  Steady(d)' /\ cpts[d] <= cpts'[d]
<1>1. ChanNext /\ UNCHANGED <<call, unserved>> /\ cpts[d] \in Nat
  BY PushMoves DEF ChanNext, ChanInv, DeviceTypes
<1>2. CASE cpts'[d] = cpts[d] /\ given'[d] = given[d]
  BY <1>1, <1>2, StaysSteady
<1>3. ASSUME NEW u \in Sending(Chan), ~Asking(d), cpts[d] = Low(u), cpts'[d] = u.pts,
             given'[d] = given[d] \cup {u}
      PROVE  Steady(d)' /\ cpts[d] <= cpts'[d]
  <2>1. /\ BasePts(Chan) \in Nat /\ BasePts(Chan)' \in Nat
        /\ BasePts(Chan) <= BasePts(Chan)'
    BY <1>1, ChanLog, BaseType DEF ChanInv, Grows, LogInv, Shape
  <2>2. u \in Known /\ u.pts \in Nat /\ Low(u) < u.pts /\ u.pts <= BasePts(Chan)
    <3>1. u \in Known
      BY UpdateTypes DEF ChanInv, LogInv, KnownInv, Known
    <3> QED BY <3>1, UpdateTypes DEF ChanInv, LogInv, KnownInv
  <2>3. \A v \in given[d] : v.pts \in Nat
    BY DEF ChanInv, DeviceTypes, Update
  <2>4. GivenUpTo(d, BasePts(Chan))' /\ (d \in unserved' \/ GivenUpTo(d, cpts[d])')
    BY <1>1, <1>3, <2>1, <2>2, <2>3 DEF Steady, GivenUpTo
  <2>5. call'[d] = NoCall
    BY <1>1, <1>3 DEF Asking
  <2> QED BY <1>1, <1>3, <2>2, <2>4, <2>5 DEF Steady, NoCall, Kinds
<1> QED BY <1>1, <1>2, <1>3, PushMoves

(* Every step keeps a device steady and takes it nowhere back. *)
LEMMA SteadyKept ==
    ASSUME ChanInv, [ChanNext]_allVars, NEW d \in Devices, Places(d), Steady(d)
    PROVE  Steady(d)' /\ cpts[d] <= cpts'[d]
<1>0. call \in [Devices -> {NoCall} \cup Reading \cup Answer] /\ cpts \in [Devices -> Nat]
      /\ given \in [Devices -> SUBSET Update]
  BY DEF ChanInv, DeviceTypes
<1>1. ASSUME UNCHANGED <<cpts, given, unserved>>, call'[d] \in {call[d], NoCall}
      PROVE  Steady(d)' /\ cpts[d] <= cpts'[d]
  BY <1>0, <1>1, StaysSteady
<1>2. CASE \/ Logs \/ UNCHANGED allVars \/ Restart
           \/ \E c \in Devices : Connect(c) \/ Disconnect(c) \/ NameChannels(c)
  BY <1>1, <1>2 DEF Logs, allVars, deviceVars, Restart, Connect, Disconnect, NameChannels
<1>3. CASE \/ Ask(d) \/ FetchRows(d) \/ Settle(d) \/ AnswerReset(d) \/ AnswerPage(d)
           \/ MarkPage(d)
  <2>1. cpts' = cpts
    BY <1>3 DEF Ask, FetchRows, Settle, AnswerReset, AnswerPage, MarkPage
  <2> QED BY <1>0, <1>3, <2>1, CallSteady
<1>4. ASSUME NEW c \in Devices \ {d},
             \/ Ask(c) \/ FetchRows(c) \/ Settle(c) \/ AnswerReset(c) \/ AnswerPage(c)
             \/ MarkPage(c)
      PROVE  Steady(d)' /\ cpts[d] <= cpts'[d]
  BY <1>0, <1>1, <1>4 DEF Ask, FetchRows, Settle, AnswerReset, AnswerPage, MarkPage, Decides
<1>5. ASSUME NEW c \in Devices \ {d}, Reply(c)
      PROVE  Steady(d)' /\ cpts[d] <= cpts'[d]
  <2>1. /\ call'[d] = call[d] /\ cpts'[d] = cpts[d] /\ given'[d] = given[d]
        /\ d \in unserved => d \in unserved'
    BY <1>0, <1>5 DEF Reply, Takes
  <2> QED BY <1>0, <2>1, StaysSteady
<1> QED
  BY <1>2, <1>3, <1>4, <1>5, ReplySteady, PushSteady DEF ChanNext

(* At first no device has anything. *)
LEMMA SteadyInit == ChanInit => SteadyInv
<1> SUFFICES ASSUME ChanInit, NEW d \in Devices PROVE Places(d) /\ Steady(d)
  BY DEF SteadyInv
<1>1. call[d] = NoCall /\ given[d] = {}
  BY DEF ChanInit
<1> QED BY <1>1 DEF Places, Steady, GivenUpTo, NoCall, Kinds

(* SteadyInv holds in every behaviour. *)
LEMMA DevicesSteady == ChanSpec => []ChanInv /\ []SteadyInv
<1>1. ChanInv /\ SteadyInv /\ [ChanNext]_allVars => SteadyInv'
  BY PlacesKept, SteadyKept DEF SteadyInv
<1> QED BY <1>1, ChanInvInit, ChanInvNext, SteadyInit, PTL DEF ChanSpec

(* No device is taken back by a push or by an answer (update-manager.ts:1204). *)
THEOREM ChannelNeverBack == ChanSpec => NeverBack
<1>1. ChanInv /\ SteadyInv /\ [ChanNext]_allVars =>
         [\A d \in Devices : cpts[d] <= cpts'[d]]_allVars
  BY SteadyKept DEF SteadyInv
<1> QED BY <1>1, DevicesSteady, PTL DEF ChanSpec, NeverBack

(* No device is given an update twice, unless it was told to go on across a gap
   (update-manager.ts:1190). *)
THEOREM NoneTwice == ChanSpec => []GivenOnce
<1>1. ASSUME ChanInv, SteadyInv PROVE GivenOnce
  <2> SUFFICES ASSUME NEW d \in Devices \ unserved
               PROVE  /\ Answered(d) => \A u \in call[d].page : NewTo(d, u)
                      /\ ~Asking(d) => \A w \in Workers :
                            work[w].stage = "send" /\ Scope[work[w].key] = Chan
                              /\ Fits(d, work[w].key, work[w].held)
                              => NewTo(d, Named(work[w].key, work[w].held.pts))
    BY DEF GivenOnce
  <2>1. GivenUpTo(d, cpts[d]) /\ Steady(d) /\ cpts[d] \in Nat
    BY <1>1 DEF SteadyInv, Steady, ChanInv, DeviceTypes
  <2>2. ASSUME Answered(d), NEW u \in call[d].page PROVE NewTo(d, u)
    <3>1. call[d] \in Answer /\ call[d].stage \in Kinds
      BY <1>1, <2>2, CallTypes DEF ChanInv, Answered
    <3>2. u.pts \in Nat
      BY <2>2, <3>1 DEF Answer, Update
    <3> QED BY <2>1, <2>2, <3>1, <3>2 DEF NewTo, GivenUpTo, Steady
  <2>3. ASSUME NEW w \in Workers, Fits(d, work[w].key, work[w].held)
        PROVE  NewTo(d, Named(work[w].key, work[w].held.pts))
    <3> DEFINE u == Named(work[w].key, work[w].held.pts)
    <3>1. u.name = work[w].key /\ u.pts = cpts[d] + PtsCount[u.name]
      BY <2>3 DEF Named, Fits
    <3>2. ASSUME PtsCount[u.name] > 0, u \in given[d] PROVE FALSE
      <4>1. u.name \in Keys
        BY <1>1, <3>2 DEF ChanInv, DeviceTypes, Update
      <4>2. PtsCount[u.name] \in Nat
        BY <4>1, ConstantTypes
      <4> HIDE DEF u
      <4> QED BY <2>1, <3>1, <3>2, <4>2 DEF GivenUpTo
    <3> QED BY <3>2 DEF NewTo
  <2> QED BY <2>2, <2>3
<1> QED BY <1>1, DevicesSteady, PTL

----------------------------------------------------------------------------
\* The device's date.

\* The device has passed the update, or the call in progress takes it past the update.
Caught(d, u) ==
    /\ ~Asking(d) => u.pts <= cpts[d]
    /\ call[d].stage \in {"rows", "settle"} => u.pts <= call[d].latest
    /\ call[d].stage = "settle" =>
          \/ u.pts <= call[d].from
          \/ \E e \in call[d].kept \cup call[d].beyond :
                Named(e.key, e.pts) = u /\ e.at[1] = e.pts
    /\ call[d].stage \in Kinds => u.pts <= call[d].pts \/ call[d].again

Told(d, u) == d \in must \/ Caught(d, u)

\* The device knows of everything dated before its own date, or was told that it was
\* complete while that was not finished or not reached.
OldTold(d) ==
    /\ \A k \in CountedIn(Chan) : row[k] # NoRow /\ row[k].date < date[d] =>
          \/ Named(k, row[k].pts) \in unnamed[d]
          \/ row[k].payload # 0 /\ Told(d, Named(k, row[k].pts))
    /\ \A w \in Workers : /\ work[w].stage = "create" /\ work[w].key \in CountedIn(Chan)
                          /\ work[w].held.date < date[d]
                          => Named(work[w].key, work[w].held.pts) \in unnamed[d]

Dates(d) == /\ date[d] <= account.date
            /\ state[d] # NoCall => state[d].date <= account.date

DateInv(d) == Dates(d) /\ OldTold(d) /\ Places(d)

(* What a step does to rows, reservations and the account's date. *)
LEMMA DateStep ==
    ASSUME ChanInv, [ChanNext]_allVars, DatesForward
    PROVE  /\ Originates /\ KnownInv'
           /\ account.date \in Nat /\ account'.date \in Nat
           /\ account.date <= account'.date
           /\ \A k \in Keys : row'[k] # NoRow => row'[k] \in Row
           /\ \A w \in Workers : /\ work[w].stage = "create" => work[w].held \in Row
                                 /\ work'[w].stage = "create" => work'[w].held \in Row
<1>1. [Next]_vars /\ LogInv /\ LogInv' /\ KnownInv'
  BY ChanLog DEF ChanInv
<1>2. Originates
  BY <1>1, RowOrigins
<1>3. account.date \in Nat /\ account'.date \in Nat
  BY <1>1 DEF LogInv, Shape, TypeOK
<1> QED BY <1>1, <1>2, <1>3 DEF DatesForward, LogInv, Shape, TypeOK, HeldRow

(* What is finished and told stays so, while the device's date stays. *)
LEMMA OldToldStays ==
    ASSUME ChanInv, [ChanNext]_allVars, DatesForward, NEW d \in Devices, DateInv(d),
           date'[d] = date[d], unnamed[d] \subseteq unnamed'[d],
           \A u \in InLog : Told(d, u) => Told(d, u)' \/ u \in unnamed'[d]
    PROVE  OldTold(d)'
<1>1. /\ Originates /\ KnownInv' /\ stored \subseteq stored' /\ date[d] \in Nat
      /\ account.date \in Nat /\ date[d] <= account.date
      /\ \A k \in Keys : row'[k] # NoRow => row'[k] \in Row
      /\ \A w \in Workers : /\ work[w].stage = "create" => work[w].held \in Row
                            /\ work'[w].stage = "create" => work'[w].held \in Row
  BY DateStep, ChanLog DEF DateInv, Dates, ChanInv, DeviceTypes
<1>2. CountedIn(Chan)' = CountedIn(Chan) /\ CountedIn(Chan) \subseteq Keys
  BY DEF CountedIn
<1>3. ASSUME NEW w \in Workers, work'[w].stage = "create", work'[w].key \in CountedIn(Chan),
             work'[w].held.date < date[d]
      PROVE  Named(work'[w].key, work'[w].held.pts) \in unnamed'[d]
  <2>1. work'[w].held.date \in Nat
    BY <1>1, <1>3 DEF Row
  <2>2. ~(account.date <= work'[w].held.date)
    BY <1>1, <1>3, <2>1
  <2>3. work'[w] = work[w]
    BY <1>1, <1>3, <2>2 DEF Originates
  <2> QED BY <1>3, <2>3 DEF DateInv, OldTold
<1>4. ASSUME NEW k \in CountedIn(Chan), row'[k] # NoRow, row'[k].date < date[d]
      PROVE  \/ Named(k, row'[k].pts) \in unnamed'[d]
             \/ row'[k].payload # 0 /\ Told(d, Named(k, row[k].pts))'
  <2>0. PICK u : u = Named(k, row'[k].pts)
    OBVIOUS
  <2>1. CASE row[k] # NoRow /\ SameRow(row'[k], row[k]) /\ row'[k].date = row[k].date
    <3>1. u = Named(k, row[k].pts)
      BY <2>0, <2>1 DEF SameRow
    <3>2. CASE u \in unnamed[d]
      BY <2>0, <3>2
    <3>3. CASE row[k].payload # 0 /\ Told(d, u)
      <4>1. u \in InLog
        BY <1>2, <2>1, <3>1, <3>3 DEF InLog, FinishedIn, CountedIn
      <4>2. u \in stored'
        BY <1>1, <4>1 DEF InLog, ChanInv, KnownInv
      <4>3. row'[k].payload # 0
        <5> SUFFICES ASSUME row'[k].payload = 0 PROVE FALSE
          OBVIOUS
        <5>1. u \in Open(Chan)'
          BY <1>2, <1>4, <2>0 DEF Open, Pending
        <5> QED BY <1>1, <4>2, <5>1 DEF KnownInv
      <4>4. Told(d, u)' \/ u \in unnamed'[d]
        BY <3>3, <4>1
      <4>5. Told(d, u)' => Told(d, Named(k, row[k].pts))'
        BY <2>0 DEF Told, Caught
      <4> QED BY <2>0, <4>3, <4>4, <4>5
    <3> QED BY <1>4, <2>1, <3>1, <3>2, <3>3 DEF DateInv, OldTold
  <2>2. ASSUME NEW w \in Workers, work[w].stage = "create", work[w].key = k,
               row'[k] = work[w].held
        PROVE  u \in unnamed'[d]
    BY <1>4, <2>0, <2>2 DEF DateInv, OldTold
  <2> QED BY <1>1, <1>2, <1>4, <2>0, <2>1, <2>2 DEF Originates
<1> QED BY <1>2, <1>3, <1>4 DEF OldTold

(* A device that keeps its date and its call knows what it knew. *)
LEMMA StaysDated ==
    ASSUME ChanInv, [ChanNext]_allVars, DatesForward, NEW d \in Devices, DateInv(d),
           date'[d] = date[d], unnamed'[d] = unnamed[d], call'[d] = call[d],
           d \in must => d \in must', cpts[d] <= cpts'[d],
           cpts[d] \in Nat, cpts'[d] \in Nat,
           state'[d] # NoCall => state'[d] = state[d] \/ state'[d].date = account.date
    PROVE  DateInv(d)'
<1>1. /\ account.date \in Nat /\ account'.date \in Nat /\ account.date <= account'.date
      /\ date[d] \in Nat /\ (state[d] # NoCall => state[d].date \in Nat)
  BY DateStep DEF ChanInv, DeviceTypes
<1>2. Dates(d)'
  BY <1>1 DEF DateInv, Dates
<1>3. \A u \in InLog : Told(d, u) => Told(d, u)'
  <2>1. \A u \in InLog : u.pts \in Nat
    BY DEF ChanInv, KnownInv, InLog
  <2> QED BY <2>1 DEF Told, Caught, Asking
<1>4. OldTold(d)'
  BY <1>3, OldToldStays
<1> QED BY <1>2, <1>4, PlacesKept DEF DateInv

(* A step of the device's call that keeps the device's date. *)
LEMMA CallDated ==
    ASSUME ChanInv, [ChanNext]_allVars, DatesForward, NEW d \in Devices, DateInv(d),
           UNCHANGED <<date, state>>, unnamed[d] \subseteq unnamed'[d],
           \A u \in InLog : Told(d, u) => Told(d, u)' \/ u \in unnamed'[d]
    PROVE  DateInv(d)'
<1>1. /\ account.date \in Nat /\ account'.date \in Nat /\ account.date <= account'.date
      /\ date[d] \in Nat /\ (state[d] # NoCall => state[d].date \in Nat)
  BY DateStep DEF ChanInv, DeviceTypes
<1>2. Dates(d)'
  BY <1>1 DEF DateInv, Dates
<1> QED BY <1>2, OldToldStays, PlacesKept DEF DateInv

(* The device asks: every row lies behind the state the handler reads. *)
LEMMA AskDated ==
    ASSUME ChanInv, [ChanNext]_allVars, DatesForward, NEW d \in Devices, DateInv(d), Ask(d)
    PROVE  DateInv(d)'
<1>1. /\ call'[d].stage = "rows" /\ call'[d].latest = BasePts(Chan)
      /\ UNCHANGED <<date, state, unnamed>>
  BY DEF Ask, ChanInv, DeviceTypes
<1>2. \A u \in InLog : u.pts <= BasePts(Chan)
  BY DEF ChanInv, KnownInv, Known, InLog
<1>3. \A u \in InLog : Told(d, u)'
  BY <1>1, <1>2 DEF Told, Caught, Asking, NoCall, Kinds
<1> QED BY <1>1, <1>3, CallDated

(* The handler reads the rows: those behind the device's pts are kept or beyond. *)
LEMMA FetchDated ==
    ASSUME ChanInv, [ChanNext]_allVars, DatesForward, NEW d \in Devices, DateInv(d), FetchRows(d)
    PROVE  DateInv(d)'
<1> DEFINE rows == RowsAfter(Chan, call[d].from)
           found == FirstOf(rows, FetchLimit)
           todo == {e \in found : ~e.ready}
           kept == {e \in found : e.ready}
           beyond == rows \ found
<1>0. call[d].stage = "rows" /\ UNCHANGED <<vars, date, state, must, unnamed, cpts>>
  BY DEF FetchRows
<1>1. call[d] \in Reading /\ call \in [Devices -> {NoCall} \cup Reading \cup Answer]
  BY <1>0, CallTypes DEF ChanInv, DeviceTypes
<1>2. /\ call'[d].stage = "settle" /\ call'[d].todo = todo /\ call'[d].kept = kept
      /\ call'[d].beyond = beyond
      /\ call'[d].from = call[d].from /\ call'[d].latest = call[d].latest
  <2>1. call' = [call EXCEPT ![d] = [call[d] EXCEPT !.stage = "settle", !.todo = todo,
                                           !.kept = kept, !.beyond = beyond]]
    BY <1>1 DEF FetchRows
  <2> HIDE DEF todo, kept, beyond
  <2> QED BY <1>1, <2>1 DEF Reading
<1>3. call[d].from \in Nat
  BY <1>1 DEF Reading
<1>4. ASSUME NEW u \in InLog, Told(d, u) PROVE Told(d, u)'
  <2>1. CASE d \in must
    BY <1>0, <2>1 DEF Told
  <2>2. CASE Caught(d, u)
    <3>1. PICK k \in Keys : /\ row[k] # NoRow /\ Scope[k] = Chan /\ row[k].payload # 0
                            /\ u = Named(k, row[k].pts)
      BY DEF InLog, FinishedIn
    <3>2. u.pts = row[k].pts /\ u.pts \in Nat
      BY <3>1 DEF Named, ChanInv, LogInv, Shape, TypeOK, Row
    <3>3. u.pts <= call[d].latest
      BY <1>0, <2>2 DEF Caught
    <3>4. CASE u.pts <= call[d].from
      BY <1>2, <3>3, <3>4 DEF Told, Caught, Asking, NoCall, Kinds
    <3>5. CASE ~(u.pts <= call[d].from)
      <4> DEFINE e == Entry(k, <<row[k].pts, row[k].seq>>)
      <4>1. e \in rows
        BY <1>3, <3>1, <3>2, <3>5 DEF RowsAfter
      <4>2. e.ready /\ Named(e.key, e.pts) = u /\ e.at[1] = e.pts
        BY <3>1 DEF Entry
      <4>3. e \in kept \cup beyond
        BY <4>1, <4>2
      <4> HIDE DEF e, kept, beyond, rows
      <4> QED BY <1>2, <3>3, <4>2, <4>3 DEF Told, Caught, Asking, NoCall, Kinds
    <3> QED BY <3>4, <3>5
  <2> QED BY <1>4, <2>1, <2>2 DEF Told
<1> QED BY <1>0, <1>4, CallDated

(* The handler looks at the next row without a payload. *)
LEMMA SettleDated ==
    ASSUME ChanInv, [ChanNext]_allVars, DatesForward, NEW d \in Devices, DateInv(d), Settle(d)
    PROVE  DateInv(d)'
<1>1. UNCHANGED <<date, state, must, unnamed, cpts>>
  BY DEF Settle
<1>2. \A u \in InLog : Told(d, u) => Told(d, u)'
  BY <1>1, Settles DEF Told, Caught, Asking, NoCall, Kinds
<1> QED BY <1>1, <1>2, CallDated

(* A rebuild takes the device to the state's pts. *)
LEMMA ResetDated ==
    ASSUME ChanInv, [ChanNext]_allVars, DatesForward, NEW d \in Devices, DateInv(d),
           AnswerReset(d)
    PROVE  DateInv(d)'
<1>1. /\ call[d].stage = "settle"
      /\ UNCHANGED <<date, state, must, unnamed, cpts>>
      /\ call' = [call EXCEPT ![d] = [stage |-> "reset", from |-> call[d].from,
                     pts |-> call[d].latest, page |-> {Named(e.key, e.pts) : e \in {}},
                     marks |-> {e.key : e \in {}}, again |-> FALSE]]
  BY DEF AnswerReset, Settled, Decides
<1>2. call'[d].stage = "reset" /\ call'[d].pts = call[d].latest
  BY <1>1 DEF ChanInv, DeviceTypes
<1>3. \A u \in InLog : Told(d, u) => Told(d, u)'
  BY <1>1, <1>2 DEF Told, Caught, Asking, NoCall, Kinds
<1> QED BY <1>1, <1>3, CallDated

(* A page that completes the answer takes the device past the rows on it; the others
   are counted as unnamed. *)
LEMMA PageDated ==
    ASSUME ChanInv, [ChanNext]_allVars, DatesForward, NEW d \in Devices, DateInv(d),
           AnswerPage(d)
    PROVE  DateInv(d)'
<1> DEFINE c == call[d]
           ready == ReadyPrefix(c.kept)
           page == FirstOf(ready, MaxPage)
           result == IF c.kept = {} THEN c.latest
                     ELSE IF page = {} THEN c.from ELSE Last1(page).pts
           rest == {Named(e.key, e.pts) : e \in (c.kept \cup c.beyond) \ page}
<1>0. c.stage = "settle" /\ UNCHANGED <<date, state, must, cpts>>
  BY DEF AnswerPage, Settled
<1>1. /\ c \in Reading /\ call \in [Devices -> {NoCall} \cup Reading \cup Answer]
      /\ Keeps(d) /\ unnamed \in [Devices -> SUBSET Update]
  BY <1>0, CallTypes DEF ChanInv, DeviceTypes, CallInv
<1>2. /\ call'[d].stage \in {"gap", "page"} /\ call'[d].pts = result
      /\ call'[d].again = (page # ready)
  <2>1. PICK kind \in {"gap", "page"} :
          call' = [call EXCEPT ![d] = [stage |-> kind, from |-> c.from, pts |-> result,
                      page |-> {Named(e.key, e.pts) : e \in page},
                      marks |-> {e.key : e \in page}, again |-> page # ready]]
    BY DEF AnswerPage, Decides
  <2> HIDE DEF page, ready, result
  <2> QED BY <1>1, <2>1
<1>3. /\ unnamed[d] \subseteq unnamed'[d]
      /\ page = ready => rest \subseteq unnamed'[d]
  <2>1. unnamed' = IF page # ready THEN unnamed
                   ELSE [unnamed EXCEPT ![d] = unnamed[d] \cup Unfinished \cup rest]
    BY DEF AnswerPage
  <2> HIDE DEF page, ready, rest
  <2> QED BY <1>1, <2>1
<1>4. /\ c.kept \in SUBSET EntryOf /\ IsFiniteSet(c.kept) /\ c.from \in Nat
      /\ page \subseteq c.kept /\ page \in SUBSET EntryOf /\ IsFiniteSet(page)
  <2>1. c.kept \in SUBSET EntryOf /\ IsFiniteSet(c.kept) /\ c.from \in Nat
    BY <1>1 DEF Reading, Keeps
  <2>2. page \subseteq c.kept
    BY DEF FirstOf, ReadyPrefix
  <2> HIDE DEF page
  <2> QED BY <2>1, <2>2, FS_Subset
<1>5. \A e \in page : c.from < e.at[1] /\ e.at[1] <= e.pts
  BY <1>0, <1>4, PlacesRise DEF DateInv
<1> HIDE DEF page, ready, rest
<1>6. ASSUME NEW u \in InLog, Caught(d, u), page = ready
      PROVE  u.pts <= result \/ u \in rest
  <2>1. u.pts <= c.latest
    BY <1>0, <1>6 DEF Caught
  <2>2. CASE c.kept = {}
    BY <2>1, <2>2
  <2>3. CASE c.kept # {} /\ u.pts <= c.from
    <3>1. CASE page = {}
      BY <2>3, <3>1
    <3>2. CASE page # {}
      <4>1. Last1(page) \in page
        BY <1>4, <3>2, LastOf
      <4>2. c.from <= Last1(page).pts /\ Last1(page).pts \in Nat
        <5>1. Last1(page).pts \in Nat /\ Last1(page).at[1] \in Nat
          BY <1>4, <4>1 DEF EntryOf
        <5> QED BY <1>4, <1>5, <4>1, <5>1
      <4>3. u.pts \in Nat
        BY DEF ChanInv, KnownInv, InLog
      <4> QED BY <1>4, <2>3, <3>2, <4>2, <4>3
    <3> QED BY <3>1, <3>2
  <2>4. ASSUME NEW e \in c.kept \cup c.beyond, Named(e.key, e.pts) = u, e.at[1] = e.pts,
               c.kept # {}
        PROVE  u.pts <= result \/ u \in rest
    <3>1. CASE e \notin page
      BY <2>4, <3>1 DEF rest
    <3>2. CASE e \in page
      <4>1. e.pts <= Last1(page).pts
        BY <1>4, <1>5, <2>4, <3>2, PageEnds
      <4>2. u.pts = e.pts
        BY <2>4 DEF Named
      <4> QED BY <2>4, <3>2, <4>1, <4>2
    <3> QED BY <3>1, <3>2
  <2> QED BY <1>0, <1>6, <2>2, <2>3, <2>4 DEF Caught
<1> HIDE DEF result
<1>7. ASSUME NEW u \in InLog, Told(d, u) PROVE Told(d, u)' \/ u \in unnamed'[d]
  <2>1. CASE d \in must
    BY <1>0, <2>1 DEF Told
  <2>2. CASE Caught(d, u) /\ page = ready
    BY <1>2, <1>3, <1>6, <2>2 DEF Told, Caught, Asking, NoCall, Kinds
  <2>3. CASE page # ready
    <3>1. call'[d].again
      BY <1>2, <2>3, Zenon
    <3> QED BY <1>2, <3>1 DEF Told, Caught, Asking, NoCall, Kinds
  <2> QED BY <1>7, <2>1, <2>2, <2>3 DEF Told
<1> QED BY <1>0, <1>3, <1>7, CallDated

(* A row of the page is marked. *)
LEMMA MarkDated ==
    ASSUME ChanInv, [ChanNext]_allVars, DatesForward, NEW d \in Devices, DateInv(d), MarkPage(d)
    PROVE  DateInv(d)'
<1>1. /\ call[d].stage \in Kinds /\ Asking(d)
      /\ UNCHANGED <<date, state, must, unnamed, cpts>>
      /\ \E marks : call' = [call EXCEPT ![d] = [call[d] EXCEPT !.marks = marks]]
  <2>1. PICK k : call' = [call EXCEPT ![d] = [call[d] EXCEPT !.marks = call[d].marks \ {k}]]
    BY DEF MarkPage
  <2> QED BY <2>1 DEF MarkPage, Answered
<1>2. call[d] \in Answer /\ call \in [Devices -> {NoCall} \cup Reading \cup Answer]
  BY <1>1, CallTypes DEF ChanInv, DeviceTypes
<1>3. /\ call'[d].stage = call[d].stage /\ call'[d].pts = call[d].pts
      /\ call'[d].again = call[d].again
  BY <1>1, <1>2 DEF Answer
<1>4. \A u \in InLog : Told(d, u) => Told(d, u)'
  BY <1>1, <1>3 DEF Told, Caught, Asking, NoCall, Kinds
<1> QED BY <1>1, <1>4, CallDated

(* The device takes the answer, or has gone and asks again. *)
LEMMA ReplyDated ==
    ASSUME ChanInv, [ChanNext]_allVars, DatesForward, NEW d \in Devices, DateInv(d), Reply(d)
    PROVE  DateInv(d)'
<1>1. /\ call[d].stage \in Kinds /\ Asking(d)
      /\ UNCHANGED <<date, state, unnamed>> /\ call' = [call EXCEPT ![d] = NoCall]
  BY DEF Reply, Answered
<1>2. call'[d] = NoCall /\ cpts \in [Devices -> Nat]
  BY <1>1 DEF ChanInv, DeviceTypes
<1>3. CASE d \in online
  <2>1. cpts'[d] = call[d].pts /\ (call[d].again => d \in must') /\ must \subseteq must'
    BY <1>2, <1>3 DEF Reply, Takes
  <2>2. \A u \in InLog : Told(d, u) => Told(d, u)'
    BY <1>1, <1>2, <2>1 DEF Told, Caught, Asking, NoCall, Kinds
  <2> QED BY <1>1, <2>2, CallDated
<1>4. CASE d \notin online
  <2>1. \A u \in InLog : Told(d, u)'
    BY <1>4 DEF Reply, Told
  <2> QED BY <1>1, <2>1, CallDated
<1> QED BY <1>3, <1>4

(* The device's date moves to the date of the state read before: what is finished and
   dated between the two makes it ask, what is unfinished is counted as unnamed. *)
LEMMA NameDated ==
    ASSUME ChanInv, [ChanNext]_allVars, DatesForward, NEW d \in Devices, DateInv(d),
           NameChannels(d)
    PROVE  DateInv(d)'
<1>1. /\ UNCHANGED <<vars, call, cpts>> /\ state[d] # NoCall
      /\ ChangedSince(date[d]) => d \in must'
      /\ must \subseteq must'
      /\ date'[d] = state[d].date /\ unnamed'[d] = unnamed[d] \cup Unfinished
      /\ state'[d] = NoCall
  BY DEF NameChannels, ChanInv, DeviceTypes
<1>2. UNCHANGED <<row, work, account, channel>> /\ CountedIn(Chan) \subseteq Keys
  BY <1>1 DEF vars, CountedIn
<1>3. Dates(d)'
  BY <1>1, <1>2 DEF DateInv, Dates
<1>4. ASSUME NEW k \in CountedIn(Chan), row[k] # NoRow
      PROVE  \/ Named(k, row[k].pts) \in unnamed'[d]
             \/ row[k].payload # 0 /\ (d \in must' \/ Caught(d, Named(k, row[k].pts)))
  <2>1. k \in Keys /\ Scope[k] = Chan /\ PtsCount[k] > 0
    BY DEF CountedIn
  <2>2. CASE row[k].payload = 0
    <3>1. Named(k, row[k].pts) \in Unfinished
      BY <1>4, <2>1, <2>2 DEF Unfinished, Pending
    <3> QED BY <1>1, <3>1
  <2>3. CASE row[k].payload # 0 /\ row[k].date < date[d]
    BY <1>1, <1>4, <2>3 DEF DateInv, OldTold, Told
  <2>4. CASE row[k].payload # 0 /\ ~(row[k].date < date[d])
    <3>1. row[k].date >= date[d]
      BY <1>4, <2>1, <2>4 DEF ChanInv, LogInv, Shape, TypeOK, Row, DeviceTypes
    <3>2. ChangedSince(date[d])
      BY <1>4, <2>1, <2>4, <3>1 DEF ChangedSince
    <3> QED BY <1>1, <2>4, <3>2
  <2> QED BY <2>2, <2>3, <2>4
<1>5. ASSUME NEW w \in Workers, work[w].stage = "create", work[w].key \in CountedIn(Chan)
      PROVE  Named(work[w].key, work[w].held.pts) \in unnamed'[d]
  <2>1. Named(work[w].key, work[w].held.pts) \in Unfinished
    BY <1>5 DEF Unfinished, CountedIn
  <2> QED BY <1>1, <2>1
<1>6. OldTold(d)'
  <2>1. \A u : Caught(d, u) => Caught(d, u)'
    BY <1>1 DEF Caught, Asking
  <2>2. CountedIn(Chan)' = CountedIn(Chan)
    BY DEF CountedIn
  <2>3. \A k \in Keys : Caught(d, Named(k, row[k].pts)) => Caught(d, Named(k, row[k].pts))'
    BY <1>1, <1>2 DEF Caught, Asking
  <2> QED BY <1>2, <1>4, <1>5, <2>2, <2>3 DEF OldTold, Told
<1> QED BY <1>3, <1>6, PlacesKept DEF DateInv

(* The process dies: a device that was asking must ask again. *)
LEMMA RestartDated ==
    ASSUME ChanInv, [ChanNext]_allVars, DatesForward, NEW d \in Devices, DateInv(d), Restart
    PROVE  DateInv(d)'
<1>1. /\ UNCHANGED <<date, unnamed, cpts>>
      /\ must' = must \cup {c \in Devices : Asking(c)}
      /\ call'[d] = NoCall /\ state'[d] = NoCall
  BY DEF Restart
<1>2. /\ account.date \in Nat /\ account'.date \in Nat /\ account.date <= account'.date
      /\ date[d] \in Nat
  BY DateStep DEF ChanInv, DeviceTypes
<1>3. Dates(d)'
  BY <1>1, <1>2 DEF DateInv, Dates
<1>4. \A u \in InLog : Told(d, u) => Told(d, u)'
  BY <1>1 DEF Told, Caught, Asking, NoCall, Kinds
<1>5. OldTold(d)'
  BY <1>1, <1>4, OldToldStays
<1> QED BY <1>3, <1>5, PlacesKept DEF DateInv

(* Every step keeps what the devices know, as long as no step dates the account back. *)
LEMMA DateInvNext ==
    ASSUME ChanInv, [ChanNext]_allVars, DatesForward, NEW d \in Devices, DateInv(d)
    PROVE  DateInv(d)'
<1>0. /\ cpts \in [Devices -> Nat] /\ account.date \in Nat
      /\ state \in [Devices -> {NoCall} \cup [stage : {"scopes"}, date : Nat]]
  BY DEF ChanInv, DeviceTypes, LogInv, Shape, TypeOK
<1>1. ASSUME UNCHANGED <<date, unnamed, call, must, cpts, state>> PROVE DateInv(d)'
  BY <1>0, <1>1, StaysDated
<1>2. ASSUME NEW c \in Devices, Connect(c) \/ Disconnect(c) PROVE DateInv(d)'
  <2>1. UNCHANGED <<date, unnamed, call, must, cpts>>
    BY <1>2 DEF Connect, Disconnect
  <2>2. state'[d] # NoCall => state'[d] = state[d] \/ state'[d].date = account.date
    BY <1>0, <1>2 DEF Connect, Disconnect
  <2> QED BY <1>0, <2>1, <2>2, StaysDated
<1>3. ASSUME NEW w \in Workers, Push(w) PROVE DateInv(d)'
  <2>1. UNCHANGED <<date, unnamed, call>> /\ must \subseteq must'
    BY <1>3 DEF Push
  <2>2. state'[d] # NoCall => state'[d] = state[d]
    BY <1>3 DEF Push
  <2>3. cpts'[d] \in Nat /\ cpts[d] <= cpts'[d]
    <3>1. cpts'[d] \in Nat
      BY <1>3, PushMoves DEF DeviceTypes
    <3>2. \A u \in Sending(Chan) : Low(u) < u.pts /\ u.pts \in Nat
      BY UpdateTypes DEF ChanInv, LogInv, KnownInv, Known
    <3> QED BY <1>0, <1>3, <3>1, <3>2, PushMoves
  <2> QED BY <1>0, <2>1, <2>2, <2>3, StaysDated
<1>4. ASSUME NEW c \in Devices \ {d},
             \/ NameChannels(c) \/ Ask(c) \/ FetchRows(c) \/ Settle(c) \/ AnswerReset(c)
             \/ AnswerPage(c) \/ MarkPage(c) \/ Reply(c)
      PROVE  DateInv(d)'
  <2>1. /\ date'[d] = date[d] /\ unnamed'[d] = unnamed[d] /\ call'[d] = call[d]
        /\ d \in must => d \in must'
        /\ cpts'[d] = cpts[d] /\ state'[d] = state[d]
    BY <1>4 DEF NameChannels, Ask, FetchRows, Settle, AnswerReset, AnswerPage, MarkPage,
                Reply, Takes, Decides, ChanInv, DeviceTypes
  <2> QED BY <1>0, <2>1, StaysDated
<1>5. CASE Logs
  BY <1>1, <1>5 DEF Logs, deviceVars
<1>6. CASE UNCHANGED allVars
  BY <1>1, <1>6 DEF allVars, deviceVars
<1>7. CASE Restart
  BY <1>7, RestartDated
<1>8. ASSUME \/ NameChannels(d) \/ Ask(d) \/ FetchRows(d) \/ Settle(d) \/ AnswerReset(d)
             \/ AnswerPage(d) \/ MarkPage(d) \/ Reply(d)
      PROVE  DateInv(d)'
  BY <1>8, NameDated, AskDated, FetchDated, SettleDated, ResetDated, PageDated, MarkDated,
     ReplyDated
<1> QED BY <1>2, <1>3, <1>4, <1>5, <1>6, <1>7, <1>8 DEF ChanNext

(* At first no row is older than a device's date. *)
LEMMA DateInvInit == ASSUME ChanInit, NEW d \in Devices PROVE DateInv(d)
<1>1. /\ date[d] = 0 /\ state[d] = NoCall /\ call[d] = NoCall /\ account.date = 0
      /\ \A k \in Keys : row[k] = NoRow
      /\ \A w \in Workers : work[w].stage = "idle"
  BY IdleRecord DEF ChanInit, Init
<1> QED BY <1>1 DEF DateInv, Dates, OldTold, Places, NoCall, CountedIn

(* What the invariant says when updates.getDifference moves the device's date. *)
LEMMA NamesAll ==
    ASSUME ChanInv, NEW d \in Devices, DateInv(d), NameChannels(d), NEW u \in InLog
    PROVE  u.pts <= cpts[d] \/ d \in must' \/ Asking(d) \/ u \in unnamed[d]
<1>1. PICK k \in Keys : /\ row[k] # NoRow /\ Scope[k] = Chan /\ row[k].payload # 0
                        /\ PtsCount[k] > 0 /\ u = Named(k, row[k].pts)
  BY DEF InLog, FinishedIn
<1>2. /\ k \in CountedIn(Chan) /\ row[k].date \in Nat /\ date[d] \in Nat
      /\ must \subseteq must'
  BY <1>1 DEF CountedIn, ChanInv, LogInv, Shape, TypeOK, Row, DeviceTypes, NameChannels
<1>3. CASE row[k].date < date[d]
  BY <1>1, <1>2, <1>3 DEF DateInv, OldTold, Told, Caught
<1>4. CASE ~(row[k].date < date[d])
  <2>1. row[k].date >= date[d]
    BY <1>2, <1>4
  <2>2. ChangedSince(date[d])
    BY <1>1, <2>1 DEF ChangedSince
  <2> QED BY <2>2 DEF NameChannels
<1> QED BY <1>3, <1>4

(* For any number of devices, calls and updates and whatever the limits are: when
   updates.getDifference moves a device's date, no finished update of the channel is
   left that the device neither has passed, nor must ask for, nor was told to be complete
   without, provided that no RPC takes the account's date back (message-store.ts:1900). *)
THEOREM NoneIsLeft == ChanSpec /\ [][DatesForward]_allVars => DateLeavesNone
<1> DEFINE DatedInv == \A d \in Devices : DateInv(d)
<1>1. ChanInit => DatedInv
  BY DateInvInit
<1>2. ChanInv /\ DatedInv /\ [ChanNext]_allVars /\ [DatesForward]_allVars => DatedInv'
  <2> SUFFICES ASSUME ChanInv, DatedInv, [ChanNext]_allVars, [DatesForward]_allVars
               PROVE  DatedInv'
    OBVIOUS
  <2>1. DatesForward
    <3>1. UNCHANGED allVars => account'.date = account.date /\ account.date \in Nat
      BY DEF allVars, vars, ChanInv, LogInv, Shape, TypeOK
    <3>2. UNCHANGED allVars => DatesForward
      BY <3>1 DEF DatesForward
    <3> QED BY <3>2
  <2> QED BY <2>1, DateInvNext
<1>3. ChanInv /\ DatedInv =>
        [\A d \in Devices : NameChannels(d) =>
            \A u \in InLog : \/ u.pts <= cpts[d] \/ d \in must' \/ Asking(d)
                             \/ u \in unnamed[d]]_allVars
  BY NamesAll
<1> HIDE DEF DatedInv
<1> QED BY ChanInvInit, ChanInvNext, <1>1, <1>2, <1>3, PTL DEF ChanSpec, DateLeavesNone
=============================================================================
