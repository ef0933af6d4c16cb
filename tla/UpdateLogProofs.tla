-------------------------- MODULE UpdateLogProofs --------------------------
(***************************************************************************)
(* Theorems about UpdateLog, for every set of channels, keys and workers,  *)
(* every retention, and every bound on calls, reservations and restarts.   *)
(***************************************************************************)
EXTENDS UpdateLog, TLAPS

(* A call past its reservation works with a row, not with nothing. *)
HeldRow ==
    \A w \in Workers :
        work[w].stage \in {"create", "build", "send", "mark"} => work[w].held \in Row

Shape == TypeOK /\ HeldRow

(* A call that does nothing is a work record. *)
LEMMA IdleRecord == /\ Idle \in WorkRecord
                    /\ Idle.stage = "idle"
  BY DEF Idle, WorkRecord

(* A call that does something knows its key and the row it holds. *)
LEMMA BusyRecord ==
    ASSUME NEW r \in WorkRecord, r.stage # "idle"
    PROVE  /\ r.stage \in Stages \ {"idle"} /\ r.key \in Keys
           /\ r.held \in Row \cup {NoRow} /\ r.claimed \in BOOLEAN
  BY DEF Idle, WorkRecord

(* Ending a call keeps the types. *)
LEMMA EndsType ==
    ASSUME TypeOK, NEW w \in Workers, Ends(w)
    PROVE  /\ work' \in [Workers -> WorkRecord]
           /\ work'[w].stage = "idle"
           /\ \A v \in Workers \ {w} : work'[v] = work[v]
  BY IdleRecord DEF TypeOK, Ends

(* Every scope has a pts to count from, with or without a record of its own. *)
LEMMA BaseIsNat == ASSUME TypeOK, NEW s \in Scopes PROVE BasePts(s) \in Nat
  BY DEF TypeOK, BasePts, Scopes

(* The initial state is well typed and no call holds a row. *)
LEMMA ShapeInit == Init => Shape
  BY IdleRecord DEF Init, Shape, TypeOK, HeldRow, NoRecord

(* Every step keeps the types and the rows that calls hold. *)
LEMMA ShapeNext == Shape /\ [Next]_vars => Shape'
<1> SUFFICES ASSUME Shape, [Next]_vars PROVE Shape'
  OBVIOUS
<1> USE ConstantTypes DEF Shape
<1> DEFINE Moved(w) == \A v \in Workers \ {w} : work'[v] = work[v]
<1>0. /\ account \in [pts : Nat, seq : Nat, date : Nat]
      /\ channel \in [Channels -> [pts : Nat, date : Nat]]
      /\ row \in [Keys -> Row \cup {NoRow}]
      /\ lock \in Workers \cup {Free}
      /\ work \in [Workers -> WorkRecord]
      /\ past \in [applied : SUBSET Keys, ignored : SUBSET Keys, jobs : Nat,
                 reserved : Nat, crashes : Nat]
  BY DEF TypeOK
<1>row. \A k \in Keys : row[k] # NoRow => row[k] \in Row
  BY <1>0
<1>1. ASSUME NEW w \in Workers, NEW k \in Keys, Start(w, k) PROVE Shape'
  <2> DEFINE a == past.applied \cup ({k} \cap ChangeOnly)
             i == IF Repeated(w, k) THEN past.ignored \cup {k} ELSE past.ignored
             PastType == [applied : SUBSET Keys, ignored : SUBSET Keys, jobs : Nat,
                          reserved : Nat, crashes : Nat]
  <2>1. past' \in PastType
    <3>1. /\ past.applied \in SUBSET Keys /\ past.ignored \in SUBSET Keys
          /\ past.jobs + 1 \in Nat
      BY <1>0
    <3>2. a \in SUBSET Keys /\ i \in SUBSET Keys
      BY <3>1
    <3>3. past' = [past EXCEPT !.jobs = @ + 1, !.applied = a, !.ignored = i]
      BY <1>1 DEF Start
    <3> HIDE DEF a, i
    <3> QED BY <1>0, <3>1, <3>2, <3>3
  <2>2. CASE Becomes(w, "reserve", k, NoRow, FALSE)
    <3>1. /\ work' \in [Workers -> WorkRecord] /\ work'[w].stage = "reserve" /\ Moved(w)
      BY <1>0, <2>2 DEF Becomes, WorkRecord, Stages
    <3> QED BY <1>0, <1>1, <2>1, <3>1 DEF Start, TypeOK, HeldRow
  <2>3. CASE row[k] # NoRow /\ Becomes(w, "build", k, row[k], FALSE)
    <3>1. /\ work' \in [Workers -> WorkRecord] /\ work'[w].held = row[k] /\ Moved(w)
      BY <1>0, <2>3 DEF Becomes, WorkRecord, Stages
    <3> QED BY <1>0, <1>row, <1>1, <2>1, <2>3, <3>1 DEF Start, TypeOK, HeldRow
  <2>4. CASE UNCHANGED work
    BY <1>0, <1>1, <2>1, <2>4 DEF Start, TypeOK, HeldRow
  <2> QED BY <1>1, <2>2, <2>3, <2>4 DEF Start
<1>2. ASSUME NEW w \in Workers, Reclaim(w) PROVE Shape'
  <2> DEFINE k == work[w].key
             r == [row[k] EXCEPT !.fresh = TRUE]
  <2>1. k \in Keys /\ row[k] \in Row
    BY <1>0, <1>row, <1>2, BusyRecord DEF Reclaim
  <2>2. r \in Row
    BY <2>1 DEF Row
  <2>3. row' \in [Keys -> Row \cup {NoRow}]
    BY <1>0, <1>2, <2>1, <2>2 DEF Reclaim
  <2>4. CASE Ends(w)
    BY <1>0, <1>2, <2>3, <2>4, EndsType DEF Reclaim, TypeOK, HeldRow
  <2>5. CASE Becomes(w, "build", k, r, TRUE)
    <3>1. /\ work' \in [Workers -> WorkRecord] /\ work'[w].held = r /\ Moved(w)
      BY <1>0, <2>1, <2>2, <2>5 DEF Becomes, WorkRecord, Stages
    <3> QED BY <1>0, <1>2, <2>2, <2>3, <3>1 DEF Reclaim, TypeOK, HeldRow
  <2> QED BY <1>2, <2>4, <2>5 DEF Reclaim
<1>3. ASSUME NEW w \in Workers, Allocate(w) PROVE Shape'
  <2> DEFINE k == work[w].key
             s == Scope[k]
             pts == BasePts(s) + PtsCount[k]
             date == Max2(account.date, Stamp[k])
             r == [pts |-> pts, seq |-> account.seq + 1, date |-> date,
                   published |-> FALSE, fresh |-> TRUE, payload |-> 0]
  <2>1. k \in Keys /\ s \in Scopes /\ PtsCount[k] \in Nat /\ Stamp[k] \in Nat
    BY <1>0, <1>3, BusyRecord DEF Allocate
  <2>2. pts \in Nat /\ date \in Nat
    BY <1>0, <2>1, BaseIsNat DEF Max2
  <2>3. r \in Row
    BY <1>0, <2>2 DEF Row
  <2>4. Becomes(w, "create", k, r, TRUE)
    BY <1>3 DEF Allocate
  <2>5. /\ work' \in [Workers -> WorkRecord] /\ work'[w].held = r /\ Moved(w)
    BY <1>0, <2>1, <2>3, <2>4 DEF Becomes, WorkRecord, Stages
  <2>6. account' \in [pts : Nat, seq : Nat, date : Nat]
    BY <1>0, <1>3, <2>2 DEF Allocate
  <2>7. channel' \in [Channels -> [pts : Nat, date : Nat]]
    BY <1>0, <1>3, <2>1, <2>2 DEF Allocate, Max2, Scopes
  <2> QED BY <1>0, <1>3, <2>3, <2>5, <2>6, <2>7 DEF Allocate, TypeOK, HeldRow
<1>4. ASSUME NEW w \in Workers, CreateRow(w) PROVE Shape'
  <2>1. work[w].key \in Keys /\ work[w].held \in Row
    BY <1>0, <1>4, BusyRecord DEF CreateRow, HeldRow
  <2>2. row' \in [Keys -> Row \cup {NoRow}]
    BY <1>0, <1>4, <2>1 DEF CreateRow, Trimmed
  <2>3. /\ work' \in [Workers -> WorkRecord] /\ work'[w].held = work[w].held /\ Moved(w)
    BY <1>0, <1>4, <2>1, BusyRecord DEF Becomes, WorkRecord, CreateRow, Goes, Stages
  <2> QED BY <1>0, <1>4, <2>1, <2>2, <2>3 DEF CreateRow, TypeOK, HeldRow
<1>5. ASSUME NEW w \in Workers, CreateFails(w) \/ Abort(w) PROVE Shape'
  <2>1. CASE Ends(w)
    BY <1>0, <1>5, <2>1, EndsType DEF CreateFails, Abort, TypeOK, HeldRow
  <2>2. CASE Goes(w, "release")
    <3>1. /\ work' \in [Workers -> WorkRecord] /\ work'[w].stage = "release" /\ Moved(w)
      BY <1>0, <1>5, <2>2, BusyRecord DEF Becomes, WorkRecord, CreateFails, Abort, Goes, Stages
    <3> QED BY <1>0, <1>5, <3>1 DEF CreateFails, Abort, TypeOK, HeldRow
  <2> QED BY <1>5, <2>1, <2>2 DEF CreateFails, Abort
<1>6. ASSUME NEW w \in Workers, Release(w) PROVE Shape'
  <2>1. row' \in [Keys -> Row \cup {NoRow}]
    BY <1>0, <1>6 DEF Release
  <2> QED BY <1>0, <1>6, <2>1, EndsType DEF Release, TypeOK, HeldRow
<1>7. ASSUME NEW w \in Workers, StorePayload(w) PROVE Shape'
  <2>1. work[w].key \in Keys /\ work[w].held \in Row
    BY <1>0, <1>7, BusyRecord DEF StorePayload, HeldRow
  <2>2. ASSUME NEW r \in Row PROVE [r EXCEPT !.payload = work[w].held.pts] \in Row
    BY <2>1 DEF Row
  <2>3. row' \in [Keys -> Row \cup {NoRow}]
    BY <1>0, <1>row, <1>7, <2>1, <2>2 DEF StorePayload
  <2>4. /\ work' \in [Workers -> WorkRecord] /\ work'[w].held = work[w].held /\ Moved(w)
    BY <1>0, <1>7, <2>1, BusyRecord DEF Becomes, WorkRecord, StorePayload, Goes, Stages
  <2> QED BY <1>0, <1>7, <2>1, <2>3, <2>4 DEF StorePayload, TypeOK, HeldRow
<1>8. ASSUME NEW w \in Workers, NEW reached \in BOOLEAN, Sent(w, reached) PROVE Shape'
  <2>1. CASE Ends(w)
    BY <1>0, <1>8, <2>1, EndsType DEF Sent, TypeOK, HeldRow
  <2>2. CASE Goes(w, "mark")
    <3>1. /\ work' \in [Workers -> WorkRecord] /\ work'[w].held = work[w].held /\ Moved(w)
      BY <1>0, <1>8, <2>2, BusyRecord DEF Becomes, WorkRecord, Sent, Goes, Stages
    <3> QED BY <1>0, <1>8, <3>1 DEF Sent, TypeOK, HeldRow
  <2> QED BY <1>8, <2>1, <2>2 DEF Sent
<1>9. ASSUME NEW k \in Keys, Published(k) PROVE row' \in [Keys -> Row \cup {NoRow}]
  <2>1. ASSUME NEW r \in Row PROVE [r EXCEPT !.published = TRUE] \in Row
    BY DEF Row
  <2> QED BY <1>0, <1>row, <1>9, <2>1 DEF Published
<1>10. ASSUME NEW w \in Workers, MarkPublished(w) PROVE Shape'
  <2>1. row' \in [Keys -> Row \cup {NoRow}]
    BY <1>0, <1>9, <1>10, BusyRecord DEF MarkPublished
  <2> QED BY <1>0, <1>10, <2>1, EndsType DEF MarkPublished, TypeOK, HeldRow
<1>11. ASSUME NEW s \in Scopes, NEW d \in RpcDates, AdvancePts(s, d) PROVE Shape'
  <2>1. BasePts(s) \in Nat /\ d \in Nat
    BY BaseIsNat
  <2>2. account' \in [pts : Nat, seq : Nat, date : Nat]
    BY <1>0, <1>11, <2>1 DEF AdvancePts
  <2>3. channel' \in [Channels -> [pts : Nat, date : Nat]]
    BY <1>0, <1>11, <2>1 DEF AdvancePts, Scopes
  <2>4. past' \in [applied : SUBSET Keys, ignored : SUBSET Keys, jobs : Nat,
                 reserved : Nat, crashes : Nat]
    BY <1>0, <1>11 DEF AdvancePts
  <2> QED BY <1>0, <1>11, <2>2, <2>3, <2>4 DEF AdvancePts, TypeOK, HeldRow
<1>12. ASSUME NEW k \in Keys, GraceElapses(k) PROVE Shape'
  <2>1. [row[k] EXCEPT !.fresh = FALSE] \in Row
    BY <1>row, <1>12 DEF GraceElapses, Pending, Row
  <2> QED BY <1>0, <1>12, <2>1 DEF GraceElapses, TypeOK, HeldRow
<1>13. ASSUME NEW k \in Keys, DiscardAbandoned(k) \/ ReaderMarks(k) PROVE Shape'
  <2>1. row' \in [Keys -> Row \cup {NoRow}]
    BY <1>0, <1>9, <1>13 DEF DiscardAbandoned, ReaderMarks
  <2> QED BY <1>0, <1>13, <2>1 DEF DiscardAbandoned, ReaderMarks, TypeOK, HeldRow
<1>14. ASSUME NEW d \in Cutoffs, PruneExpired(d) PROVE Shape'
  <2>1. row' \in [Keys -> Row \cup {NoRow}]
    BY <1>0, <1>14 DEF PruneExpired
  <2> QED BY <1>0, <1>14, <2>1 DEF PruneExpired, TypeOK, HeldRow
<1>15. CASE Crash
  <2>1. past' \in [applied : SUBSET Keys, ignored : SUBSET Keys, jobs : Nat,
                 reserved : Nat, crashes : Nat]
    BY <1>0, <1>15 DEF Crash
  <2>2. work' \in [Workers -> WorkRecord] /\ \A w \in Workers : work'[w].stage = "idle"
    BY <1>15, IdleRecord DEF Crash
  <2> QED BY <1>0, <1>15, <2>1, <2>2 DEF Crash, TypeOK, HeldRow
<1>16. CASE UNCHANGED vars
  BY <1>0, <1>16 DEF vars, TypeOK, HeldRow
<1> QED
  BY <1>1, <1>2, <1>3, <1>4, <1>5, <1>6, <1>7, <1>8, <1>10, <1>11, <1>12, <1>13,
     <1>14, <1>15, <1>16
  DEF Next, Publishing, Step, Upkeep

(* The types hold in every reachable state. *)
THEOREM TypeCorrect == Spec => []TypeOK
<1>1. Shape => TypeOK
  BY DEF Shape
<1> QED BY ShapeInit, ShapeNext, <1>1, PTL DEF Spec

----------------------------------------------------------------------------
(* The write lock is what PtsRangesOrdered rests on: while it is held the    *)
(* scope's pts and the account's seq are those of the row about to appear.   *)

\* A call between its commit and its insert holds the lock, and only it.
LockHeld == \A w \in Workers : work[w].stage = "create" <=> lock = w

\* The states never fall behind the rows that were allocated from them.
RowsBehind ==
    \A k \in Keys : row[k] # NoRow =>
        /\ row[k].seq <= account.seq
        /\ Scope[k] = Account => row[k].pts <= account.pts
        /\ Scope[k] # Account => /\ channel[Scope[k]].pts # 0
                                 /\ row[k].pts <= channel[Scope[k]].pts

\* The row a call is about to insert is the newest of its session and scope.
Newest(r, k) ==
    /\ row[k] = NoRow
    /\ r.seq = account.seq
    /\ Scope[k] = Account => r.pts = account.pts
    /\ Scope[k] # Account => r.pts # 0 /\ r.pts = channel[Scope[k]].pts
    /\ \A j \in Keys : row[j] # NoRow =>
          /\ row[j].seq < r.seq
          /\ Scope[j] = Scope[k] => row[j].pts <= r.pts - PtsCount[k]

CreatesNewest ==
    \A w \in Workers : work[w].stage = "create" => Newest(work[w].held, work[w].key)

LogInv ==
    /\ Shape
    /\ account.pts # 0
    /\ LockHeld
    /\ RowsBehind
    /\ CreatesNewest
    /\ SeqUnique
    /\ PtsRangesOrdered

(* The initial state satisfies the invariant. *)
LEMMA LogInvInit == Init => LogInv
<1> SUFFICES ASSUME Init PROVE LogInv
  OBVIOUS
<1>1. \A w \in Workers : work[w].stage = "idle"
  BY IdleRecord DEF Init
<1>2. LockHeld /\ CreatesNewest
  BY <1>1, DistinctNames DEF Init, LockHeld, CreatesNewest
<1>3. RowsBehind /\ SeqUnique /\ PtsRangesOrdered
  BY DEF Init, RowsBehind, SeqUnique, PtsRangesOrdered
<1>4. account.pts # 0
  BY DEF Init
<1> QED BY ShapeInit, <1>2, <1>3, <1>4 DEF LogInv

SameRow(r, s) == r.pts = s.pts /\ r.seq = s.seq
(* A step that only forgets rows or changes marks on them, and leaves the    *)
(* states alone, keeps what LogInv says of rows.                             *)
LEMMA KeepsRows ==
    ASSUME LogInv, UNCHANGED <<account, channel>>,
           \A k \in Keys : row'[k] = NoRow \/ (row[k] # NoRow /\ SameRow(row'[k], row[k])),
           \A w \in Workers : work'[w].stage = "create" => work'[w] = work[w]
    PROVE  RowsBehind' /\ CreatesNewest' /\ SeqUnique' /\ PtsRangesOrdered'
<1>1. RowsBehind'
  BY DEF LogInv, RowsBehind, SameRow
<1>2. CreatesNewest'
  <2> SUFFICES ASSUME NEW w \in Workers, work'[w].stage = "create"
               PROVE  Newest(work[w].held, work[w].key)'
    BY DEF CreatesNewest
  <2>1. work[w] \in WorkRecord /\ work[w].stage = "create" /\ work'[w] = work[w]
    BY DEF LogInv, Shape, TypeOK
  <2>2. work[w].key \in Keys
    BY <2>1, BusyRecord
  <2>3. Newest(work[w].held, work[w].key)
    BY <2>1 DEF LogInv, CreatesNewest
  <2> QED BY <2>1, <2>2, <2>3 DEF Newest, SameRow
<1>3. SeqUnique'
  BY DEF LogInv, SeqUnique, SameRow
<1>4. PtsRangesOrdered'
  BY DEF LogInv, PtsRangesOrdered, SameRow
<1> QED BY <1>1, <1>2, <1>3, <1>4

(* Allocate makes a row newer than every row there is. *)
LEMMA AllocateKeeps ==
    ASSUME LogInv, NEW w \in Workers, Allocate(w), Shape'
    PROVE  /\ LockHeld' /\ RowsBehind' /\ CreatesNewest'
           /\ SeqUnique' /\ PtsRangesOrdered' /\ account'.pts # 0
<1> DEFINE k == work[w].key
           s == Scope[k]
           r == work'[w].held
<1> USE ConstantTypes DEF LogInv, Shape
<1>1. /\ k \in Keys /\ s \in Scopes /\ PtsCount[k] \in Nat
      /\ row[k] = NoRow /\ row' = row /\ lock = Free /\ lock' = w
  <2>1. work[w] \in WorkRecord /\ work[w].stage # "idle"
    BY DEF Allocate, TypeOK
  <2>2. k \in Keys
    BY <2>1, BusyRecord
  <2> QED BY <2>2 DEF Allocate
<1>2. /\ account \in [pts : Nat, seq : Nat, date : Nat]
      /\ channel \in [Channels -> [pts : Nat, date : Nat]]
      /\ work \in [Workers -> WorkRecord]
      /\ \A j \in Keys : row[j] # NoRow => row[j] \in Row
  BY DEF TypeOK
<1>3. BasePts(s) \in Nat /\ BasePts(s) # 0
  BY <1>1, <1>2 DEF BasePts, Scopes
<1>4. /\ work'[w].stage = "create" /\ work'[w].key = k
      /\ r.pts = BasePts(s) + PtsCount[k] /\ r.seq = account.seq + 1
      /\ \A v \in Workers \ {w} : work'[v] = work[v]
  BY <1>2 DEF Allocate, Becomes
<1>5. /\ account'.seq = account.seq + 1
      /\ account'.pts = IF s = Account THEN r.pts ELSE account.pts
      /\ s # Account => channel'[s].pts = r.pts
      /\ \A c \in Channels : c # s => channel'[c] = channel[c]
  BY <1>1, <1>2, <1>4 DEF Allocate, Scopes
<1>6. LockHeld'
  BY <1>1, <1>4, DistinctNames DEF LockHeld
<1>7. \A j \in Keys : row[j] # NoRow /\ Scope[j] = s => row[j].pts <= BasePts(s)
  BY <1>2 DEF RowsBehind, BasePts
<1>8. \A j \in Keys : row[j] # NoRow => row[j].seq <= account.seq
  BY DEF RowsBehind
<1>9. Newest(work[w].held, work[w].key)'
  <2>1. \A j \in Keys : row[j] # NoRow =>
          /\ row[j].seq < r.seq
          /\ Scope[j] = s => row[j].pts <= r.pts - PtsCount[k]
    <3> SUFFICES ASSUME NEW j \in Keys, row[j] # NoRow
                 PROVE  /\ row[j].seq < r.seq
                        /\ Scope[j] = s => row[j].pts <= r.pts - PtsCount[k]
      OBVIOUS
    <3>1. row[j].seq \in Nat /\ row[j].pts \in Nat
      BY <1>2 DEF Row
    <3>2. row[j].seq <= account.seq /\ (Scope[j] = s => row[j].pts <= BasePts(s))
      BY <1>7, <1>8
    <3> QED BY <1>1, <1>2, <1>3, <1>4, <3>1, <3>2
  <2>2. row'[k] = NoRow /\ r.seq = account'.seq
    BY <1>1, <1>4, <1>5
  <2>3. s = Account => r.pts = account'.pts
    BY <1>5
  <2>4. s # Account => r.pts # 0 /\ r.pts = channel'[s].pts
    BY <1>1, <1>3, <1>4, <1>5
  <2> QED BY <1>1, <1>4, <2>1, <2>2, <2>3, <2>4 DEF Newest
<1>10. CreatesNewest'
  <2>1. \A v \in Workers \ {w} : work[v].stage # "create"
    BY <1>1, DistinctNames DEF LockHeld
  <2> QED BY <1>4, <1>9, <2>1 DEF CreatesNewest
<1>11. RowsBehind'
  <2> SUFFICES ASSUME NEW j \in Keys, row[j] # NoRow
               PROVE  /\ row[j].seq <= account'.seq
                      /\ Scope[j] = Account => row[j].pts <= account'.pts
                      /\ Scope[j] # Account => /\ channel'[Scope[j]].pts # 0
                                               /\ row[j].pts <= channel'[Scope[j]].pts
    BY <1>1 DEF RowsBehind
  <2>1. Scope[j] \in Scopes /\ row[j].seq \in Nat /\ row[j].pts \in Nat
    BY <1>2 DEF Row
  <2>2. /\ row[j].seq <= account.seq
        /\ Scope[j] = Account => row[j].pts <= account.pts
        /\ Scope[j] # Account => /\ channel[Scope[j]].pts # 0
                                 /\ row[j].pts <= channel[Scope[j]].pts
    BY DEF RowsBehind
  <2>3. Scope[j] = s => row[j].pts <= r.pts /\ r.pts # 0
    BY <1>1, <1>3, <1>4, <1>7, <2>1
  <2> QED BY <1>2, <1>5, <2>1, <2>2, <2>3 DEF Scopes
<1>12. SeqUnique'
  <2>1. \A j \in Keys : row[j] # NoRow => row[j].seq <= account'.seq
    BY <1>1, <1>11 DEF RowsBehind
  <2> QED BY <1>1, <2>1 DEF SeqUnique
<1>13. PtsRangesOrdered'
  BY <1>1 DEF PtsRangesOrdered
<1>14. account'.pts # 0
  BY <1>1, <1>3, <1>4, <1>5
<1> QED BY <1>6, <1>10, <1>11, <1>12, <1>13, <1>14

(* CreateRow inserts the newest row; the trim only forgets rows. *)
LEMMA CreateKeeps ==
    ASSUME LogInv, NEW w \in Workers, CreateRow(w), Shape'
    PROVE  LockHeld' /\ RowsBehind' /\ CreatesNewest' /\ SeqUnique' /\ PtsRangesOrdered'
<1> DEFINE k == work[w].key
           r == work[w].held
<1> USE ConstantTypes DEF LogInv, Shape
<1>1. k \in Keys /\ r \in Row /\ lock = w /\ lock' = Free /\ Newest(r, k)
  <2>1. work[w] \in WorkRecord /\ work[w].stage = "create"
    BY DEF CreateRow, TypeOK
  <2>2. k \in Keys
    BY <2>1, BusyRecord
  <2> QED BY <2>1, <2>2 DEF CreateRow, HeldRow, LockHeld, CreatesNewest
<1>2. \A j \in Keys : row[j] # NoRow => row[j] \in Row
  BY DEF TypeOK
<1>3. \A j \in Keys : row'[j] # NoRow =>
        \/ j = k /\ row'[j] = r
        \/ j # k /\ row[j] # NoRow /\ row'[j] = row[j]
  <2> DEFINE rows == [row EXCEPT ![k] = r]
  <2>1. row' = Trimmed(rows, Scope[k])
    BY DEF CreateRow
  <2>2. \A j \in Keys : row'[j] \in {NoRow, rows[j]}
    BY <2>1 DEF Trimmed
  <2>3. \A j \in Keys : rows[j] = IF j = k THEN r ELSE row[j]
    BY DEF TypeOK
  <2> QED BY <2>2, <2>3
<1>4. /\ work'[w].stage = "build"
      /\ \A v \in Workers \ {w} : work'[v] = work[v]
  BY DEF CreateRow, Goes, Becomes, TypeOK
<1>5. LockHeld' /\ CreatesNewest'
  <2>1. \A v \in Workers : work'[v].stage # "create"
    BY <1>1, <1>4 DEF LockHeld
  <2> QED BY <1>1, <2>1, DistinctNames DEF LockHeld, CreatesNewest
<1>6. RowsBehind'
  <2> SUFFICES ASSUME NEW j \in Keys, row'[j] # NoRow
               PROVE  /\ row'[j].seq <= account.seq
                      /\ Scope[j] = Account => row'[j].pts <= account.pts
                      /\ Scope[j] # Account => /\ channel[Scope[j]].pts # 0
                                               /\ row'[j].pts <= channel[Scope[j]].pts
    BY DEF RowsBehind, CreateRow
  <2>1. CASE j = k
    BY <1>1, <1>3, <2>1 DEF Newest, Row, TypeOK, Scopes
  <2>2. CASE j # k
    BY <1>3, <2>2 DEF RowsBehind
  <2> QED BY <2>1, <2>2
<1>7. SeqUnique'
  BY <1>1, <1>2, <1>3, <1>6 DEF SeqUnique, RowsBehind, Newest, Row, TypeOK
<1>8. PtsRangesOrdered'
  BY <1>1, <1>2, <1>3 DEF PtsRangesOrdered, Newest, Row, TypeOK
<1> QED BY <1>5, <1>6, <1>7, <1>8

(* An RPC's reservation moves a state away from the rows, never back. *)
LEMMA AdvanceKeeps ==
    ASSUME LogInv, NEW s \in Scopes, NEW d \in RpcDates, AdvancePts(s, d)
    PROVE  /\ LockHeld' /\ RowsBehind' /\ CreatesNewest'
           /\ SeqUnique' /\ PtsRangesOrdered' /\ account'.pts # 0
<1> USE ConstantTypes DEF LogInv, Shape
<1>1. /\ account \in [pts : Nat, seq : Nat, date : Nat]
      /\ channel \in [Channels -> [pts : Nat, date : Nat]]
      /\ \A j \in Keys : row[j] # NoRow => row[j].pts \in Nat
  BY DEF TypeOK, Row
<1>2. row' = row /\ work' = work /\ lock' = lock /\ lock = Free
  BY DEF AdvancePts
<1>3. /\ account'.seq = account.seq
      /\ account'.pts \in {account.pts, account.pts + 1}
      /\ \A c \in Channels : \/ channel'[c] = channel[c]
                            \/ channel'[c].pts = BasePts(c) + 1
  BY <1>1 DEF AdvancePts, Scopes
<1>4. \A w \in Workers : work[w].stage # "create"
  BY <1>2, DistinctNames DEF LockHeld
<1>5. LockHeld' /\ CreatesNewest'
  BY <1>2, <1>4, DistinctNames DEF LockHeld, CreatesNewest
<1>6. RowsBehind'
  BY <1>1, <1>2, <1>3 DEF RowsBehind, BasePts, Scopes
<1>7. SeqUnique' /\ PtsRangesOrdered'
  BY <1>2, <1>3 DEF SeqUnique, PtsRangesOrdered
<1>8. account'.pts # 0
  BY <1>1, <1>3
<1> QED BY <1>5, <1>6, <1>7, <1>8

(* Every step of the session keeps the invariant. *)
LEMMA LogInvNext == LogInv /\ [Next]_vars => LogInv'
<1> SUFFICES ASSUME LogInv, [Next]_vars PROVE LogInv'
  OBVIOUS
<1>0. Shape /\ Shape'
  BY ShapeNext DEF LogInv
<1>held. /\ LockHeld /\ account.pts # 0 /\ work \in [Workers -> WorkRecord]
         /\ row \in [Keys -> Row \cup {NoRow}]
  BY <1>0 DEF LogInv, Shape, TypeOK
<1> DEFINE Forgets == \A k \in Keys :
             row'[k] = NoRow \/ (row[k] # NoRow /\ SameRow(row'[k], row[k]))
           Stays == \A w \in Workers :
             work'[w].stage = "create" => work'[w] = work[w]
<1>1. ASSUME Forgets, Stays, UNCHANGED <<account, channel>>, LockHeld' PROVE LogInv'
  BY <1>0, <1>1, <1>held, KeepsRows DEF LogInv
<1>2. ASSUME NEW w \in Workers, work[w].stage # "create", lock' = lock,
             \/ Ends(w)
             \/ \E stage \in Stages \ {"create"}, k \in Keys, held \in Row \cup {NoRow},
                    claimed \in BOOLEAN : Becomes(w, stage, k, held, claimed)
      PROVE  Stays /\ LockHeld'
  <2>1. work'[w].stage # "create" /\ \A v \in Workers \ {w} : work'[v] = work[v]
    BY <1>2, <1>held, IdleRecord DEF Ends, Becomes
  <2> QED BY <1>2, <1>held, <2>1 DEF LockHeld
<1>row. \A k \in Keys : row[k] # NoRow => row[k] \in Row
  BY <1>held
<1>3. UNCHANGED row => Forgets
  BY DEF SameRow
<1>key. \A w \in Workers : Busy(w) => /\ work[w].key \in Keys
                                       /\ work[w].held \in Row \cup {NoRow}
                                       /\ work[w].claimed \in BOOLEAN
  BY <1>held, BusyRecord DEF Busy
<1>4. ASSUME NEW w \in Workers, NEW k \in Keys, Start(w, k) PROVE LogInv'
  <2>1. Forgets
    BY <1>3, <1>4 DEF Start
  <2>2. Stays /\ LockHeld'
    <3>1. CASE UNCHANGED work
      BY <1>4, <1>held, <3>1 DEF Start, LockHeld
    <3>2. CASE Becomes(w, "reserve", k, NoRow, FALSE) \/ Becomes(w, "build", k, row[k], FALSE)
      BY <1>2, <1>4, <1>held, <3>2 DEF Start, Busy, Stages
    <3> QED BY <1>4, <3>1, <3>2 DEF Start
  <2> QED BY <1>1, <1>4, <2>1, <2>2 DEF Start
<1>5. ASSUME NEW w \in Workers, Reclaim(w) PROVE LogInv'
  <2> DEFINE k == work[w].key
             r == [row[k] EXCEPT !.fresh = TRUE]
  <2>1. k \in Keys /\ row[k] \in Row
    BY <1>5, <1>key, <1>row DEF Reclaim, Busy
  <2>2. r \in Row /\ SameRow(r, row[k])
    BY <2>1 DEF Row, SameRow
  <2>3. Forgets
    BY <1>5, <1>held, <2>1, <2>2 DEF Reclaim, SameRow
  <2>4. Ends(w) \/ Becomes(w, "build", k, r, TRUE)
    BY <1>5 DEF Reclaim
  <2>5. Stays /\ LockHeld'
    BY <1>2, <1>5, <2>1, <2>2, <2>4 DEF Reclaim, Stages
  <2> QED BY <1>1, <1>5, <2>3, <2>5 DEF Reclaim
<1>6. ASSUME NEW w \in Workers, Allocate(w) PROVE LogInv'
  BY <1>0, <1>6, AllocateKeeps DEF LogInv
<1>7. ASSUME NEW w \in Workers, CreateRow(w) PROVE LogInv'
  BY <1>0, <1>7, CreateKeeps DEF LogInv, CreateRow
<1>8. ASSUME NEW w \in Workers, CreateFails(w) PROVE LogInv'
  <2>1. lock = w /\ lock' = Free
    BY <1>8, <1>held DEF CreateFails, LockHeld
  <2>2. work'[w].stage # "create" /\ \A v \in Workers \ {w} : work'[v] = work[v]
    BY <1>8, <1>held, IdleRecord DEF CreateFails, Ends, Goes, Becomes
  <2>3. Stays /\ LockHeld'
    BY <1>held, <2>1, <2>2, DistinctNames DEF LockHeld
  <2> QED BY <1>1, <1>3, <1>8, <2>3 DEF CreateFails
<1>9. ASSUME NEW w \in Workers, Abort(w) PROVE LogInv'
  <2>1. Stays /\ LockHeld'
    BY <1>2, <1>9, <1>key DEF Abort, Goes, Busy, Stages
  <2> QED BY <1>1, <1>3, <1>9, <2>1 DEF Abort
<1>10. ASSUME NEW w \in Workers, Release(w) PROVE LogInv'
  <2>1. Forgets
    BY <1>held, <1>10 DEF Release, SameRow
  <2>2. Stays /\ LockHeld'
    BY <1>2, <1>10 DEF Release
  <2> QED BY <1>1, <1>10, <2>1, <2>2 DEF Release
<1>11. ASSUME NEW w \in Workers, StorePayload(w) PROVE LogInv'
  <2>1. ASSUME NEW r \in Row, NEW p PROVE SameRow([r EXCEPT !.payload = p], r)
    BY DEF Row, SameRow
  <2>2. Forgets
    BY <1>held, <1>row, <1>11, <2>1 DEF StorePayload, SameRow
  <2>3. Stays /\ LockHeld'
    BY <1>2, <1>11, <1>key DEF StorePayload, Goes, Busy, Stages
  <2> QED BY <1>1, <1>11, <2>2, <2>3 DEF StorePayload
<1>12. ASSUME NEW w \in Workers, NEW reached \in BOOLEAN, Sent(w, reached) PROVE LogInv'
  <2>1. Stays /\ LockHeld'
    BY <1>2, <1>12, <1>key DEF Sent, Goes, Busy, Stages
  <2> QED BY <1>1, <1>3, <1>12, <2>1 DEF Sent
<1>13. ASSUME NEW k \in Keys, Published(k) PROVE Forgets
  <2>1. ASSUME NEW r \in Row PROVE SameRow([r EXCEPT !.published = TRUE], r)
    BY DEF Row, SameRow
  <2> QED BY <1>held, <1>row, <1>13, <2>1 DEF Published, SameRow
<1>14. ASSUME NEW w \in Workers, MarkPublished(w) PROVE LogInv'
  <2>1. Forgets
    BY <1>13, <1>14, <1>key DEF MarkPublished, Busy
  <2>2. Stays /\ LockHeld'
    BY <1>2, <1>14 DEF MarkPublished
  <2> QED BY <1>1, <1>14, <2>1, <2>2 DEF MarkPublished
<1>15. ASSUME NEW s \in Scopes, NEW d \in RpcDates, AdvancePts(s, d) PROVE LogInv'
  BY <1>0, <1>15, AdvanceKeeps DEF LogInv
<1>same. ASSUME UNCHANGED <<account, channel, lock, work>>, Forgets PROVE LogInv'
  BY <1>1, <1>held, <1>same DEF LockHeld
<1>16. ASSUME NEW k \in Keys, GraceElapses(k) PROVE LogInv'
  <2>1. row[k] \in Row
    BY <1>16, <1>row DEF GraceElapses, Pending
  <2>2. SameRow([row[k] EXCEPT !.fresh = FALSE], row[k])
    BY <2>1 DEF Row, SameRow
  <2>3. Forgets
    BY <1>16, <1>held, <2>2 DEF GraceElapses, SameRow, Pending
  <2> QED BY <1>16, <1>same, <2>3 DEF GraceElapses
<1>17. ASSUME NEW k \in Keys, DiscardAbandoned(k) PROVE LogInv'
  BY <1>17, <1>held, <1>same DEF DiscardAbandoned, SameRow
<1>18. ASSUME NEW k \in Keys, ReaderMarks(k) PROVE LogInv'
  BY <1>13, <1>18, <1>same DEF ReaderMarks
<1>19. ASSUME NEW d \in Cutoffs, PruneExpired(d) PROVE LogInv'
  BY <1>19, <1>held, <1>same DEF PruneExpired, SameRow
<1>20. CASE Crash
  <2>1. \A w \in Workers : work'[w].stage = "idle"
    BY <1>20, IdleRecord DEF Crash
  <2>2. Stays /\ LockHeld'
    BY <1>20, <2>1, DistinctNames DEF Crash, LockHeld
  <2> QED BY <1>1, <1>3, <1>20, <2>2 DEF Crash
<1>21. CASE UNCHANGED vars
  BY <1>3, <1>21, <1>same DEF vars
<1> QED
  BY <1>4, <1>5, <1>6, <1>7, <1>8, <1>9, <1>10, <1>11, <1>12, <1>14, <1>15, <1>16,
     <1>17, <1>18, <1>19, <1>20, <1>21
  DEF Next, Publishing, Step, Upkeep

(* The log invariant holds in every reachable state. *)
THEOREM LogInvariant == Spec => []LogInv
  BY LogInvInit, LogInvNext, PTL DEF Spec

(* Retained updates of a scope lie in pts order without overlap. *)
THEOREM PtsRangesAreOrdered == Spec => []PtsRangesOrdered
<1>1. LogInv => PtsRangesOrdered
  BY DEF LogInv
<1> QED BY <1>1, LogInvariant, PTL

(* A seq names one retained row, and never one the account has not reached. *)
THEOREM SeqsAreUnique == Spec => []SeqUnique
<1>1. LogInv => SeqUnique
  BY DEF LogInv
<1> QED BY <1>1, LogInvariant, PTL

----------------------------------------------------------------------------
(* A payload and the row that holds it.                                      *)

\* No key is published by two calls at once.  The event queue gives this to its
\* own keys; two RPCs that read the same mentions would break it.
OneWorkerPerKey == \A v, w \in Workers : v # w => Jobs[v] \cap Jobs[w] = {}

OwnJobs == \A w \in Workers : Busy(w) => work[w].key \in Jobs[w]

\* What a building call holds is the row in the store, unless that row is gone.
HeldMatches ==
    \A w \in Workers :
        /\ work[w].stage = "build" /\ row[work[w].key] # NoRow
        => row[work[w].key].pts = work[w].held.pts

CreatesUnpaid ==
    \A w \in Workers : work[w].stage = "create" => work[w].held.payload = 0

PayloadInv == LogInv /\ OwnJobs /\ HeldMatches /\ CreatesUnpaid /\ PayloadMatchesRow

(* The initial state has no row and no call. *)
LEMMA PayloadInvInit == Init => PayloadInv
<1> SUFFICES ASSUME Init PROVE PayloadInv
  OBVIOUS
<1>1. \A w \in Workers : work[w].stage = "idle"
  BY IdleRecord DEF Init
<1>2. OwnJobs /\ HeldMatches /\ CreatesUnpaid
  BY <1>1 DEF OwnJobs, HeldMatches, CreatesUnpaid, Busy
<1>3. PayloadMatchesRow
  BY DEF Init, PayloadMatchesRow
<1> QED BY LogInvInit, <1>2, <1>3 DEF PayloadInv

(* A step that only forgets rows or marks them, and starts no build of another
   row, keeps the payload facts. *)
LEMMA KeepsPayloads ==
    ASSUME PayloadInv,
           \A k \in Keys : \/ row'[k] = NoRow
                           \/ /\ row[k] # NoRow /\ row'[k].pts = row[k].pts
                              /\ row'[k].payload \in {row[k].payload, row[k].pts},
           \A w \in Workers : \/ work'[w].stage \notin {"create", "build"}
                              \/ work'[w] = work[w],
           \A w \in Workers : Busy(w)' => Busy(w) /\ work'[w].key = work[w].key
    PROVE  OwnJobs' /\ HeldMatches' /\ CreatesUnpaid' /\ PayloadMatchesRow'
<1> USE DEF PayloadInv
<1>0. \A w \in Workers : Busy(w) => work[w].key \in Keys
  BY BusyRecord DEF LogInv, Shape, TypeOK, Busy
<1>1. OwnJobs'
  BY DEF OwnJobs
<1>2. HeldMatches'
  BY <1>0 DEF HeldMatches, Busy
<1>3. CreatesUnpaid'
  BY DEF CreatesUnpaid
<1>4. PayloadMatchesRow'
  BY DEF PayloadMatchesRow
<1> QED BY <1>1, <1>2, <1>3, <1>4

(* With one publisher per key, every step keeps payloads and rows together. *)
LEMMA PayloadInvNext ==
    ASSUME OneWorkerPerKey, PayloadInv, [Next]_vars
    PROVE  PayloadInv'
<1> USE ConstantTypes DEF PayloadInv
<1> DEFINE Goal == OwnJobs' /\ HeldMatches' /\ CreatesUnpaid' /\ PayloadMatchesRow'
           Marks == \A k \in Keys :
               \/ row'[k] = NoRow
               \/ /\ row[k] # NoRow /\ row'[k].pts = row[k].pts
                  /\ row'[k].payload \in {row[k].payload, row[k].pts}
           Moves == \A w \in Workers : \/ work'[w].stage \notin {"create", "build"}
                                       \/ work'[w] = work[w]
           Follows == \A w \in Workers : Busy(w)' => Busy(w) /\ work'[w].key = work[w].key
<1>0. LogInv'
  BY LogInvNext
<1>1. /\ work \in [Workers -> WorkRecord]
      /\ row \in [Keys -> Row \cup {NoRow}]
      /\ \A k \in Keys : row[k] # NoRow => row[k] \in Row
      /\ \A w \in Workers : Busy(w) => work[w].key \in Keys
      /\ HeldRow
  BY BusyRecord DEF LogInv, Shape, TypeOK, Busy
<1>2. ASSUME Marks, Moves, Follows PROVE Goal
  BY <1>2, KeepsPayloads
<1>3. UNCHANGED row => Marks
  OBVIOUS
<1>4. ASSUME NEW w \in Workers,
             Ends(w) \/ \E stage \in {"release", "send", "mark"} : Goes(w, stage) /\ Busy(w)
      PROVE  Moves /\ Follows
  BY <1>1, <1>4, IdleRecord DEF Ends, Goes, Becomes, Busy
\* A step that begins a call's work on key k, or inserts its row.
<1>5. ASSUME NEW w \in Workers, NEW k \in Jobs[w], NEW stage \in Stages,
             NEW held, NEW claimed,
             Becomes(w, stage, k, held, claimed),
             \A j \in Keys : \/ row'[j] = NoRow
                             \/ /\ row[j] # NoRow /\ row'[j].pts = row[j].pts
                                /\ row'[j].payload = row[j].payload
                             \/ j = k /\ row'[j].pts = held.pts /\ row'[j].payload = 0,
             stage = "build" /\ row'[k] # NoRow => row'[k].pts = held.pts,
             stage = "create" => held.payload = 0
      PROVE  Goal
  <2>1. /\ work'[w] = [stage |-> stage, key |-> k, held |-> held, claimed |-> claimed]
        /\ \A v \in Workers \ {w} : work'[v] = work[v]
    BY <1>1, <1>5 DEF Becomes
  <2>2. OwnJobs'
    BY <1>5, <2>1 DEF OwnJobs, Busy
  <2>3. \A v \in Workers \ {w} : Busy(v) => work[v].key # k
    BY <1>5 DEF OwnJobs, OneWorkerPerKey
  <2>4. HeldMatches'
    <3> SUFFICES ASSUME NEW v \in Workers, work'[v].stage = "build",
                        row'[work'[v].key] # NoRow
                 PROVE  row'[work'[v].key].pts = work'[v].held.pts
      BY DEF HeldMatches
    <3>1. CASE v = w
      BY <1>5, <2>1, <3>1
    <3>2. CASE v # w
      BY <1>1, <1>5, <2>1, <2>3, <3>2 DEF HeldMatches, Busy
    <3> QED BY <3>1, <3>2
  <2>5. CreatesUnpaid'
    BY <1>5, <2>1 DEF CreatesUnpaid
  <2>6. PayloadMatchesRow'
    BY <1>5 DEF PayloadMatchesRow
  <2> QED BY <2>2, <2>4, <2>5, <2>6
<1>6. ASSUME NEW w \in Workers, NEW k \in Keys, Start(w, k) PROVE Goal
  <2>1. CASE UNCHANGED work
    BY <1>2, <1>3, <1>6, <2>1 DEF Start, Busy
  <2>2. CASE Becomes(w, "reserve", k, NoRow, FALSE)
    BY <1>5, <1>6, <2>2 DEF Start, Stages
  <2>3. CASE Becomes(w, "build", k, row[k], FALSE)
    BY <1>5, <1>6, <2>3 DEF Start, Stages
  <2> QED BY <1>6, <2>1, <2>2, <2>3 DEF Start
<1>7. ASSUME NEW w \in Workers, Reclaim(w) PROVE Goal
  <2> DEFINE k == work[w].key
             r == [row[k] EXCEPT !.fresh = TRUE]
  <2>1. k \in Keys /\ k \in Jobs[w] /\ row[k] \in Row
    BY <1>1, <1>7 DEF Reclaim, Busy, OwnJobs
  <2>2. r.pts = row[k].pts /\ r.payload = row[k].payload
    BY <2>1 DEF Row
  <2>3. \A j \in Keys : row'[j] = IF j = k THEN r ELSE row[j]
    BY <1>1, <1>7 DEF Reclaim
  <2>4. CASE Ends(w)
    <3>1. Marks
      BY <1>7, <2>1, <2>2, <2>3 DEF Reclaim
    <3> QED BY <1>2, <1>4, <2>4, <3>1
  <2>5. CASE Becomes(w, "build", k, r, TRUE)
    <3>1. \A j \in Keys : \/ row'[j] = NoRow
                          \/ /\ row[j] # NoRow /\ row'[j].pts = row[j].pts
                             /\ row'[j].payload = row[j].payload
      BY <1>7, <2>1, <2>2, <2>3 DEF Reclaim
    <3> HIDE DEF k, r
    <3> QED BY <1>5, <2>1, <2>3, <2>5, <3>1 DEF Stages
  <2> QED BY <1>7, <2>4, <2>5 DEF Reclaim
<1>8. ASSUME NEW w \in Workers, Allocate(w) PROVE Goal
  <2> DEFINE k == work[w].key
             r == work'[w].held
  <2>1. k \in Jobs[w] /\ row' = row /\ row[k] = NoRow
    BY <1>8 DEF Allocate, OwnJobs, Busy
  <2>2. r.payload = 0 /\ Becomes(w, "create", k, r, TRUE)
    BY <1>1, <1>8 DEF Allocate, Becomes
  <2> HIDE DEF k, r
  <2> QED BY <1>5, <2>1, <2>2 DEF Stages
<1>9. ASSUME NEW w \in Workers, CreateRow(w) PROVE Goal
  <2> DEFINE k == work[w].key
             r == work[w].held
             rows == [row EXCEPT ![k] = r]
  <2>1. k \in Keys /\ k \in Jobs[w] /\ r.payload = 0
    BY <1>1, <1>9 DEF CreateRow, Busy, OwnJobs, CreatesUnpaid
  <2>2. \A j \in Keys : row'[j] \in {NoRow, rows[j]}
    BY <1>9 DEF CreateRow, Trimmed
  <2>3. \A j \in Keys : rows[j] = IF j = k THEN r ELSE row[j]
    BY <1>1
  <2>4. Becomes(w, "build", k, r, work[w].claimed)
    BY <1>9 DEF CreateRow, Goes
  <2> QED BY <1>5, <2>1, <2>2, <2>3, <2>4 DEF Stages
<1>10. ASSUME NEW w \in Workers, CreateFails(w) \/ Abort(w) PROVE Goal
  BY <1>2, <1>3, <1>4, <1>10 DEF CreateFails, Abort, Busy
<1>11. ASSUME NEW w \in Workers, Release(w) PROVE Goal
  BY <1>1, <1>2, <1>4, <1>11 DEF Release
<1>12. ASSUME NEW w \in Workers, StorePayload(w) PROVE Goal
  <2> DEFINE k == work[w].key
  <2>1. k \in Keys /\ (row[k] # NoRow => row[k].pts = work[w].held.pts /\ row[k] \in Row)
    BY <1>1, <1>12 DEF StorePayload, Busy, HeldMatches
  <2>2. ASSUME NEW r \in Row, NEW p
        PROVE  [r EXCEPT !.payload = p].pts = r.pts /\ [r EXCEPT !.payload = p].payload = p
    BY DEF Row
  <2>3. Marks
    BY <1>1, <1>12, <2>1, <2>2 DEF StorePayload
  <2> QED BY <1>2, <1>4, <1>12, <2>3 DEF StorePayload, Busy
<1>13. ASSUME NEW w \in Workers, NEW reached \in BOOLEAN, Sent(w, reached) PROVE Goal
  BY <1>2, <1>3, <1>4, <1>13 DEF Sent, Busy
<1>14. ASSUME NEW k \in Keys, Published(k) PROVE Marks
  <2>1. ASSUME NEW r \in Row
        PROVE  /\ [r EXCEPT !.published = TRUE].pts = r.pts
               /\ [r EXCEPT !.published = TRUE].payload = r.payload
    BY DEF Row
  <2> QED BY <1>1, <1>14, <2>1 DEF Published
<1>15. ASSUME NEW w \in Workers, MarkPublished(w) PROVE Goal
  BY <1>1, <1>2, <1>4, <1>14, <1>15 DEF MarkPublished, Busy
<1>16. UNCHANGED work => Moves /\ Follows
  BY DEF Busy
<1>17. ASSUME NEW s \in Scopes, NEW d \in RpcDates, AdvancePts(s, d) PROVE Goal
  BY <1>2, <1>3, <1>16, <1>17 DEF AdvancePts
<1>18. ASSUME NEW k \in Keys, GraceElapses(k) PROVE Goal
  <2>1. row[k] \in Row /\ row' = [row EXCEPT ![k] = [row[k] EXCEPT !.fresh = FALSE]]
    BY <1>1, <1>18 DEF GraceElapses, Pending
  <2>2. /\ [row[k] EXCEPT !.fresh = FALSE].pts = row[k].pts
        /\ [row[k] EXCEPT !.fresh = FALSE].payload = row[k].payload
    BY <2>1 DEF Row
  <2>3. Marks
    BY <1>1, <1>18, <2>1, <2>2 DEF GraceElapses, Pending
  <2> QED BY <1>2, <1>16, <1>18, <2>3 DEF GraceElapses
<1>19. ASSUME NEW k \in Keys, DiscardAbandoned(k) PROVE Goal
  BY <1>1, <1>2, <1>16, <1>19 DEF DiscardAbandoned
<1>20. ASSUME NEW k \in Keys, ReaderMarks(k) PROVE Goal
  BY <1>2, <1>14, <1>16, <1>20 DEF ReaderMarks
<1>21. ASSUME NEW d \in Cutoffs, PruneExpired(d) PROVE Goal
  BY <1>1, <1>2, <1>16, <1>21 DEF PruneExpired
<1>22. ASSUME Crash PROVE Goal
  <2>1. \A w \in Workers : work'[w].stage = "idle"
    BY <1>22, IdleRecord DEF Crash
  <2>2. Moves /\ Follows
    BY <2>1 DEF Busy
  <2> QED BY <1>2, <1>3, <1>22, <2>2 DEF Crash
<1>23. ASSUME UNCHANGED vars PROVE Goal
  <2>1. UNCHANGED row /\ UNCHANGED work
    BY <1>23 DEF vars
  <2>2. Marks /\ Moves /\ Follows
    BY <1>3, <1>16, <2>1
  <2> QED BY <1>2, <2>2
<1>24. Goal
  BY <1>6, <1>7, <1>8, <1>9, <1>10, <1>11, <1>12, <1>13, <1>15, <1>17, <1>18, <1>19,
     <1>20, <1>21, <1>22, <1>23
  DEF Next, Publishing, Step, Upkeep
<1> QED BY <1>0, <1>24

(* With one publisher per key, a stored payload carries its row's pts. *)
THEOREM PayloadsMatchRows ==
    ASSUME OneWorkerPerKey
    PROVE  Spec => []PayloadMatchesRow
<1>1. PayloadInv /\ [Next]_vars => PayloadInv'
  BY PayloadInvNext
<1>2. PayloadInv => PayloadMatchesRow
  BY DEF PayloadInv
<1> QED BY PayloadInvInit, <1>1, <1>2, PTL DEF Spec
============================================================================
