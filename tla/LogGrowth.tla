----------------------------- MODULE LogGrowth -----------------------------
(***************************************************************************)
(* What the proofs about devices need of the log of UpdateLog: how a step  *)
(* of it changes the updates of a scope that take pts, and the lists of    *)
(* rows that a difference reads from it.                                   *)
(***************************************************************************)
EXTENDS DeliveryRows, UpdateLogProofs, FiniteSetTheorems, WellFoundedInduction

----------------------------------------------------------------------------
\* Least and last elements.

Less == {p \in Nat \X Nat : p[1] < p[2]}

(* A set of natural numbers has a least element. *)
LEMMA LeastOf ==
    ASSUME NEW T, T \subseteq Nat, T # {}
    PROVE  \E x \in T : \A y \in T : x <= y
<1>1. IsWellFoundedOn(Less, Nat)
  BY NatLessThanWellFounded DEF OpToRel, Less
<1>2. PICK x \in T : \A y \in T : <<y, x>> \notin Less
  BY <1>1, WFMin
<1>3. ASSUME NEW y \in T PROVE x <= y
  <2>1. x \in Nat /\ y \in Nat /\ <<y, x>> \in Nat \X Nat
    BY <1>3
  <2>2. <<y, x>>[1] = y /\ <<y, x>>[2] = x
    OBVIOUS
  <2>3. ~(y < x)
    BY <1>2, <2>1, <2>2 DEF Less
  <2> QED BY <2>1, <2>3
<1> QED BY <1>3

\* Entries as a difference reads them from the rows of its scope.
EntryOf == [key : Keys, pts : Nat, seq : Nat, ready : BOOLEAN, at : Nat \X Nat]

(* Before is a strict order of the entries. *)
LEMMA BeforeOrders ==
    ASSUME NEW e \in EntryOf, NEW f \in EntryOf, NEW g \in EntryOf
    PROVE  /\ ~Before(e, e)
           /\ Before(e, f) /\ Before(f, g) => Before(e, g)
<1>1. /\ e.at[1] \in Nat /\ e.at[2] \in Nat /\ f.at[1] \in Nat /\ f.at[2] \in Nat
      /\ g.at[1] \in Nat /\ g.at[2] \in Nat
  BY DEF EntryOf
<1> QED BY <1>1 DEF Before

(* Finitely many entries have a last one. *)
LEMMA LastOf ==
    ASSUME NEW S \in SUBSET EntryOf, IsFiniteSet(S), S # {}
    PROVE  Last1(S) \in S /\ \A f \in S : ~Before(Last1(S), f)
<1> DEFINE after(e) == {f \in S : Before(e, f)}
           T == {Cardinality(after(e)) : e \in S}
<1>1. ASSUME NEW e \in S
      PROVE  IsFiniteSet(after(e)) /\ Cardinality(after(e)) \in Nat
  <2>1. after(e) \in SUBSET S
    OBVIOUS
  <2>2. IsFiniteSet(after(e))
    BY <2>1, FS_Subset
  <2> QED BY <2>2, FS_CardinalityType
<1>2. PICK n \in T : \A m \in T : n <= m
  <2>1. T \subseteq Nat /\ T # {}
    BY <1>1
  <2> HIDE DEF T
  <2> QED BY <2>1, LeastOf
<1>3. PICK e \in S : Cardinality(after(e)) = n
  OBVIOUS
<1>4. \A f \in S : ~Before(e, f)
  <2> SUFFICES ASSUME NEW f \in S, Before(e, f) PROVE FALSE
    OBVIOUS
  <2>1. after(f) \in SUBSET after(e) /\ f \in after(e) /\ f \notin after(f)
    BY BeforeOrders
  <2>2. /\ Cardinality(after(f)) <= Cardinality(after(e))
        /\ Cardinality(after(e)) = Cardinality(after(f)) => after(e) = after(f)
    <3> HIDE DEF after
    <3> QED BY <1>1, <2>1, FS_Subset
  <2>3. Cardinality(after(f)) # Cardinality(after(e))
    BY <2>1, <2>2
  <2>4. Cardinality(after(e)) <= Cardinality(after(f))
    BY <1>2, <1>3
  <2>5. Cardinality(after(e)) \in Nat /\ Cardinality(after(f)) \in Nat
    BY <1>1
  <2> HIDE DEF after
  <2> QED BY <2>2, <2>3, <2>4, <2>5
<1> QED BY <1>4 DEF Last1

(* A page holds with an entry all that lie before it. *)
LEMMA PageIsPrefix ==
    ASSUME NEW S \in SUBSET EntryOf, IsFiniteSet(S), NEW n \in Nat,
           NEW e \in FirstOf(ReadyPrefix(S), n), NEW f \in S, Before(f, e)
    PROVE  f \in FirstOf(ReadyPrefix(S), n)
<1> DEFINE R == ReadyPrefix(S)
           upto(g) == {h \in R : Before(h, g)}
<1>1. R \in SUBSET S /\ e \in R
  BY DEF ReadyPrefix, FirstOf
<1>2. IsFiniteSet(R)
  BY <1>1, FS_Subset
<1>3. f \in R
  <2>1. /\ f.ready
        /\ \A g \in S : Before(g, f) => g.ready
    BY <1>1, BeforeOrders DEF ReadyPrefix
  <2> QED BY <2>1 DEF ReadyPrefix
<1>4. upto(f) \in SUBSET upto(e) /\ upto(e) \in SUBSET R
  BY <1>1, BeforeOrders
<1>5. IsFiniteSet(upto(e)) /\ Cardinality(upto(e)) \in Nat
  <2>1. IsFiniteSet(upto(e))
    BY <1>2, <1>4, FS_Subset
  <2> QED BY <2>1, FS_CardinalityType
<1>6. Cardinality(upto(f)) <= Cardinality(upto(e)) /\ Cardinality(upto(f)) \in Nat
  <2>1. IsFiniteSet(upto(f)) /\ Cardinality(upto(f)) <= Cardinality(upto(e))
    BY <1>4, <1>5, FS_Subset
  <2> QED BY <2>1, FS_CardinalityType
<1>7. Cardinality(upto(e)) < n
  BY DEF FirstOf
<1>8. Cardinality(upto(f)) < n
  BY <1>5, <1>6, <1>7
<1> QED BY <1>3, <1>8 DEF FirstOf

(* Finitely many entries have a first one. *)
LEMMA HeadOf ==
    ASSUME NEW S \in SUBSET EntryOf, IsFiniteSet(S), S # {}
    PROVE  Head1(S) \in S /\ \A f \in S : ~Before(f, Head1(S))
<1> DEFINE upto(e) == {f \in S : Before(f, e)}
           T == {Cardinality(upto(e)) : e \in S}
<1>1. ASSUME NEW e \in S
      PROVE  IsFiniteSet(upto(e)) /\ Cardinality(upto(e)) \in Nat
  <2>1. upto(e) \in SUBSET S
    OBVIOUS
  <2>2. IsFiniteSet(upto(e))
    BY <2>1, FS_Subset
  <2> QED BY <2>2, FS_CardinalityType
<1>2. PICK n \in T : \A m \in T : n <= m
  <2>1. T \subseteq Nat /\ T # {}
    BY <1>1
  <2> HIDE DEF T
  <2> QED BY <2>1, LeastOf
<1>3. PICK e \in S : Cardinality(upto(e)) = n
  OBVIOUS
<1>4. \A f \in S : ~Before(f, e)
  <2> SUFFICES ASSUME NEW f \in S, Before(f, e) PROVE FALSE
    OBVIOUS
  <2>1. upto(f) \in SUBSET upto(e) /\ f \in upto(e) /\ f \notin upto(f)
    BY BeforeOrders
  <2>2. /\ Cardinality(upto(f)) <= Cardinality(upto(e))
        /\ Cardinality(upto(e)) = Cardinality(upto(f)) => upto(e) = upto(f)
    <3> HIDE DEF upto
    <3> QED BY <1>1, <2>1, FS_Subset
  <2>3. Cardinality(upto(f)) # Cardinality(upto(e))
    BY <2>1, <2>2
  <2>4. Cardinality(upto(e)) <= Cardinality(upto(f))
    BY <1>2, <1>3
  <2>5. Cardinality(upto(e)) \in Nat /\ Cardinality(upto(f)) \in Nat
    BY <1>1
  <2> HIDE DEF upto
  <2> QED BY <2>2, <2>3, <2>4, <2>5
<1> QED BY <1>4 DEF Head1

----------------------------------------------------------------------------
\* What the log knows of a scope's counted updates.

CountedIn(s) == {k \in Keys : Scope[k] = s /\ PtsCount[k] > 0}

\* Updates that have a row, that a call holds, and that a call is about to push.
InRows(s) == {Named(k, row[k].pts) : k \in {j \in CountedIn(s) : row[j] # NoRow}}
HeldAt(s, stages) ==
    {Named(work[w].key, work[w].held.pts) :
        w \in {v \in Workers : work[v].stage \in stages /\ work[v].key \in CountedIn(s)}}
Taken(s) == InRows(s) \cup HeldAt(s, {"create", "build", "send"})
Sending(s) == HeldAt(s, {"send"})

\* Updates that the log holds or is about to hold.
Standing(s) == InRows(s) \cup HeldAt(s, {"create"})

\* Updates whose payload is still to be stored.
Open(s) == {Named(k, row[k].pts) : k \in {j \in CountedIn(s) : Pending(j)}}
           \cup HeldAt(s, {"create"})

Low(u) == u.pts - PtsCount[u.name]

TakenBelow(s) == \A u \in Taken(s) : u.pts <= BasePts(s) /\ u.pts # 0

\* An update whose pts were not taken before the step.
Fresh(s, u) == /\ u \in [name : CountedIn(s), pts : Nat]
               /\ BasePts(s) <= Low(u) /\ u.pts <= BasePts(s)' /\ u.pts # 0

\* What a step of the log may do.
Grows(s) ==
    /\ BasePts(s)' \in Nat /\ BasePts(s) <= BasePts(s)'
    /\ \A u \in Taken(s)' : u \in Taken(s) \/ Fresh(s, u)
    /\ \A u, v \in Taken(s)' \ Taken(s) : u = v
    /\ \A u \in Standing(s)' : u \in Standing(s) \/ Fresh(s, u)
    /\ \A u \in Open(s)' : u \in Open(s) \/ Fresh(s, u)
    /\ \A u \in Sending(s)' : u \in Sending(s) \/ (u \in Taken(s) /\ u \notin Open(s)')
    /\ \A u \in FinishedIn(s)' : u \in FinishedIn(s) \/ (u \in Open(s) /\ u \notin Open(s)')
    /\ \A u, v \in FinishedIn(s)' \ FinishedIn(s) : u = v

\* The row of a key, if it stays, keeps its pts, seq, date and payload.
RowStays(k) ==
    \/ row'[k] = NoRow
    \/ /\ row[k] # NoRow
       /\ row'[k].pts = row[k].pts /\ row'[k].seq = row[k].seq
       /\ row'[k].date = row[k].date /\ row'[k].payload = row[k].payload

\* The call of a worker goes on with what it holds, takes a row over, or holds nothing.
WorkStays(w) ==
    \/ work'[w] = work[w]
    \/ work'[w].stage \notin {"create", "build", "send"}
    \/ /\ work'[w].stage = "build" /\ work'[w].key \in Keys
       /\ row[work'[w].key] # NoRow
       /\ work'[w].held.pts = row[work'[w].key].pts
       /\ work'[w].held.seq = row[work'[w].key].seq

StaysPut ==
    /\ UNCHANGED <<account, channel>>
    /\ \A k \in Keys : RowStays(k)
    /\ \A w \in Workers : WorkStays(w)

(* The updates of the log are updates. *)
LEMMA TakenTypes ==
    ASSUME NEW s \in Scopes, Shape
    PROVE  /\ Taken(s) \subseteq [name : CountedIn(s), pts : Nat]
           /\ \A k \in Keys : row[k] # NoRow => row[k] \in Row
           /\ FinishedIn(s) \subseteq InRows(s)
<1>1. \A k \in Keys : row[k] # NoRow => row[k] \in Row
  BY DEF Shape, TypeOK
<1>2. ASSUME NEW u \in InRows(s) PROVE u \in [name : CountedIn(s), pts : Nat]
  BY <1>1, <1>2 DEF InRows, CountedIn, Named, Row
<1>3. ASSUME NEW u \in HeldAt(s, {"create", "build", "send"})
      PROVE  u \in [name : CountedIn(s), pts : Nat]
  <2>1. PICK w \in Workers : /\ work[w].stage \in {"create", "build", "send"}
                             /\ work[w].key \in CountedIn(s)
                             /\ u = Named(work[w].key, work[w].held.pts)
    BY <1>3 DEF HeldAt
  <2>2. work[w].held \in Row
    BY <2>1 DEF Shape, HeldRow
  <2> QED BY <2>1, <2>2 DEF Named, Row
<1>4. FinishedIn(s) \subseteq InRows(s)
  BY DEF FinishedIn, InRows, CountedIn
<1> QED BY <1>1, <1>2, <1>3, <1>4 DEF Taken

(* A step that keeps what rows and calls hold takes no pts and finishes nothing. *)
LEMMA QuietGrows ==
    ASSUME NEW s \in Scopes, Shape, StaysPut
    PROVE  Grows(s) /\ FinishedIn(s)' \subseteq FinishedIn(s)
<1> USE DEF StaysPut
<1>1. BasePts(s)' = BasePts(s) /\ BasePts(s) \in Nat
  BY BaseIsNat DEF BasePts, Shape
<1>2. ASSUME NEW u \in InRows(s)' PROVE u \in InRows(s)
  BY <1>2 DEF InRows, CountedIn, RowStays
<1>3. ASSUME NEW u \in HeldAt(s, {"create", "build", "send"})' PROVE u \in Taken(s)
  <2>1. PICK w \in Workers : /\ work'[w].stage \in {"create", "build", "send"}
                             /\ work'[w].key \in CountedIn(s)
                             /\ u = Named(work'[w].key, work'[w].held.pts)
    BY <1>3 DEF HeldAt
  <2>2. CASE work'[w] = work[w]
    BY <2>1, <2>2 DEF Taken, HeldAt
  <2>3. CASE row[work'[w].key] # NoRow /\ work'[w].held.pts = row[work'[w].key].pts
    BY <2>1, <2>3 DEF Taken, InRows
  <2> QED BY <2>1, <2>2, <2>3 DEF WorkStays
<1>4. ASSUME NEW u \in HeldAt(s, {"create"})' PROVE u \in HeldAt(s, {"create"})
  <2>1. PICK w \in Workers : /\ work'[w].stage = "create" /\ work'[w].key \in CountedIn(s)
                             /\ u = Named(work'[w].key, work'[w].held.pts)
    BY <1>4 DEF HeldAt
  <2>2. work'[w] = work[w]
    BY <2>1 DEF WorkStays
  <2> QED BY <2>1, <2>2 DEF HeldAt
<1>5. ASSUME NEW u \in HeldAt(s, {"send"})' PROVE u \in HeldAt(s, {"send"})
  <2>1. PICK w \in Workers : /\ work'[w].stage = "send" /\ work'[w].key \in CountedIn(s)
                             /\ u = Named(work'[w].key, work'[w].held.pts)
    BY <1>5 DEF HeldAt
  <2>2. work'[w] = work[w]
    BY <2>1 DEF WorkStays
  <2> QED BY <2>1, <2>2 DEF HeldAt
<1>6. ASSUME NEW u \in Open(s)' PROVE u \in Open(s)
  <2>1. CASE u \in HeldAt(s, {"create"})'
    BY <1>4, <2>1 DEF Open
  <2>2. CASE u \in {Named(k, row[k].pts) : k \in {j \in CountedIn(s) : Pending(j)}}'
    BY <2>2 DEF Open, CountedIn, RowStays, Pending
  <2> QED BY <1>6, <2>1, <2>2 DEF Open
<1>7. ASSUME NEW u \in FinishedIn(s)' PROVE u \in FinishedIn(s)
  BY <1>7 DEF FinishedIn, RowStays
<1>8. \A u \in Taken(s)' : u \in Taken(s)
  BY <1>2, <1>3 DEF Taken
<1>9. \A u \in Standing(s)' : u \in Standing(s)
  BY <1>2, <1>4 DEF Standing
<1> QED BY <1>1, <1>5, <1>6, <1>7, <1>8, <1>9 DEF Grows, Sending

(* A reservation takes pts that lie behind all the others. *)
LEMMA AllocateGrows ==
    ASSUME NEW s \in Scopes, LogInv, NEW w \in Workers, Allocate(w)
    PROVE  Grows(s)
<1> DEFINE k == work[w].key
           t == Scope[k]
           u0 == Named(k, work'[w].held.pts)
<1> USE ConstantTypes DEF LogInv, Shape
<1>0. /\ account \in [pts : Nat, seq : Nat, date : Nat]
      /\ channel \in [Channels -> [pts : Nat, date : Nat]]
      /\ work \in [Workers -> WorkRecord]
  BY DEF TypeOK
<1>1. /\ k \in Keys /\ t \in Scopes /\ PtsCount[k] \in Nat /\ row' = row
      /\ lock = Free
  <2>1. work[w] \in WorkRecord /\ work[w].stage # "idle"
    BY <1>0 DEF Allocate
  <2>2. k \in Keys
    BY <2>1, BusyRecord
  <2> QED BY <2>2 DEF Allocate
<1>2. /\ work'[w].stage = "create" /\ work'[w].key = k
      /\ work'[w].held.pts = BasePts(t) + PtsCount[k]
      /\ \A v \in Workers \ {w} : work'[v] = work[v]
  BY <1>0 DEF Allocate, Becomes
<1>3. BasePts(s) \in Nat /\ BasePts(t) \in Nat /\ BasePts(t) # 0
  BY <1>0, <1>1, BaseIsNat DEF BasePts, Scopes
<1>4. /\ t = Account => account'.pts = BasePts(t) + PtsCount[k] /\ channel' = channel
      /\ t # Account => /\ account'.pts = account.pts
                        /\ channel'[t].pts = BasePts(t) + PtsCount[k]
                        /\ \A c \in Channels : c # t => channel'[c] = channel[c]
  BY <1>0, <1>1 DEF Allocate, Scopes
<1>5. BasePts(s)' \in Nat /\ BasePts(s) <= BasePts(s)'
  BY <1>0, <1>1, <1>3, <1>4, DistinctNames DEF BasePts, Scopes
<1>6. ASSUME k \in CountedIn(s) PROVE Fresh(s, u0)
  <2>1. t = s /\ PtsCount[k] > 0
    BY <1>6 DEF CountedIn
  <2>2. /\ u0 \in [name : CountedIn(s), pts : Nat]
        /\ u0.name = k /\ u0.pts = BasePts(s) + PtsCount[k]
    BY <1>1, <1>2, <1>3, <1>6, <2>1 DEF Named
  <2>3. BasePts(s)' = BasePts(s) + PtsCount[k]
    BY <1>1, <1>3, <1>4, <2>1, DistinctNames DEF BasePts
  <2> QED BY <1>1, <1>3, <1>6, <2>1, <2>2, <2>3 DEF Fresh, Low
<1>7. ASSUME NEW stages, NEW u \in HeldAt(s, stages)'
      PROVE  u \in HeldAt(s, stages) \/ (u = u0 /\ k \in CountedIn(s))
  <2>1. PICK v \in Workers : /\ work'[v].stage \in stages /\ work'[v].key \in CountedIn(s)
                             /\ u = Named(work'[v].key, work'[v].held.pts)
    BY <1>7 DEF HeldAt
  <2>2. CASE v = w
    BY <1>2, <2>1, <2>2
  <2>3. CASE v # w
    BY <1>2, <2>1, <2>3 DEF HeldAt
  <2> QED BY <2>2, <2>3
<1>8. ASSUME NEW u \in HeldAt(s, {"send"})' PROVE u \in HeldAt(s, {"send"})
  <2>1. PICK v \in Workers : /\ work'[v].stage \in {"send"} /\ work'[v].key \in CountedIn(s)
                             /\ u = Named(work'[v].key, work'[v].held.pts)
    BY <1>8 DEF HeldAt
  <2>2. v # w
    BY <1>2, <2>1
  <2> QED BY <1>2, <2>1, <2>2 DEF HeldAt
<1>9. InRows(s)' = InRows(s) /\ FinishedIn(s)' = FinishedIn(s)
  BY <1>1 DEF InRows, FinishedIn
<1>10. ASSUME NEW u \in Open(s)' PROVE u \in Open(s) \/ Fresh(s, u)
  <2>1. CASE u \in HeldAt(s, {"create"})'
    BY <1>6, <1>7, <2>1 DEF Open
  <2>2. CASE u \in {Named(j, row[j].pts) : j \in {i \in CountedIn(s) : Pending(i)}}'
    BY <1>1, <2>2 DEF Open, Pending
  <2> QED BY <1>10, <2>1, <2>2 DEF Open
<1>11. ASSUME NEW u \in Taken(s)' PROVE u \in Taken(s) \/ (u = u0 /\ Fresh(s, u))
  BY <1>6, <1>7, <1>9, <1>11 DEF Taken
<1>12. ASSUME NEW u \in Standing(s)' PROVE u \in Standing(s) \/ Fresh(s, u)
  BY <1>6, <1>7, <1>9, <1>12 DEF Standing
<1> QED BY <1>5, <1>8, <1>9, <1>10, <1>11, <1>12 DEF Grows, Sending

(* The row appears with what the call held; the trim only forgets rows. *)
LEMMA CreateGrows ==
    ASSUME NEW s \in Scopes, LogInv, LogInv', NEW w \in Workers, CreateRow(w)
    PROVE  Grows(s)
<1> DEFINE k == work[w].key
           r == work[w].held
<1> USE DEF LogInv, Shape
<1>1. k \in Keys /\ r \in Row /\ lock = w /\ lock' = Free
  <2>1. work[w] \in WorkRecord /\ work[w].stage = "create"
    BY DEF CreateRow, TypeOK
  <2>2. k \in Keys
    BY <2>1, BusyRecord
  <2> QED BY <2>1, <2>2 DEF CreateRow, HeldRow, LockHeld
<1>2. \A j \in Keys : row'[j] # NoRow =>
        \/ j = k /\ row'[j] = r
        \/ j # k /\ row[j] # NoRow /\ row'[j] = row[j]
  <2> DEFINE rows == [row EXCEPT ![k] = r]
  <2>1. row' = Trimmed(rows, Scope[k])
    BY DEF CreateRow
  <2>2. \A j \in Keys : row'[j] \in {NoRow, rows[j]}
    BY <2>1 DEF Trimmed
  <2>3. \A j \in Keys : rows[j] = IF j = k THEN r ELSE row[j]
    BY DEF TypeOK
  <2> QED BY <2>2, <2>3
<1>3. /\ work'[w].stage = "build" /\ work'[w].key = k /\ work'[w].held = r
      /\ \A v \in Workers \ {w} : work'[v] = work[v]
  BY DEF CreateRow, Goes, Becomes, TypeOK
<1>4. BasePts(s)' = BasePts(s) /\ BasePts(s) \in Nat
  BY BaseIsNat DEF BasePts, CreateRow
<1>5. k \in CountedIn(s) =>
        Named(k, r.pts) \in HeldAt(s, {"create"})
          /\ Named(k, r.pts) \in HeldAt(s, {"create", "build", "send"})
  BY <1>1 DEF HeldAt, CreateRow
<1>6. ASSUME NEW u \in InRows(s)' PROVE u \in Standing(s)
  <2>1. PICK j \in CountedIn(s) : row'[j] # NoRow /\ u = Named(j, row'[j].pts)
    BY <1>6 DEF InRows
  <2>2. CASE j = k
    BY <1>2, <1>5, <2>1, <2>2 DEF Standing, CountedIn
  <2>3. CASE j # k
    BY <1>2, <2>1, <2>3 DEF Standing, InRows, CountedIn
  <2> QED BY <2>2, <2>3
<1>7. ASSUME NEW u \in HeldAt(s, {"create", "build", "send"})' PROVE u \in Taken(s)
  <2>1. PICK v \in Workers : /\ work'[v].stage \in {"create", "build", "send"}
                             /\ work'[v].key \in CountedIn(s)
                             /\ u = Named(work'[v].key, work'[v].held.pts)
    BY <1>7 DEF HeldAt
  <2>2. CASE v = w
    BY <1>3, <1>5, <2>1, <2>2 DEF Taken
  <2>3. CASE v # w
    BY <1>3, <2>1, <2>3 DEF Taken, HeldAt
  <2> QED BY <2>2, <2>3
<1>8. HeldAt(s, {"create"})' = {}
  <2>1. \A v \in Workers : work'[v].stage # "create"
    BY <1>1, DistinctNames DEF LockHeld
  <2> QED BY <2>1 DEF HeldAt
<1>9. ASSUME NEW u \in Open(s)' PROVE u \in Open(s)
  <2>1. PICK j \in CountedIn(s) : Pending(j)' /\ u = Named(j, row'[j].pts)
    BY <1>8, <1>9 DEF Open
  <2>2. CASE j = k
    BY <1>2, <1>5, <2>1, <2>2 DEF Open, CountedIn, Pending
  <2>3. CASE j # k
    BY <1>2, <2>1, <2>3 DEF Open, CountedIn, Pending
  <2> QED BY <2>2, <2>3
<1>10. ASSUME NEW u \in HeldAt(s, {"send"})' PROVE u \in HeldAt(s, {"send"})
  <2>1. PICK v \in Workers : /\ work'[v].stage \in {"send"} /\ work'[v].key \in CountedIn(s)
                             /\ u = Named(work'[v].key, work'[v].held.pts)
    BY <1>10 DEF HeldAt
  <2>2. v # w
    BY <1>3, <2>1
  <2> QED BY <1>3, <2>1, <2>2 DEF HeldAt
<1>11. ASSUME NEW u \in FinishedIn(s)'
       PROVE  \/ u \in FinishedIn(s)
              \/ u = Named(k, r.pts) /\ u \in Open(s) /\ u \notin Open(s)'
  <2>1. PICK j \in Keys : /\ row'[j] # NoRow /\ Scope[j] = s /\ row'[j].payload # 0
                          /\ PtsCount[j] > 0 /\ u = Named(j, row'[j].pts)
    BY <1>11 DEF FinishedIn
  <2>2. CASE j = k
    <3>1. u = Named(k, r.pts) /\ k \in CountedIn(s)
      BY <1>2, <2>1, <2>2 DEF CountedIn
    <3>2. u \notin Open(s)'
      <4> SUFFICES ASSUME NEW i \in CountedIn(s), Pending(i)', u = Named(i, row'[i].pts)
                   PROVE  FALSE
        BY <1>8 DEF Open
      <4>1. i = k
        BY <3>1 DEF Named
      <4> QED BY <2>1, <2>2, <4>1 DEF Pending
    <3> QED BY <1>5, <3>1, <3>2 DEF Open
  <2>3. CASE j # k
    BY <1>2, <2>1, <2>3 DEF FinishedIn
  <2> QED BY <2>2, <2>3
<1>12. Standing(s) \subseteq Taken(s)
  BY DEF Standing, Taken, HeldAt
<1> QED
  BY <1>4, <1>6, <1>7, <1>8, <1>9, <1>10, <1>11, <1>12 DEF Grows, Taken, Sending, Standing

(* The payload finishes the row of its key, whoever holds that. *)
LEMMA StoreGrows ==
    ASSUME NEW s \in Scopes, LogInv, TakenBelow(s), NEW w \in Workers, StorePayload(w)
    PROVE  Grows(s)
<1> DEFINE k == work[w].key
           r == work[w].held
<1> USE DEF LogInv, Shape
<1>1. k \in Keys /\ r \in Row /\ lock = Free
  <2>1. work[w] \in WorkRecord /\ work[w].stage = "build"
    BY DEF StorePayload, TypeOK
  <2>2. k \in Keys
    BY <2>1, BusyRecord
  <2> QED BY <2>1, <2>2 DEF StorePayload, HeldRow
<1>2. /\ \A j \in Keys : j # k => row'[j] = row[j]
      /\ row[k] = NoRow => row'[k] = NoRow
      /\ row[k] # NoRow => /\ row[k] \in Row /\ row'[k] # NoRow
                           /\ row'[k].pts = row[k].pts /\ row'[k].payload = r.pts
  <2>1. row \in [Keys -> Row \cup {NoRow}]
    BY DEF TypeOK
  <2>2. row[k] # NoRow => [row[k] EXCEPT !.payload = r.pts] \in Row
    BY <1>1, <2>1 DEF Row
  <2>3. NoRow \notin Row
    BY DistinctNames DEF Row
  <2>4. row[k] # NoRow => row'[k] = [row[k] EXCEPT !.payload = r.pts]
    BY <1>1, <2>1 DEF StorePayload
  <2>5. row[k] # NoRow => row[k] \in Row
    BY <1>1, <2>1
  <2>6. row[k] # NoRow => row'[k].pts = row[k].pts /\ row'[k].payload = r.pts
    BY <2>4, <2>5 DEF Row
  <2> QED BY <1>1, <2>1, <2>2, <2>3, <2>4, <2>5, <2>6 DEF StorePayload
<1>3. /\ work'[w].stage = "send" /\ work'[w].key = k /\ work'[w].held = r
      /\ \A v \in Workers \ {w} : work'[v] = work[v]
  BY DEF StorePayload, Goes, Becomes, TypeOK
<1>4. BasePts(s)' = BasePts(s) /\ BasePts(s) \in Nat
  BY BaseIsNat DEF BasePts, StorePayload
<1>5. k \in CountedIn(s) => Named(k, r.pts) \in Taken(s) /\ r.pts # 0
  <2> SUFFICES ASSUME k \in CountedIn(s) PROVE Named(k, r.pts) \in Taken(s) /\ r.pts # 0
    OBVIOUS
  <2>1. Named(k, r.pts) \in Taken(s)
    BY <1>1 DEF HeldAt, Taken, StorePayload
  <2> QED BY <2>1 DEF TakenBelow, Named
<1>6. InRows(s)' \subseteq InRows(s)
  BY <1>1, <1>2 DEF InRows, CountedIn
<1>7. ASSUME NEW u \in HeldAt(s, {"create", "build", "send"})' PROVE u \in Taken(s)
  <2>1. PICK v \in Workers : /\ work'[v].stage \in {"create", "build", "send"}
                             /\ work'[v].key \in CountedIn(s)
                             /\ u = Named(work'[v].key, work'[v].held.pts)
    BY <1>7 DEF HeldAt
  <2>2. CASE v = w
    BY <1>3, <1>5, <2>1, <2>2
  <2>3. CASE v # w
    BY <1>3, <2>1, <2>3 DEF Taken, HeldAt
  <2> QED BY <2>2, <2>3
<1>8. HeldAt(s, {"create"})' = {}
  <2>1. \A v \in Workers : work'[v].stage # "create"
    BY <1>1, <1>3, DistinctNames DEF LockHeld
  <2> QED BY <2>1 DEF HeldAt
<1>9. ASSUME NEW u \in Open(s)'
      PROVE  u \in Open(s) /\ u.name # k
  <2>1. PICK j \in CountedIn(s) : Pending(j)' /\ u = Named(j, row'[j].pts)
    BY <1>8, <1>9 DEF Open
  <2>2. j # k
    BY <1>2, <1>5, <2>1 DEF Pending
  <2> QED BY <1>2, <2>1, <2>2 DEF Open, CountedIn, Pending, Named
<1>10. ASSUME NEW u \in HeldAt(s, {"send"})'
       PROVE  u \in HeldAt(s, {"send"}) \/ (u \in Taken(s) /\ u \notin Open(s)')
  <2>1. PICK v \in Workers : /\ work'[v].stage \in {"send"} /\ work'[v].key \in CountedIn(s)
                             /\ u = Named(work'[v].key, work'[v].held.pts)
    BY <1>10 DEF HeldAt
  <2>2. CASE v = w
    BY <1>3, <1>5, <1>9, <2>1, <2>2 DEF Named
  <2>3. CASE v # w
    BY <1>3, <2>1, <2>3 DEF HeldAt
  <2> QED BY <2>2, <2>3
<1>11. ASSUME NEW u \in FinishedIn(s)'
       PROVE  \/ u \in FinishedIn(s)
              \/ u = Named(k, row[k].pts) /\ u \in Open(s) /\ u \notin Open(s)'
  <2>1. PICK j \in Keys : /\ row'[j] # NoRow /\ Scope[j] = s /\ row'[j].payload # 0
                          /\ PtsCount[j] > 0 /\ u = Named(j, row'[j].pts)
    BY <1>11 DEF FinishedIn
  <2>2. CASE j # k
    BY <1>2, <2>1, <2>2 DEF FinishedIn
  <2>3. CASE j = k /\ row[k].payload # 0
    BY <1>2, <2>1, <2>3 DEF FinishedIn
  <2>4. CASE j = k /\ row[k].payload = 0
    <3>1. u = Named(k, row[k].pts) /\ u \in Open(s)
      BY <1>2, <2>1, <2>4 DEF Open, CountedIn, Pending
    <3> QED BY <1>9, <3>1 DEF Named
  <2> QED BY <2>2, <2>3, <2>4
<1> QED
  BY <1>4, <1>6, <1>7, <1>8, <1>9, <1>10, <1>11 DEF Grows, Taken, Sending, Standing

(* An RPC's reservation takes pts that no update has. *)
LEMMA AdvanceGrows ==
    ASSUME NEW s \in Scopes, LogInv, NEW t \in Scopes, NEW d \in RpcDates, AdvancePts(t, d)
    PROVE  Grows(s) /\ FinishedIn(s)' \subseteq FinishedIn(s)
<1> USE ConstantTypes DEF LogInv, Shape
<1>1. row' = row /\ work' = work
  BY DEF AdvancePts
<1>2. /\ account \in [pts : Nat, seq : Nat, date : Nat]
      /\ channel \in [Channels -> [pts : Nat, date : Nat]]
  BY DEF TypeOK
<1>3. /\ account'.pts \in {account.pts, account.pts + 1}
      /\ \A c \in Channels : \/ channel'[c] = channel[c]
                            \/ channel'[c].pts = BasePts(c) + 1
  BY <1>2 DEF AdvancePts, Scopes
<1>4. BasePts(s) \in Nat /\ BasePts(s)' \in Nat /\ BasePts(s) <= BasePts(s)'
  BY <1>2, <1>3, BaseIsNat, DistinctNames DEF BasePts, Scopes
<1>5. /\ Taken(s)' = Taken(s) /\ Open(s)' = Open(s) /\ Sending(s)' = Sending(s)
      /\ Standing(s)' = Standing(s) /\ FinishedIn(s)' = FinishedIn(s)
  BY <1>1 DEF Taken, Standing, Open, Sending, FinishedIn, InRows, HeldAt, Pending
<1> QED BY <1>4, <1>5 DEF Grows

\* The other steps of the log take no pts and finish no row.
QuietStep ==
    \/ \E w \in Workers, k \in Keys : Start(w, k)
    \/ \E w \in Workers : \/ Reclaim(w) \/ CreateFails(w) \/ Abort(w) \/ Release(w)
                          \/ MarkPublished(w)
    \/ \E w \in Workers, reached \in BOOLEAN : Sent(w, reached)
    \/ \E k \in Keys : GraceElapses(k) \/ DiscardAbandoned(k) \/ ReaderMarks(k)
    \/ \E d \in Cutoffs : PruneExpired(d)
    \/ Crash
    \/ UNCHANGED vars

(* They keep what rows and calls hold. *)
LEMMA QuietStays == ASSUME Shape, QuietStep PROVE StaysPut
<1> USE ConstantTypes DEF Shape
<1>0. /\ work \in [Workers -> WorkRecord]
      /\ row \in [Keys -> Row \cup {NoRow}]
  BY DEF TypeOK
<1>row. \A k \in Keys : row[k] # NoRow => row[k] \in Row
  BY <1>0
<1>key. \A w \in Workers : Busy(w) => work[w].key \in Keys
  BY <1>0, BusyRecord DEF Busy
<1>1. ASSUME UNCHANGED row PROVE \A k \in Keys : RowStays(k)
  BY <1>1 DEF RowStays
<1>2. ASSUME UNCHANGED work PROVE \A w \in Workers : WorkStays(w)
  BY <1>2 DEF WorkStays
<1>3. ASSUME NEW w \in Workers,
             \/ Ends(w)
             \/ \E stage \in {"reserve", "mark", "release"} : \E k, held, claimed :
                   Becomes(w, stage, k, held, claimed)
      PROVE  \A v \in Workers : WorkStays(v)
  <2>1. /\ work'[w].stage \notin {"create", "build", "send"}
        /\ \A v \in Workers \ {w} : work'[v] = work[v]
    BY <1>0, <1>3, IdleRecord DEF Ends, Becomes
  <2> QED BY <2>1 DEF WorkStays
<1>4. ASSUME NEW w \in Workers, NEW k \in Keys, NEW r \in Row, NEW claimed,
             row[k] # NoRow, SameRow(r, row[k]), Becomes(w, "build", k, r, claimed)
      PROVE  \A v \in Workers : WorkStays(v)
  <2>1. /\ work'[w].stage = "build" /\ work'[w].key = k /\ work'[w].held = r
        /\ \A v \in Workers \ {w} : work'[v] = work[v]
    BY <1>0, <1>4 DEF Becomes
  <2> QED BY <1>4, <2>1 DEF WorkStays, SameRow
<1>5. ASSUME NEW k \in Keys, Published(k) PROVE \A j \in Keys : RowStays(j)
  <2>1. ASSUME NEW r \in Row
        PROVE  LET new == [r EXCEPT !.published = TRUE]
               IN  SameRow(new, r) /\ new.date = r.date /\ new.payload = r.payload
    BY DEF Row, SameRow
  <2> QED BY <1>0, <1>row, <1>5, <2>1 DEF Published, RowStays, SameRow
<1>6. ASSUME NEW k \in Keys, NEW f \in BOOLEAN, row[k] # NoRow,
             row' = [row EXCEPT ![k] = [row[k] EXCEPT !.fresh = f]]
      PROVE  \A j \in Keys : RowStays(j)
  <2>1. row[k] \in Row
    BY <1>6, <1>row
  <2>2. LET new == [row[k] EXCEPT !.fresh = f]
        IN  /\ SameRow(new, row[k])
            /\ new.date = row[k].date /\ new.payload = row[k].payload
    BY <2>1 DEF Row, SameRow
  <2> QED BY <1>0, <1>6, <2>2 DEF RowStays, SameRow
<1>7. ASSUME NEW w \in Workers, NEW k \in Keys, Start(w, k)
      PROVE  UNCHANGED row /\ \A v \in Workers : WorkStays(v)
  <2>1. CASE UNCHANGED work
    BY <1>2, <1>7, <2>1 DEF Start
  <2>2. CASE Becomes(w, "reserve", k, NoRow, FALSE)
    BY <1>3, <1>7, <2>2 DEF Start
  <2>3. CASE row[k] # NoRow /\ Becomes(w, "build", k, row[k], FALSE)
    BY <1>4, <1>7, <1>row, <2>3 DEF Start, SameRow
  <2> QED BY <1>7, <2>1, <2>2, <2>3 DEF Start
<1>8. ASSUME NEW w \in Workers, Reclaim(w)
      PROVE  (\A k \in Keys : RowStays(k)) /\ \A v \in Workers : WorkStays(v)
  <2> DEFINE k == work[w].key
             r == [row[k] EXCEPT !.fresh = TRUE]
  <2>1. k \in Keys /\ row[k] # NoRow /\ row[k] \in Row
    BY <1>8, <1>key, <1>row DEF Reclaim, Busy
  <2>2. r \in Row /\ SameRow(r, row[k])
    BY <2>1 DEF Row, SameRow
  <2>3. \A j \in Keys : RowStays(j)
    BY <1>6, <1>8, <2>1 DEF Reclaim
  <2>4. Ends(w) \/ Becomes(w, "build", k, r, TRUE)
    BY <1>8 DEF Reclaim
  <2>5. CASE Ends(w)
    BY <1>3, <2>3, <2>5
  <2>6. CASE Becomes(w, "build", k, r, TRUE)
    BY <1>4, <2>1, <2>2, <2>3, <2>6
  <2> QED BY <2>4, <2>5, <2>6
<1>9. ASSUME NEW w \in Workers, CreateFails(w) \/ Abort(w)
      PROVE  UNCHANGED row /\ \A v \in Workers : WorkStays(v)
  BY <1>3, <1>9 DEF CreateFails, Abort, Goes
<1>10. ASSUME NEW w \in Workers, Release(w)
       PROVE  (\A k \in Keys : RowStays(k)) /\ \A v \in Workers : WorkStays(v)
  BY <1>0, <1>3, <1>10 DEF Release, RowStays
<1>11. ASSUME NEW w \in Workers, MarkPublished(w)
       PROVE  (\A k \in Keys : RowStays(k)) /\ \A v \in Workers : WorkStays(v)
  BY <1>3, <1>5, <1>11, <1>key DEF MarkPublished, Busy
<1>12. ASSUME NEW w \in Workers, NEW reached \in BOOLEAN, Sent(w, reached)
       PROVE  UNCHANGED row /\ \A v \in Workers : WorkStays(v)
  BY <1>3, <1>12 DEF Sent, Goes
<1>13. ASSUME NEW k \in Keys, GraceElapses(k) \/ DiscardAbandoned(k) \/ ReaderMarks(k)
       PROVE  UNCHANGED <<account, channel, work>> /\ \A j \in Keys : RowStays(j)
  <2>1. CASE GraceElapses(k)
    BY <1>6, <2>1 DEF GraceElapses, Pending
  <2>2. CASE DiscardAbandoned(k)
    BY <1>0, <2>2 DEF DiscardAbandoned, RowStays
  <2>3. CASE ReaderMarks(k)
    BY <1>5, <2>3 DEF ReaderMarks
  <2> QED BY <1>13, <2>1, <2>2, <2>3
<1>14. ASSUME NEW d \in Cutoffs, PruneExpired(d)
       PROVE  UNCHANGED <<account, channel, work>> /\ \A j \in Keys : RowStays(j)
  BY <1>14 DEF PruneExpired, RowStays
<1>15. CASE Crash
  <2>1. \A w \in Workers : WorkStays(w)
    BY <1>15, IdleRecord DEF Crash, WorkStays
  <2> QED BY <1>1, <1>15, <2>1 DEF Crash, StaysPut
<1>16. CASE UNCHANGED vars
  BY <1>1, <1>2, <1>16 DEF vars, StaysPut
<1>17. ASSUME NEW w \in Workers, NEW k \in Keys, Start(w, k) PROVE StaysPut
  BY <1>1, <1>7, <1>17 DEF Start, StaysPut
<1>18. ASSUME NEW w \in Workers, Reclaim(w) \/ Release(w) \/ MarkPublished(w)
       PROVE  StaysPut
  BY <1>8, <1>10, <1>11, <1>18 DEF Reclaim, Release, MarkPublished, StaysPut
<1>19. ASSUME NEW w \in Workers, CreateFails(w) \/ Abort(w) PROVE StaysPut
  BY <1>1, <1>9, <1>19 DEF CreateFails, Abort, StaysPut
<1>20. ASSUME NEW w \in Workers, NEW reached \in BOOLEAN, Sent(w, reached) PROVE StaysPut
  BY <1>1, <1>12, <1>20 DEF Sent, StaysPut
<1>21. ASSUME NEW k \in Keys, GraceElapses(k) \/ DiscardAbandoned(k) \/ ReaderMarks(k)
       PROVE  StaysPut
  BY <1>2, <1>13, <1>21 DEF StaysPut
<1>22. ASSUME NEW d \in Cutoffs, PruneExpired(d) PROVE StaysPut
  BY <1>2, <1>14, <1>22 DEF StaysPut
<1> QED
  BY <1>15, <1>16, <1>17, <1>18, <1>19, <1>20, <1>21, <1>22 DEF QuietStep

(* Every step of the log keeps or extends what is taken. *)
LEMMA LogGrows ==
    ASSUME NEW s \in Scopes, LogInv, LogInv', TakenBelow(s), [Next]_vars
    PROVE  Grows(s)
<1>1. ASSUME NEW w \in Workers, Allocate(w) \/ CreateRow(w) \/ StorePayload(w)
      PROVE  Grows(s)
  BY <1>1, AllocateGrows, CreateGrows, StoreGrows
<1>2. ASSUME NEW t \in Scopes, NEW d \in RpcDates, AdvancePts(t, d) PROVE Grows(s)
  BY <1>2, AdvanceGrows
<1>3. CASE QuietStep
  BY <1>3, QuietStays, QuietGrows DEF LogInv
<1> QED
  BY <1>1, <1>2, <1>3 DEF Next, Publishing, Step, Upkeep, QuietStep

----------------------------------------------------------------------------
\* The rows of a scope as a difference reads them.

(* An entry carries the pts and seq of the row it is made of. *)
LEMMA EntryTypes ==
    ASSUME Shape, NEW k \in Keys, row[k] # NoRow, NEW at \in Nat \X Nat
    PROVE  LET e == Entry(k, at)
           IN  /\ e \in EntryOf /\ e.key = k /\ e.at = at
               /\ e.pts = row[k].pts /\ e.seq = row[k].seq
               /\ e.ready <=> row[k].payload # 0
<1>1. row[k] \in Row
  BY DEF Shape, TypeOK
<1> QED BY <1>1 DEF Entry, EntryOf, Row

(* The rows behind a pts are finitely many entries of the scope. *)
LEMMA RowsRead ==
    ASSUME Shape, IsFiniteSet(Keys), NEW s, NEW pts
    PROVE  /\ RowsAfter(s, pts) \in SUBSET EntryOf
           /\ IsFiniteSet(RowsAfter(s, pts))
           /\ \A e \in RowsAfter(s, pts) :
                 \E k \in Keys : /\ row[k] # NoRow /\ Scope[k] = s
                               /\ e = Entry(k, <<row[k].pts, row[k].seq>>)
                               /\ <<row[k].pts, row[k].seq>> \in Nat \X Nat
<1> DEFINE keys == {j \in Keys : row[j] # NoRow /\ Scope[j] = s /\ row[j].pts > pts}
           f == [k \in keys |-> Entry(k, <<row[k].pts, row[k].seq>>)]
<1>1. ASSUME NEW k \in keys PROVE <<row[k].pts, row[k].seq>> \in Nat \X Nat
  <2>1. row[k] \in Row
    BY DEF Shape, TypeOK
  <2> QED BY <2>1 DEF Row
<1>2. ASSUME NEW e \in RowsAfter(s, pts)
      PROVE  \E k \in keys : e = Entry(k, <<row[k].pts, row[k].seq>>)
  BY <1>2 DEF RowsAfter
<1>3. IsFiniteSet(keys)
  <2>1. keys \in SUBSET Keys
    OBVIOUS
  <2> HIDE DEF keys
  <2> QED BY <2>1, FS_Subset
<1>4. f \in Surjection(keys, RowsAfter(s, pts))
  BY DEF Surjection, RowsAfter
<1>5. IsFiniteSet(RowsAfter(s, pts))
  <2> HIDE DEF keys, f
  <2> QED BY <1>3, <1>4, FS_Surjection
<1>6. RowsAfter(s, pts) \in SUBSET EntryOf
  <2> SUFFICES ASSUME NEW e \in RowsAfter(s, pts) PROVE e \in EntryOf
    OBVIOUS
  <2>1. PICK k \in keys : e = Entry(k, <<row[k].pts, row[k].seq>>)
    BY <1>2
  <2> QED BY <1>1, <2>1, EntryTypes
<1> QED BY <1>1, <1>2, <1>5, <1>6

----------------------------------------------------------------------------
\* Two invariants of the log alone.

\* The pts ranges of the updates of a scope that rows or calls stand for.
Separate(s) ==
    /\ TakenBelow(s)
    /\ \A u, v \in Taken(s) : u = v \/ u.pts <= Low(v) \/ v.pts <= Low(u)

(* Every update that is taken or fresh has a range of at least one pts. *)
LEMMA TakenRanges ==
    ASSUME NEW s \in Scopes, Shape
    PROVE  /\ \A u \in Taken(s) : /\ u.name \in CountedIn(s) /\ u.pts \in Nat
                                 /\ Low(u) < u.pts /\ Low(u) \in Int
           /\ \A u : Fresh(s, u) => u.pts \in Nat /\ Low(u) < u.pts /\ Low(u) \in Int
           /\ Standing(s) \subseteq Taken(s)
<1>1. \A k \in CountedIn(s) : k \in Keys /\ PtsCount[k] \in Nat /\ PtsCount[k] > 0
  BY ConstantTypes DEF CountedIn
<1>2. \A u \in Taken(s) : u.name \in CountedIn(s) /\ u.pts \in Nat
  BY TakenTypes
<1>3. \A u : Fresh(s, u) => u.pts \in Nat /\ u.name \in CountedIn(s)
  BY DEF Fresh
<1>4. Standing(s) \subseteq Taken(s)
  BY DEF Standing, Taken, HeldAt
<1> QED BY <1>1, <1>2, <1>3, <1>4 DEF Low

(* Ranges stay disjoint while the log grows. *)
LEMMA SeparateKept ==
    ASSUME NEW s \in Scopes, LogInv, LogInv', Separate(s), Grows(s)
    PROVE  Separate(s)'
<1>1. /\ Shape /\ BasePts(s) \in Nat /\ BasePts(s)' \in Nat /\ BasePts(s) <= BasePts(s)'
  BY BaseIsNat DEF LogInv, Shape, Grows
<1>2. /\ \A u \in Taken(s) : u.pts \in Nat /\ Low(u) < u.pts /\ Low(u) \in Int
      /\ \A u : Fresh(s, u) => u.pts \in Nat /\ Low(u) < u.pts /\ Low(u) \in Int
  BY <1>1, TakenRanges
<1>3. \A u \in Taken(s) : u.pts <= BasePts(s) /\ u.pts # 0
  BY DEF Separate, TakenBelow
<1>4. \A u \in Taken(s)' : u \in Taken(s) \/ (Fresh(s, u) /\ u \in Taken(s)' \ Taken(s))
  BY DEF Grows
<1>5. TakenBelow(s)'
  <2>1. \A u \in Taken(s)' : u.pts <= BasePts(s)' /\ u.pts # 0
    BY <1>1, <1>2, <1>3, <1>4 DEF Fresh
  <2> QED BY <2>1 DEF TakenBelow
<1>6. \A u, v \in Taken(s)' : u = v \/ u.pts <= Low(v) \/ v.pts <= Low(u)
  <2> SUFFICES ASSUME NEW u \in Taken(s)', NEW v \in Taken(s)'
               PROVE  u = v \/ u.pts <= Low(v) \/ v.pts <= Low(u)
    OBVIOUS
  <2>1. CASE u \in Taken(s) /\ v \in Taken(s)
    BY <2>1 DEF Separate
  <2>2. CASE u \in Taken(s) /\ Fresh(s, v)
    BY <1>1, <1>2, <1>3, <2>2 DEF Fresh
  <2>3. CASE Fresh(s, u) /\ v \in Taken(s)
    BY <1>1, <1>2, <1>3, <2>3 DEF Fresh
  <2>4. CASE u \in Taken(s)' \ Taken(s) /\ v \in Taken(s)' \ Taken(s)
    BY <2>4 DEF Grows
  <2> QED BY <1>4, <2>1, <2>2, <2>3, <2>4
<1> QED BY <1>5, <1>6 DEF Separate, Low

\* No row and no call that may still store or send one has pts or seq 0.
Numbered ==
    /\ \A k \in Keys : row[k] # NoRow => row[k].pts # 0 /\ row[k].seq # 0
    /\ \A w \in Workers : work[w].stage \in {"create", "build", "send"} =>
          work[w].held.pts # 0 /\ work[w].held.seq # 0

(* Reservations count up from the pts 1 and the seq 0 of a new session. *)
LEMMA NumberedKept ==
    ASSUME LogInv, Numbered, [Next]_vars
    PROVE  Numbered'
<1> USE ConstantTypes DEF LogInv, Shape
<1>0. /\ account \in [pts : Nat, seq : Nat, date : Nat]
      /\ channel \in [Channels -> [pts : Nat, date : Nat]]
      /\ work \in [Workers -> WorkRecord]
      /\ row \in [Keys -> Row \cup {NoRow}]
  BY DEF TypeOK
<1>key. \A w \in Workers : Busy(w) => work[w].key \in Keys
  BY <1>0, BusyRecord DEF Busy
<1>1. CASE QuietStep
  <2>1. StaysPut
    BY <1>1, QuietStays
  <2> QED BY <2>1 DEF StaysPut, RowStays, WorkStays, Numbered
<1>2. ASSUME NEW w \in Workers, Allocate(w) PROVE Numbered'
  <2> DEFINE k == work[w].key
  <2>1. k \in Keys /\ Scope[k] \in Scopes /\ PtsCount[k] \in Nat
    BY <1>2, <1>key DEF Allocate, Busy
  <2>2. BasePts(Scope[k]) \in Nat /\ BasePts(Scope[k]) # 0
    BY <1>0, <2>1 DEF BasePts, Scopes
  <2>3. /\ work'[w].held.pts = BasePts(Scope[k]) + PtsCount[k]
        /\ work'[w].held.seq = account.seq + 1
        /\ \A v \in Workers \ {w} : work'[v] = work[v]
        /\ row' = row
    BY <1>0, <1>2 DEF Allocate, Becomes
  <2>4. work'[w].held.pts # 0 /\ work'[w].held.seq # 0
    BY <1>0, <2>1, <2>2, <2>3
  <2> QED BY <2>3, <2>4 DEF Numbered
<1>3. ASSUME NEW w \in Workers, CreateRow(w) PROVE Numbered'
  <2> DEFINE k == work[w].key
             rows == [row EXCEPT ![k] = work[w].held]
  <2>1. row' = Trimmed(rows, Scope[k]) /\ work[w].stage = "create"
    BY <1>3 DEF CreateRow
  <2>2. \A j \in Keys : row'[j] \in {NoRow, rows[j]}
    BY <2>1 DEF Trimmed
  <2>3. \A j \in Keys : rows[j] \in {work[w].held, row[j]}
    BY <1>0
  <2>4. /\ work'[w].held = work[w].held
        /\ \A v \in Workers \ {w} : work'[v] = work[v]
    BY <1>0, <1>3 DEF CreateRow, Goes, Becomes
  <2> HIDE DEF rows
  <2> QED BY <2>1, <2>2, <2>3, <2>4 DEF Numbered
<1>4. ASSUME NEW w \in Workers, StorePayload(w) PROVE Numbered'
  <2> DEFINE k == work[w].key
  <2>1. ASSUME NEW r \in Row, NEW p PROVE SameRow([r EXCEPT !.payload = p], r)
    BY DEF Row, SameRow
  <2>2. \A j \in Keys : row'[j] # NoRow => row[j] # NoRow /\ SameRow(row'[j], row[j])
    BY <1>0, <1>4, <2>1 DEF StorePayload, SameRow
  <2>3. /\ work'[w].held = work[w].held /\ work[w].stage = "build"
        /\ \A v \in Workers \ {w} : work'[v] = work[v]
    BY <1>0, <1>4 DEF StorePayload, Goes, Becomes
  <2> QED BY <2>2, <2>3 DEF Numbered, SameRow
<1>5. ASSUME NEW t \in Scopes, NEW d \in RpcDates, AdvancePts(t, d) PROVE Numbered'
  BY <1>5 DEF AdvancePts, Numbered
<1> QED
  BY <1>1, <1>2, <1>3, <1>4, <1>5 DEF Next, Publishing, Step, Upkeep, QuietStep

----------------------------------------------------------------------------
\* Dates.

\* The step does not take the account's date back, as advancePts does when an RPC
\* reserves pts with an older date (message-store.ts:1900).
DatesForward == account.date <= account'.date

\* A row after the step was there before, or a call was about to insert it; a call
\* that begins to insert one has just reserved it.
Originates ==
    /\ \A k \in Keys : row'[k] # NoRow =>
          \/ row[k] # NoRow /\ SameRow(row'[k], row[k]) /\ row'[k].date = row[k].date
          \/ \E w \in Workers : /\ work[w].stage = "create" /\ work[w].key = k
                               /\ work'[w].stage # "create" /\ row'[k] = work[w].held
    /\ \A w \in Workers : work'[w].stage = "create" =>
          \/ work'[w] = work[w]
          \/ /\ account.date <= work'[w].held.date /\ work'[w].held.date <= account'.date
             /\ work'[w].held.pts = BasePts(Scope[work'[w].key]) + PtsCount[work'[w].key]
             /\ row' = row

(* Rows keep their pts, seq and date; a reservation counts on from its scope's pts and is
   dated by the account, or later. *)
LEMMA RowOrigins == ASSUME LogInv, [Next]_vars PROVE Originates
<1> USE ConstantTypes DEF LogInv, Shape
<1>0. /\ account \in [pts : Nat, seq : Nat, date : Nat]
      /\ work \in [Workers -> WorkRecord]
      /\ row \in [Keys -> Row \cup {NoRow}]
  BY DEF TypeOK
<1>key. \A w \in Workers : Busy(w) => work[w].key \in Keys
  BY <1>0, BusyRecord DEF Busy
<1>1. ASSUME QuietStep PROVE Originates
  <2>1. StaysPut
    BY <1>1, QuietStays
  <2> QED BY <2>1 DEF StaysPut, RowStays, WorkStays, SameRow, Originates
<1>2. ASSUME NEW w \in Workers, Allocate(w)
      PROVE  /\ row' = row /\ \A v \in Workers \ {w} : work'[v] = work[v]
             /\ account.date <= work'[w].held.date /\ work'[w].held.date <= account'.date
             /\ work'[w].held.pts = BasePts(Scope[work'[w].key]) + PtsCount[work'[w].key]
  <2> DEFINE k == work[w].key
  <2>1. k \in Keys /\ Stamp[k] \in Nat /\ Scope[k] \in Scopes /\ PtsCount[k] \in Nat
    BY <1>2, <1>key DEF Allocate, Busy
  <2>2. /\ work'[w].held.date = Max2(account.date, Stamp[k])
        /\ work'[w].key = k /\ work'[w].held.pts = BasePts(Scope[k]) + PtsCount[k]
        /\ account'.date = Max2(account.date, Stamp[k])
        /\ \A v \in Workers \ {w} : work'[v] = work[v]
        /\ row' = row
    BY <1>0, <1>2 DEF Allocate, Becomes
  <2> QED BY <1>0, <2>1, <2>2 DEF Max2
<1>3. ASSUME NEW w \in Workers, CreateRow(w)
      PROVE  /\ \A j \in Keys : row'[j] # NoRow =>
                   row'[j] = row[j] \/ (j = work[w].key /\ row'[j] = work[w].held)
             /\ work[w].stage = "create" /\ work'[w].stage # "create"
             /\ \A v \in Workers \ {w} : work'[v] = work[v]
  <2> DEFINE k == work[w].key
             rows == [row EXCEPT ![k] = work[w].held]
  <2>1. row' = Trimmed(rows, Scope[k]) /\ work[w].stage = "create"
    BY <1>3 DEF CreateRow
  <2>2. \A j \in Keys : row'[j] \in {NoRow, rows[j]}
    BY <2>1 DEF Trimmed
  <2>3. \A j \in Keys : rows[j] = row[j] \/ (j = k /\ rows[j] = work[w].held)
    BY <1>0
  <2>4. /\ work'[w].stage = "build"
        /\ \A v \in Workers \ {w} : work'[v] = work[v]
    BY <1>0, <1>3 DEF CreateRow, Goes, Becomes
  <2> HIDE DEF rows
  <2> QED BY <2>1, <2>2, <2>3, <2>4
<1>4. ASSUME NEW w \in Workers, StorePayload(w)
      PROVE  /\ \A j \in Keys : row'[j] # NoRow =>
                   row[j] # NoRow /\ SameRow(row'[j], row[j]) /\ row'[j].date = row[j].date
             /\ \A v \in Workers : work'[v].stage = "create" => work'[v] = work[v]
  <2>1. ASSUME NEW r \in Row, NEW p
        PROVE  LET new == [r EXCEPT !.payload = p]
               IN  SameRow(new, r) /\ new.date = r.date
    BY DEF Row, SameRow
  <2>2. \A j \in Keys : row'[j] # NoRow =>
          row[j] # NoRow /\ SameRow(row'[j], row[j]) /\ row'[j].date = row[j].date
    BY <1>0, <1>4, <2>1 DEF StorePayload, SameRow
  <2>3. /\ work'[w].stage = "send"
        /\ \A v \in Workers \ {w} : work'[v] = work[v]
    BY <1>0, <1>4 DEF StorePayload, Goes, Becomes
  <2> QED BY <2>2, <2>3
<1>5. ASSUME NEW t \in Scopes, NEW d \in RpcDates, AdvancePts(t, d)
      PROVE  UNCHANGED <<row, work>>
  BY <1>5 DEF AdvancePts
<1> QED
  <2>1. ASSUME NEW w \in Workers, Allocate(w) PROVE Originates
    BY <1>2, <2>1 DEF Originates, SameRow
  <2>2. ASSUME NEW w \in Workers, CreateRow(w) PROVE Originates
    BY <1>3, <2>2 DEF Originates, SameRow
  <2>3. ASSUME NEW w \in Workers, StorePayload(w) PROVE Originates
    BY <1>4, <2>3 DEF Originates
  <2>4. ASSUME NEW t \in Scopes, NEW d \in RpcDates, AdvancePts(t, d) PROVE Originates
    BY <1>5, <2>4 DEF Originates, SameRow
  <2> QED
    BY <1>1, <2>1, <2>2, <2>3, <2>4 DEF Next, Publishing, Step, Upkeep, QuietStep

\* The key's row has pts p or counts from q on, as its reservations do.
ReservedAt(k, p, q) ==
    /\ row[k] # NoRow => row[k].pts = p \/ q <= row[k].pts - PtsCount[k]
    /\ \A w \in Workers : work[w].stage = "create" /\ work[w].key = k =>
          q <= work[w].held.pts - PtsCount[k]

(* A key reserved anew counts from the scope's pts of that time on. *)
LEMMA ReservedStays ==
    ASSUME LogInv, [Next]_vars, NEW k \in Keys, NEW p,
           NEW q \in Nat, q <= BasePts(Scope[k]), ReservedAt(k, p, q)
    PROVE  ReservedAt(k, p, q)'
<1>1. Originates
  BY RowOrigins
<1>2. BasePts(Scope[k]) \in Nat /\ PtsCount[k] \in Nat
  BY ConstantTypes, BaseIsNat DEF LogInv, Shape
<1>3. row'[k] # NoRow => row'[k].pts = p \/ q <= row'[k].pts - PtsCount[k]
  BY <1>1 DEF Originates, ReservedAt, SameRow
<1>4. ASSUME NEW w \in Workers, work'[w].stage = "create", work'[w].key = k
      PROVE  q <= work'[w].held.pts - PtsCount[k]
  <2>1. CASE work'[w] = work[w]
    BY <1>4, <2>1 DEF ReservedAt
  <2>2. CASE work'[w].held.pts = BasePts(Scope[k]) + PtsCount[k]
    BY <1>2, <2>2
  <2> QED BY <1>1, <1>4, <2>1, <2>2 DEF Originates
<1> QED BY <1>3, <1>4 DEF ReservedAt

\* What has been reserved is not dated after the account, and a reservation on its way
\* into the log not before a row.
DatesInv ==
    /\ \A k \in Keys : row[k] # NoRow => row[k].date <= account.date
    /\ \A w \in Workers : work[w].stage = "create" =>
          /\ work[w].held.date <= account.date
          /\ \A k \in Keys : row[k] # NoRow => row[k].date <= work[w].held.date
    /\ DatesFollowSeq

(* A step that does not take the account's date back keeps the order of dates. *)
LEMMA DatesKept ==
    ASSUME LogInv, LogInv', DatesInv, [Next]_vars, DatesForward
    PROVE  DatesInv'
<1> USE DEF LogInv, Shape
<1>0. /\ account.date \in Nat /\ account'.date \in Nat
      /\ \A k \in Keys : row[k] # NoRow => row[k].date \in Nat /\ row[k].seq \in Nat
      /\ \A k \in Keys : row'[k] # NoRow => row'[k].date \in Nat /\ row'[k].seq \in Nat
      /\ \A w \in Workers : work[w].stage = "create" =>
            work[w].held.date \in Nat /\ work[w].held.seq \in Nat
      /\ \A w \in Workers : work'[w].stage = "create" => work'[w].held.date \in Nat
  BY DEF TypeOK, HeldRow, Row
<1>1. Originates /\ account.date <= account'.date
  BY RowOrigins DEF DatesForward
<1>2. \A v, w \in Workers : work[v].stage = "create" /\ work[w].stage = "create" => v = w
  BY DEF LockHeld
<1>3. \A k \in Keys : row'[k] # NoRow => row'[k].date <= account'.date
  BY <1>0, <1>1 DEF Originates, DatesInv
<1>4. ASSUME NEW w \in Workers, work'[w].stage = "create"
      PROVE  /\ work'[w].held.date <= account'.date
             /\ \A k \in Keys : row'[k] # NoRow => row'[k].date <= work'[w].held.date
  <2>1. CASE work'[w] = work[w]
    BY <1>0, <1>1, <1>2, <1>4, <2>1 DEF Originates, DatesInv
  <2>2. CASE /\ account.date <= work'[w].held.date /\ work'[w].held.date <= account'.date
             /\ row' = row
    BY <1>0, <1>4, <2>2 DEF DatesInv
  <2> QED BY <1>1, <1>4, <2>1, <2>2 DEF Originates
<1>5. ASSUME NEW j \in Keys, NEW k \in Keys, row'[j] # NoRow, row'[k] # NoRow,
             row'[j].seq < row'[k].seq
      PROVE  row'[j].date <= row'[k].date
  <2> DEFINE old(i) == row[i] # NoRow /\ SameRow(row'[i], row[i]) /\ row'[i].date = row[i].date
             new(i) == \E w \in Workers : /\ work[w].stage = "create" /\ work[w].key = i
                                          /\ row'[i] = work[w].held
  <2>1. (old(j) \/ new(j)) /\ (old(k) \/ new(k))
    BY <1>1, <1>5 DEF Originates
  <2>2. CASE old(j) /\ old(k)
    BY <1>5, <2>2 DEF DatesInv, DatesFollowSeq, SameRow
  <2>3. CASE old(j) /\ new(k)
    BY <2>3 DEF DatesInv
  <2>4. CASE new(j) /\ old(k)
    <3>1. row[k].seq < row'[j].seq /\ row'[k].seq = row[k].seq
      BY <2>4 DEF CreatesNewest, Newest, SameRow
    <3> QED BY <1>0, <1>5, <3>1
  <2>5. CASE new(j) /\ new(k)
    BY <1>0, <1>2, <1>5, <2>5
  <2> QED BY <2>1, <2>2, <2>3, <2>4, <2>5
<1> QED BY <1>3, <1>4, <1>5 DEF DatesInv, DatesFollowSeq

(* The dates of a session without rows are in order. *)
LEMMA DatesInit == Init => DatesInv
<1> SUFFICES ASSUME Init PROVE DatesInv
  OBVIOUS
<1>1. \A w \in Workers : work[w].stage = "idle"
  BY IdleRecord DEF Init
<1> QED BY <1>1 DEF Init, DatesInv, DatesFollowSeq

(* advancePts is the only step that can date rows out of order: while no RPC takes
   the account's date back, rows are dated in the order of their seq, whatever events
   are stamped with, as the comment at message-store.ts:1940 wants. *)
THEOREM RowsAreDated == Spec /\ [][DatesForward]_vars => []DatesFollowSeq
<1>1. LogInv /\ DatesInv /\ [Next]_vars /\ [DatesForward]_vars => LogInv' /\ DatesInv'
  <2> SUFFICES ASSUME LogInv, DatesInv, [Next]_vars, [DatesForward]_vars
               PROVE  LogInv' /\ DatesInv'
    OBVIOUS
  <2>1. LogInv'
    BY LogInvNext
  <2>2. DatesForward
    <3>1. CASE UNCHANGED vars
      <4>1. account'.date = account.date /\ account.date \in Nat
        BY <3>1 DEF vars, LogInv, Shape, TypeOK
      <4> QED BY <4>1 DEF DatesForward
    <3> QED BY <3>1
  <2> QED BY <2>1, <2>2, DatesKept
<1>2. DatesInv => DatesFollowSeq
  BY DEF DatesInv
<1> QED BY LogInvInit, DatesInit, <1>1, <1>2, PTL DEF Spec
=============================================================================
