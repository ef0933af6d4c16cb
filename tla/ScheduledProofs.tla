--------------------------- MODULE ScheduledProofs ---------------------------
(***************************************************************************)
(* Theorems about ScheduledMessages, for every set of messages, sweeps and *)
(* calls, every lease and retry schedule, and every bound.                 *)
(***************************************************************************)
EXTENDS ScheduledMessages, TLAPS

RowState == [status : Statuses, attempts : Nat, nextAt : Nat, leaseUntil : Nat]
Stages == {"idle", "list", "next", "claim", "take", "send", "publish"}

(* A snapshot of a row is one. *)
LEMMA ReadType ==
  ASSUME row \in [Rows -> RowState], NEW r \in Rows
  PROVE  Read(r) \in Snapshot /\ ReadNow(r) \in Snapshot
  BY DEF Read, ReadNow, Snapshot, RowState, Statuses

(* Every write of a finished or failed send leaves a well-typed table. *)
LEMMA WriteType ==
  ASSUME SchedTypeOK, NEW r \in Rows, NEW new \in RowState,
         new.status # "sending" => new.leaseUntil = 0,
         row' = [row EXCEPT ![r] = new]
  PROVE  /\ row' \in [Rows -> RowState]
         /\ row'[r] = new
         /\ \A q \in Rows \ {r} : row'[q] = row[q]
         /\ \A q \in Rows : row'[q].status # "sending" => row'[q].leaseUntil = 0
  BY DEF SchedTypeOK, RowState

(* The UPDATE of a claim leaves a well-typed table, the row being sent.        *)
LEMMA TakeType ==
  ASSUME SchedTypeOK, NEW w \in Senders, Take(w)
  PROVE  /\ msg[w].id \in Rows
         /\ row' \in [Rows -> RowState]
         /\ row'[msg[w].id].status = "sending"
         /\ \A q \in Rows \ {msg[w].id} : row'[q] = row[q]
         /\ \A q \in Rows : row'[q].status # "sending" => row'[q].leaseUntil = 0
<1> USE SchedAssumption
<1> DEFINE r == msg[w].id
           new == [row[r] EXCEPT !.status = "sending", !.leaseUntil = at[w] + Lease]
<1>1. r \in Rows
  BY DEF Take, SchedTypeOK, Snapshot
<1>2. row \in [Rows -> RowState] /\ at[w] + Lease \in Nat
  BY DEF SchedTypeOK, RowState
<1>3. /\ new \in RowState /\ new.status = "sending"
      /\ row' = [row EXCEPT ![r] = new]
  BY <1>1, <1>2 DEF Take, RowState, Statuses
<1> HIDE DEF new, r
<1>4. /\ row' \in [Rows -> RowState] /\ row'[r] = new
      /\ \A q \in Rows \ {r} : row'[q] = row[q]
      /\ \A q \in Rows : row'[q].status # "sending" => row'[q].leaseUntil = 0
  BY <1>1, <1>3, WriteType
<1> QED BY <1>1, <1>3, <1>4 DEF r

(* What markSent(), reschedule() and release() write is a row without lease. *)
LEMMA RetryType ==
  ASSUME NEW n \in Nat \ {0}, NEW now \in Nat
  PROVE  /\ RetryRow(n, now) \in RowState
         /\ RetryRow(n, now).status \in {"failed", "pending"}
         /\ RetryRow(n, now).leaseUntil = 0
<1> USE SchedAssumption
<1>1. CASE n > Len(Retry)
  BY <1>1 DEF RetryRow, RowState, Statuses
<1>2. CASE ~ n > Len(Retry)
  <2>1. Len(Retry) \in Nat /\ n \in 1 .. Len(Retry)
    BY <1>2
  <2>2. now + Retry[n] \in Nat
    BY <2>1
  <2> QED BY <1>2, <2>2 DEF RetryRow, RowState, Statuses
<1> QED BY <1>1, <1>2

(* A row that is given up stays a row and carries no lease. *)
LEMMA ReleasedType ==
  ASSUME SchedTypeOK, NEW r \in Rows, NEW status \in Statuses
  PROVE  LET new == [row[r] EXCEPT !.status = status, !.leaseUntil = 0]
         IN  /\ SetReleased(r, status) = [row EXCEPT ![r] = new]
             /\ new \in RowState /\ new.status = status /\ new.leaseUntil = 0
  BY DEF SchedTypeOK, RowState, SetReleased, Statuses

(* So does the UPDATE of a delete or of a requeue. *)
LEMMA ChangeType ==
  ASSUME SchedTypeOK, NEW f \in found, Write(f)
  PROVE  /\ f \in Change /\ f.id \in Rows
         /\ row' \in [Rows -> RowState]
         /\ row'[f.id].status = f.status
         /\ \A q \in Rows \ {f.id} : row'[q] = row[q]
         /\ \A q \in Rows : row'[q].status # "sending" => row'[q].leaseUntil = 0
<1> DEFINE r == f.id
           new == [row[r] EXCEPT !.status = f.status, !.leaseUntil = 0]
<1>1. f \in Change /\ r \in Rows /\ f.status \in Statuses
  BY DEF SchedTypeOK, Change, Statuses
<1>2. row' = SetReleased(r, f.status)
  BY DEF Write
<1> HIDE DEF r
<1>3. /\ row' = [row EXCEPT ![r] = new]
      /\ new \in RowState /\ new.status = f.status /\ new.leaseUntil = 0
  BY <1>1, <1>2, ReleasedType
<1> HIDE DEF new
<1>4. /\ row' \in [Rows -> RowState] /\ row'[r] = new
      /\ \A q \in Rows \ {r} : row'[q] = row[q]
      /\ \A q \in Rows : row'[q].status # "sending" => row'[q].leaseUntil = 0
  BY <1>1, <1>3, WriteType
<1> QED BY <1>1, <1>3, <1>4 DEF r

(* The initial state is well typed. *)
LEMMA SchedTypeInit == SchedInit => SchedTypeOK
  BY SchedAssumption DEF SchedInit, SchedTypeOK, Statuses, Senders, Snapshot

(* Every step keeps the types, and no row keeps a lease it is not sent on. *)
LEMMA SchedTypeNext == SchedTypeOK /\ [SchedNext]_schedVars => SchedTypeOK'
<1> SUFFICES ASSUME SchedTypeOK, [SchedNext]_schedVars PROVE SchedTypeOK'
  OBVIOUS
<1> USE SchedAssumption DEF procVars, historyVars
<1>r. row \in [Rows -> RowState]
  BY DEF SchedTypeOK, RowState
<1>h. \A w \in Senders : Holding(w) => msg[w] \in Snapshot /\ msg[w].id \in Rows
  BY DEF SchedTypeOK, Holding, Snapshot
<1>n. clock \in Nat /\ \A w \in Senders : at[w] \in Nat
  BY DEF SchedTypeOK
<1>s. Sweeps \subseteq Senders /\ Callers \subseteq Senders
  BY DEF Senders
<1>1. ASSUME NEW r \in Rows, Create(r) PROVE SchedTypeOK'
  <2> DEFINE new == [status |-> "pending", attempts |-> 0, nextAt |-> DueAt[r], leaseUntil |-> 0]
  <2>1. new \in RowState /\ row' = [row EXCEPT ![r] = new]
    BY <1>1 DEF Create, RowState, Statuses
  <2> QED BY <1>1, <2>1, WriteType DEF Create, SchedTypeOK, RowState, Senders
<1>2. ASSUME NEW u \in Deleters, NEW r \in Touched, FindDeleted(u, r) PROVE SchedTypeOK'
  <2>1. r \in Rows
    BY DEF SchedAssumption
  <2>2. found' \subseteq Change
    BY <1>2, <2>1 DEF FindDeleted, SchedTypeOK, Change
  <2> QED BY <1>2, <2>2 DEF FindDeleted, SchedTypeOK
<1>21. ASSUME NEW f \in found, Write(f) PROVE SchedTypeOK'
  <2>1. /\ f.id \in Rows /\ row' \in [Rows -> RowState]
        /\ \A q \in Rows : row'[q].status # "sending" => row'[q].leaseUntil = 0
    BY <1>21, ChangeType
  <2>2. found' \subseteq Change /\ withdrawn' \subseteq Rows /\ lost' \subseteq Rows
    BY <1>21, <2>1 DEF Write, SchedTypeOK
  <2> QED BY <1>21, <2>1, <2>2 DEF Write, SchedTypeOK, RowState
<1>3. ASSUME NEW s \in Sweeps, SweepStart(s) PROVE SchedTypeOK'
  BY <1>3, <1>s DEF SweepStart, SchedTypeOK
<1>4. ASSUME NEW s \in Sweeps, SweepList(s) PROVE SchedTypeOK'
  <2>1. todo' \in [Senders -> SUBSET Snapshot]
    BY <1>4, <1>r, <1>s, ReadType DEF SweepList, SchedTypeOK, Earliest, DueRows
  <2>2. \A w \in Senders : stage'[w] = "idle" => todo'[w] = {}
    BY <1>4, <1>s DEF SweepList, SchedTypeOK
  <2> QED BY <1>4, <1>s, <2>1, <2>2 DEF SweepList, SchedTypeOK
<1>5. ASSUME NEW s \in Sweeps, SweepNext(s) PROVE SchedTypeOK'
  BY <1>5, <1>s DEF SweepNext, SchedTypeOK
<1>6. ASSUME NEW s \in Sweeps, SweepEnd(s) PROVE SchedTypeOK'
  BY <1>6, <1>s DEF SweepEnd, SchedTypeOK
<1>7. ASSUME NEW w \in Senders, Claim(w) PROVE SchedTypeOK'
  <2>1. msg[w] \in Snapshot /\ msg[w].id \in Rows
    BY <1>7 DEF Claim, SchedTypeOK, Snapshot
  <2>2. expired' \subseteq Rows
    BY <1>7, <2>1 DEF Claim, SchedTypeOK
  <2> QED BY <1>7, <2>1, <2>2 DEF Claim, SchedTypeOK
<1>22. ASSUME NEW w \in Senders, Take(w) PROVE SchedTypeOK'
  <2>1. /\ row' \in [Rows -> RowState]
        /\ \A q \in Rows : row'[q].status # "sending" => row'[q].leaseUntil = 0
    BY <1>22, TakeType
  <2> QED BY <1>22, <2>1 DEF Take, SchedTypeOK, RowState
<1>8. ASSUME NEW s \in Sweeps, SweepFails(s) PROVE SchedTypeOK'
  <2> DEFINE r == msg[s].id
             n == msg[s].attempts + 1
  <2>1. r \in Rows /\ n \in Nat \ {0} /\ at[s] \in Nat
    BY <1>8, <1>h, <1>n, <1>s DEF SweepFails, Snapshot
  <2>2. row' = SetRetry(r, n, at[s])
    BY <1>8 DEF SweepFails
  <2>3. /\ row' \in [Rows -> RowState]
        /\ \A q \in Rows : row'[q].status # "sending" => row'[q].leaseUntil = 0
    BY <2>1, <2>2, RetryType, WriteType DEF SetRetry
  <2>4. repeated' \subseteq Rows
    BY <1>8, <2>1 DEF SweepFails, SchedTypeOK
  <2> QED BY <1>8, <1>s, <2>3, <2>4 DEF SweepFails, SchedTypeOK, RowState
<1>9. ASSUME NEW c \in Callers, NEW ids \in SUBSET Rows, CallStart(c, ids) PROVE SchedTypeOK'
  <2>1. todo' \in [Senders -> SUBSET Snapshot]
    BY <1>9, <1>r, <1>s, ReadType DEF CallStart, SchedTypeOK
  <2> QED BY <1>9, <1>s, <2>1 DEF CallStart, SchedTypeOK
<1>10. ASSUME NEW c \in Callers, CallNext(c) PROVE SchedTypeOK'
  <2>1. clock \in 0 .. clock
    BY <1>n
  <2> QED BY <1>10, <1>s, <2>1 DEF CallNext, SchedTypeOK
<1>11. ASSUME NEW c \in Callers, CallEnd(c) PROVE SchedTypeOK'
  BY <1>11, <1>s DEF CallEnd, SchedTypeOK
<1>12. ASSUME NEW c \in Callers, CallFails(c) PROVE SchedTypeOK'
  <2> DEFINE r == msg[c].id
             status == IF msg[c].status = "failed" THEN "failed" ELSE "pending"
             new == [row[r] EXCEPT !.status = status, !.leaseUntil = 0]
  <2>1. r \in Rows /\ status \in Statuses
    BY <1>12, <1>h, <1>s DEF CallFails, Statuses
  <2>2. row' = [row EXCEPT ![r] = new] /\ new \in RowState /\ new.leaseUntil = 0
    BY <1>12, <2>1, ReleasedType DEF CallFails
  <2> HIDE DEF new
  <2>3. /\ row' \in [Rows -> RowState]
        /\ \A q \in Rows : row'[q].status # "sending" => row'[q].leaseUntil = 0
    BY <2>1, <2>2, WriteType
  <2>4. repeated' \subseteq Rows
    BY <1>12, <2>1 DEF CallFails, SchedTypeOK
  <2> QED BY <1>12, <1>s, <2>3, <2>4 DEF CallFails, SchedTypeOK, RowState
<1>13. ASSUME NEW w \in Senders, Deliver(w) PROVE SchedTypeOK'
  <2>1. msg[w].id \in Rows
    BY <1>13, <1>h DEF Deliver, Holding
  <2>2. sends' \in [Rows -> Nat]
    BY <1>13, <2>1 DEF Deliver, SchedTypeOK
  <2>3. /\ stage' \in [Senders -> Stages] /\ stage'[w] = "publish"
        /\ \A v \in Senders \ {w} : stage'[v] = stage[v]
    BY <1>13 DEF Deliver, SchedTypeOK, Stages
  <2>4. msg[w] \in Snapshot
    BY <1>13, <1>h DEF Deliver, Holding
  <2> QED BY <1>13, <2>2, <2>3, <2>4 DEF Deliver, SchedTypeOK, Stages
<1>14. ASSUME NEW w \in Senders, Sent(w) PROVE SchedTypeOK'
  <2> DEFINE r == msg[w].id
             new == [row[r] EXCEPT !.status = "sent", !.leaseUntil = 0]
  <2>1. r \in Rows
    BY <1>14, <1>h DEF Sent, Holding
  <2>2. row' = [row EXCEPT ![r] = new] /\ new \in RowState /\ new.leaseUntil = 0
    BY <1>14, <1>r, <2>1 DEF Sent, SetSent, RowState, Statuses
  <2> HIDE DEF new
  <2>3. /\ row' \in [Rows -> RowState]
        /\ \A q \in Rows : row'[q].status # "sending" => row'[q].leaseUntil = 0
    BY <2>1, <2>2, WriteType
  <2>4. /\ stage' \in [Senders -> Stages] /\ stage'[w] = "next"
        /\ msg' \in [Senders -> Snapshot \cup {NoMsg}]
        /\ \A v \in Senders \ {w} : stage'[v] = stage[v] /\ msg'[v] = msg[v]
    BY <1>14 DEF Sent, SchedTypeOK, Stages
  <2> QED BY <1>14, <2>3, <2>4 DEF Sent, SchedTypeOK, RowState, Stages
<1>15. ASSUME NEW w \in Senders, Dies(w) PROVE SchedTypeOK'
  <2>1. lost' \subseteq Rows
    BY <1>15, <1>h DEF Dies, SchedTypeOK
  <2> QED BY <1>15, <2>1 DEF Dies, SchedTypeOK
<1>16. ASSUME Stop PROVE SchedTypeOK'
  <2>1. halted' \subseteq Sweeps /\ restarts' \in 0 .. MaxRestarts
    BY <1>16 DEF Stop, SchedTypeOK
  <2> QED BY <1>16, <2>1 DEF Stop, SchedTypeOK
<1>17. ASSUME Crash PROVE SchedTypeOK'
  <2>1. lost' \subseteq Rows
    BY <1>17, <1>h DEF Crash, SchedTypeOK
  <2>2. restarts' \in 0 .. MaxRestarts
    BY <1>17 DEF Crash, SchedTypeOK
  <2>3. /\ stage' \in [Senders -> Stages] /\ \A w \in Senders : stage'[w] = "idle"
        /\ todo' \in [Senders -> SUBSET Snapshot] /\ \A w \in Senders : todo'[w] = {}
        /\ at' \in [Senders -> 0 .. clock] /\ msg' \in [Senders -> Snapshot \cup {NoMsg}]
    BY <1>17 DEF Crash, SchedTypeOK, Stages
  <2> QED BY <1>17, <2>1, <2>2, <2>3 DEF Crash, SchedTypeOK, Stages
<1>18. ASSUME Start PROVE SchedTypeOK'
  <2>1. found' \subseteq Change
    BY <1>18 DEF Start, SchedTypeOK, Requeued, Change
  <2>2. expired' \subseteq Rows
    BY <1>18 DEF Start, SchedTypeOK
  <2>3. /\ UNCHANGED <<clock, row, stage, at, todo, msg, halted, faults, restarts>>
        /\ UNCHANGED <<sends, repeated, lost, withdrawn>> /\ running' \in BOOLEAN
    BY <1>18 DEF Start
  <2> QED BY <2>1, <2>2, <2>3 DEF SchedTypeOK
<1>19. ASSUME Tick PROVE SchedTypeOK'
  BY <1>19 DEF Tick, SchedTypeOK
<1>20. CASE UNCHANGED schedVars
  BY <1>20 DEF schedVars, SchedTypeOK
<1> QED
  BY <1>1, <1>2, <1>3, <1>4, <1>5, <1>6, <1>7, <1>8, <1>9, <1>10, <1>11, <1>12,
     <1>13, <1>14, <1>15, <1>16, <1>17, <1>18, <1>19, <1>20, <1>21,
     <1>22, <1>s
  DEF SchedNext, SweepStep, CallStep

(* The table, the work of sweeps and calls and the bounds keep their types:    *)
(* no row that is not being sent keeps a lease, so a finished row can never    *)
(* be claimed as one whose sender was lost.                                    *)
THEOREM SchedTypeCorrect == SchedSpec => []SchedTypeOK
  BY SchedTypeInit, SchedTypeNext, PTL DEF SchedSpec

-----------------------------------------------------------------------------
(***************************************************************************)
(* Who sends a row, and how often it was delivered.                        *)
(***************************************************************************)

Sending(w, r) == Holding(w) /\ msg[w].id = r
Taking(w, r) == stage[w] = "take" /\ msg[w].id = r

(* While no lease of the row ran out its sender still finds it `sending` or   *)
(* cancelled, so nobody else can claim it.                                    *)
Guarded(r) ==
  r \notin expired =>
    \A w \in Senders : Sending(w, r) => row[r].status \in {"sending", "cancelled"}
Alone(r) ==
  r \notin expired => \A v, w \in Senders : Sending(v, r) /\ Sending(w, r) => v = w
(* Once delivered it is not claimable again, and who sends it is past the     *)
(* delivery.                                                                  *)
Once(r) ==
  r \notin expired \cup repeated =>
    /\ sends[r] <= 1
    /\ sends[r] = 1 => /\ row[r].status \in {"sending", "sent", "cancelled"}
                       /\ \A w \in Senders : Sending(w, r) => stage[w] = "publish"
(* Who SELECTed it to claim it is the only one to have to do with it.         *)
Free(r) ==
  r \notin expired =>
    \A w \in Senders :
      Taking(w, r) => /\ \A v \in Senders : ~ Sending(v, r)
                      /\ r \notin repeated => sends[r] = 0
Gone(r) ==
  r \in withdrawn => /\ row[r].status = "cancelled"
                     /\ \A w \in Senders : ~ Sending(w, r) /\ ~ Taking(w, r)
                     /\ \A f \in found : f.id = r => f.status # "pending"
RowSafe(r) == Guarded(r) /\ Alone(r) /\ Once(r) /\ Free(r) /\ Gone(r)

(* One claim at a time is between its SELECT and its UPDATE. *)
OneClaim == \A v, w \in Senders : stage[v] = "take" /\ stage[w] = "take" => v = w
(* What a starting dispatcher puts back had its lease run out. *)
Requeues == \A f \in found : f.status = "pending" => f.id \in expired

Safe == OneClaim /\ Requeues /\ \A r \in Rows : RowSafe(r)

(* Nothing is being sent at first. *)
LEMMA SafeInit == SchedInit => Safe
  BY DEF SchedInit, Safe, OneClaim, Requeues, RowSafe, Guarded, Alone, Once, Free,
         Gone, Sending, Taking, Holding

(* A step that leaves table and histories alone, starts no claim, no send and  *)
(* no requeue of a row whose lease had not run out is safe.                    *)
Quiet ==
  /\ UNCHANGED <<row, sends, repeated, withdrawn>>
  /\ expired \subseteq expired'
  /\ \A w \in Senders : stage'[w] \in {"take", "send", "publish"} =>
       stage'[w] = stage[w] /\ msg'[w] = msg[w]
  /\ \A f \in found' : f.status = "pending" =>
       \/ f \in found
       \/ f.id \in expired' /\ row[f.id].status = "sending"

LEMMA QuietSafe ==
  ASSUME SchedTypeOK, Safe, Quiet
  PROVE  Safe'
<1> USE DEF Quiet
<1>1. \A q \in Rows, v \in Senders :
        /\ Sending(v, q)' => Sending(v, q) /\ stage'[v] = stage[v]
        /\ Taking(v, q)' => Taking(v, q)
  BY DEF Sending, Taking, Holding
<1>2. OneClaim' /\ Requeues'
  BY DEF Safe, OneClaim, Requeues
<1>3. ASSUME NEW q \in Rows PROVE RowSafe(q)'
  <2>1. (Guarded(q) /\ Alone(q) /\ Once(q) /\ Free(q))'
    BY <1>1 DEF Safe, RowSafe, Guarded, Alone, Once, Free
  <2>2. Gone(q)'
    BY <1>1 DEF Safe, RowSafe, Gone
  <2> QED BY <2>1, <2>2 DEF RowSafe
<1> QED BY <1>2, <1>3 DEF Safe

(* The SELECT of a claim is safe: a row free to claim has no sender and was    *)
(* not delivered, unless its lease ran out.                                    *)
LEMMA ClaimSafe ==
  ASSUME SchedTypeOK, Safe, NEW w \in Senders, Claim(w)
  PROVE  Safe'
<1> DEFINE r == msg[w].id
<1>1. /\ UNCHANGED <<row, found, sends, repeated, withdrawn>>
      /\ expired \subseteq expired'
  BY DEF Claim
<1>2. CASE ~ Claimable(w, r)
  <2>1. Quiet
    BY <1>1, <1>2 DEF Claim, SchedTypeOK, Quiet
  <2> QED BY <2>1, QuietSafe
<1>3. CASE Claimable(w, r)
  <2>1. /\ r \in Rows /\ ~ Holding(w)
        /\ stage' = [stage EXCEPT ![w] = "take"] /\ msg' = msg
        /\ \A v \in Senders : stage[v] # "take"
    BY <1>3 DEF Claim, Unclaimed, SchedTypeOK, Snapshot, Holding
  <2>2. /\ \A q \in Rows, v \in Senders :
             /\ Sending(v, q)' => Sending(v, q) /\ stage'[v] = stage[v]
             /\ Taking(v, q)' => v = w /\ q = r
        /\ \A v \in Senders : stage'[v] = "take" => v = w
    BY <2>1 DEF Sending, Taking, Holding, SchedTypeOK
  <2>3. \/ row[r].status \in {"pending", "failed"}
        \/ row[r].status = "sending" /\ r \in expired'
    BY <1>3 DEF Claim, Claimable, ClaimableDue, ClaimableNow, Expired
  <2> HIDE DEF r
  <2>4. OneClaim' /\ Requeues'
    BY <1>1, <2>2 DEF Safe, OneClaim, Requeues
  <2>5. ASSUME NEW q \in Rows PROVE (Guarded(q) /\ Alone(q) /\ Once(q))'
    BY <1>1, <2>2 DEF Safe, RowSafe, Guarded, Alone, Once
  <2>6. ASSUME NEW q \in Rows PROVE Gone(q)'
    <3>1. q \in withdrawn => q # r
      BY <2>3 DEF Safe, RowSafe, Gone
    <3> QED BY <1>1, <2>2, <3>1 DEF Safe, RowSafe, Gone
  <2>7. ASSUME NEW q \in Rows PROVE Free(q)'
    <3>1. CASE q # r
      BY <2>2, <3>1 DEF Free
    <3>2. CASE q = r /\ r \notin expired'
      <4>1. row[r].status \in {"pending", "failed"} /\ r \notin expired
        BY <1>1, <2>3, <3>2
      <4>2. \A v \in Senders : ~ Sending(v, r)
        BY <2>1, <4>1 DEF Safe, RowSafe, Guarded
      <4>3. r \notin repeated => sends[r] = 0
        <5>1. sends[r] \in Nat
          BY <2>1 DEF SchedTypeOK
        <5>2. r \notin repeated => sends[r] <= 1 /\ sends[r] # 1
          BY <2>1, <4>1 DEF Safe, RowSafe, Once
        <5> QED BY <5>1, <5>2
      <4> QED BY <1>1, <2>2, <3>2, <4>2, <4>3 DEF Free
    <3> QED BY <3>1, <3>2 DEF Free
  <2> QED BY <2>4, <2>5, <2>6, <2>7 DEF Safe, RowSafe
<1> QED BY <1>2, <1>3

(* So is the UPDATE, though it does not look at the row: nobody but a delete   *)
(* has written it since, unless its lease ran out.                             *)
LEMMA TakeSafe ==
  ASSUME SchedTypeOK, Safe, NEW w \in Senders, Take(w)
  PROVE  Safe'
<1> PICK r \in Rows : r = msg[w].id
  BY TakeType
<1>1. /\ row'[r].status = "sending"
      /\ \A q \in Rows \ {r} : row'[q] = row[q]
  BY TakeType
<1>2. /\ Taking(w, r) /\ msg' = msg
      /\ stage' = [stage EXCEPT ![w] = "send"]
      /\ UNCHANGED <<found, sends, expired, repeated, withdrawn>>
  BY DEF Take, Taking, historyVars
<1>3. /\ \A v \in Senders \ {w} : stage'[v] = stage[v] /\ stage[v] # "take"
      /\ stage'[w] = "send"
  BY <1>2 DEF Taking, SchedTypeOK, Safe, OneClaim
<1>4. /\ \A q \in Rows, v \in Senders : Sending(v, q)' => v # w \/ q = r
      /\ \A q \in Rows, v \in Senders \ {w} : Sending(v, q)' = Sending(v, q)
      /\ \A q \in Rows, v \in Senders : ~ Taking(v, q)'
  BY <1>2, <1>3 DEF Sending, Taking, Holding
<1>5. OneClaim' /\ Requeues'
  BY <1>2, <1>3, <1>4 DEF Safe, OneClaim, Requeues
<1>6. ASSUME NEW q \in Rows \ {r} PROVE RowSafe(q)'
  <2>1. (Guarded(q) /\ Alone(q) /\ Once(q) /\ Free(q))'
    BY <1>1, <1>2, <1>3, <1>4 DEF Safe, RowSafe, Guarded, Alone, Once, Free
  <2>2. Gone(q)'
    BY <1>1, <1>2, <1>3, <1>4 DEF Safe, RowSafe, Gone
  <2> QED BY <2>1, <2>2 DEF RowSafe
<1>7. RowSafe(r)'
  <2>1. r \notin expired => \A v \in Senders : Sending(v, r)' => v = w
    BY <1>1, <1>2, <1>3, <1>4 DEF Safe, RowSafe, Free
  <2>2. r \notin expired \cup repeated => sends[r] = 0
    BY <1>1, <1>2 DEF Safe, RowSafe, Free
  <2>3. r \notin withdrawn
    BY <1>1, <1>2 DEF Safe, RowSafe, Gone
  <2> QED BY <1>1, <1>2, <1>3, <1>4, <2>1, <2>2, <2>3
      DEF RowSafe, Guarded, Alone, Once, Free, Gone
<1> QED BY <1>5, <1>6, <1>7 DEF Safe

(* The UPDATE of a delete is safe: it makes a row free for nobody.  That of a  *)
(* requeue is: the lease of the row had run out, and the row is not withdrawn. *)
LEMMA ChangeSafe ==
  ASSUME SchedTypeOK, Safe, NEW f \in found, Write(f)
  PROVE  Safe'
<1> DEFINE r == f.id
<1>1. /\ r \in Rows /\ row'[r].status = f.status
      /\ f.status \in {"cancelled", "pending"}
      /\ \A q \in Rows \ {r} : row'[q] = row[q]
  BY ChangeType DEF Change
<1>2. /\ found' = found \ {f}
      /\ UNCHANGED <<stage, msg, sends, expired, repeated>>
      /\ withdrawn' \subseteq withdrawn \cup {r}
      /\ f.status = "pending" => withdrawn' = withdrawn
      /\ withdrawn' # withdrawn => Holders(r) = {} /\ ~ Overtaking(r)
  BY DEF Write, procVars
<1> HIDE DEF r
<1>3. \A q \in Rows, v \in Senders :
        Sending(v, q)' = Sending(v, q) /\ Taking(v, q)' = Taking(v, q)
  BY <1>2 DEF Sending, Taking, Holding
<1>4. OneClaim' /\ Requeues'
  BY <1>2 DEF Safe, OneClaim, Requeues
<1>5. ASSUME NEW q \in Rows \ {r} PROVE RowSafe(q)'
  <2>1. (Guarded(q) /\ Alone(q) /\ Once(q) /\ Free(q))'
    BY <1>1, <1>2, <1>3 DEF Safe, RowSafe, Guarded, Alone, Once, Free
  <2>2. Gone(q)'
    BY <1>1, <1>2, <1>3 DEF Safe, RowSafe, Gone
  <2> QED BY <2>1, <2>2 DEF RowSafe
<1>6. f.status = "pending" => r \in expired /\ r \notin withdrawn
  BY <1>1 DEF Safe, Requeues, RowSafe, Gone, r
<1>7. (Guarded(r) /\ Alone(r) /\ Once(r) /\ Free(r))'
  BY <1>1, <1>2, <1>3, <1>6 DEF Safe, RowSafe, Guarded, Alone, Once, Free
<1>8. Gone(r)'
  <2>1. CASE withdrawn' = withdrawn
    BY <1>1, <1>2, <1>3, <1>6, <2>1 DEF Safe, RowSafe, Gone
  <2>2. CASE withdrawn' # withdrawn
    <3>1. \A v \in Senders : ~ Sending(v, r) /\ ~ Taking(v, r)
      BY <1>2, <2>2 DEF Holders, Overtaking, Sending, Taking
    <3>2. \A g \in found : g.id = r => g.status # "pending"
      BY <1>2, <2>2 DEF Overtaking
    <3> QED BY <1>1, <1>2, <1>3, <2>2, <3>1, <3>2 DEF Gone
  <2> QED BY <2>1, <2>2
<1> QED BY <1>4, <1>5, <1>7, <1>8 DEF Safe, RowSafe

(* A sender that lets go of its row is safe, if a delivered row is not offered *)
(* again without being counted as repeated.                                    *)
LEMMA LetGoSafe ==
  ASSUME SchedTypeOK, Safe, NEW w \in Senders, Holding(w), NEW r \in Rows, msg[w].id = r,
         NEW new \in RowState, row' = [row EXCEPT ![r] = new],
         new.status \in {"sent", "pending", "failed"},
         stage' \in [Senders -> Stages], stage'[w] \notin {"take", "send", "publish"},
         \A v \in Senders \ {w} : stage'[v] = stage[v] /\ msg'[v] = msg[v],
         repeated \subseteq repeated', repeated' \subseteq repeated \cup {r},
         new.status # "sent" /\ stage[w] = "publish" => r \in repeated',
         UNCHANGED <<found, sends, expired, withdrawn>>
  PROVE  Safe'
<1>1. /\ row'[r] = new
      /\ \A q \in Rows \ {r} : row'[q] = row[q]
  BY DEF SchedTypeOK
<1>2. \A q \in Rows, v \in Senders :
        /\ Sending(v, q)' => v # w /\ Sending(v, q) /\ stage'[v] = stage[v]
        /\ Taking(v, q)' => Taking(v, q)
  BY DEF Sending, Taking, Holding
<1>3. OneClaim' /\ Requeues'
  BY DEF Safe, OneClaim, Requeues
<1>4. Sending(w, r) /\ r \notin withdrawn
  BY DEF Sending, Safe, RowSafe, Gone
<1>5. ASSUME NEW q \in Rows \ {r} PROVE RowSafe(q)'
  <2>1. (Guarded(q) /\ Alone(q) /\ Once(q) /\ Free(q))'
    BY <1>1, <1>2 DEF Safe, RowSafe, Guarded, Alone, Once, Free
  <2>2. Gone(q)'
    BY <1>1, <1>2 DEF Safe, RowSafe, Gone
  <2> QED BY <2>1, <2>2 DEF RowSafe
<1>6. r \notin expired => \A v \in Senders : ~ Sending(v, r)' /\ ~ Taking(v, r)'
  BY <1>2, <1>4 DEF Safe, RowSafe, Alone, Free
<1>7. ASSUME r \notin expired \cup repeated' PROVE Once(r)'
  <2>1. sends[r] <= 1 /\ (sends[r] = 1 => stage[w] = "publish")
    BY <1>4, <1>7 DEF Safe, RowSafe, Once
  <2>2. sends[r] = 1 => new.status = "sent"
    BY <1>7, <2>1
  <2> QED BY <1>1, <1>6, <1>7, <2>1, <2>2 DEF Once
<1>8. (Guarded(r) /\ Alone(r) /\ Free(r) /\ Gone(r))'
  BY <1>4, <1>6 DEF Guarded, Alone, Free, Gone
<1>9. Once(r)'
  BY <1>7 DEF Once
<1> QED BY <1>3, <1>5, <1>8, <1>9 DEF Safe, RowSafe

(* Every step is safe. *)
LEMMA SafeNext == SchedTypeOK /\ Safe /\ [SchedNext]_schedVars => Safe'
<1> SUFFICES ASSUME SchedTypeOK, Safe, [SchedNext]_schedVars PROVE Safe'
  OBVIOUS
<1> USE DEF procVars, historyVars
<1>r. row \in [Rows -> RowState]
  BY DEF SchedTypeOK, RowState
<1>t. stage \in [Senders -> Stages] /\ msg \in [Senders -> Snapshot \cup {NoMsg}]
  BY DEF SchedTypeOK, Stages
<1>h. \A w \in Senders : Holding(w) => msg[w] \in Snapshot /\ msg[w].id \in Rows
  BY DEF SchedTypeOK, Holding, Snapshot
<1>n. clock \in Nat /\ \A w \in Senders : at[w] \in Nat
  BY DEF SchedTypeOK
<1>s. Sweeps \subseteq Senders /\ Callers \subseteq Senders
  BY DEF Senders
<1>1. ASSUME NEW r \in Rows, Create(r) PROVE Safe'
  <2>1. /\ row'[r].status = "pending" /\ row[r].status = "none"
        /\ \A q \in Rows \ {r} : row'[q] = row[q]
    BY <1>1, <1>r DEF Create
  <2>2. /\ \A q \in Rows, w \in Senders :
             Sending(w, q)' = Sending(w, q) /\ Taking(w, q)' = Taking(w, q)
        /\ UNCHANGED <<stage, found, sends, expired, repeated, withdrawn>>
    BY <1>1 DEF Create, Sending, Taking, Holding
  <2>3. OneClaim' /\ Requeues'
    BY <2>2 DEF Safe, OneClaim, Requeues
  <2>4. ASSUME NEW q \in Rows PROVE (Guarded(q) /\ Alone(q) /\ Once(q) /\ Free(q))'
    BY <2>1, <2>2 DEF Safe, RowSafe, Guarded, Alone, Once, Free
  <2>5. ASSUME NEW q \in Rows PROVE Gone(q)'
    BY <2>1, <2>2 DEF Safe, RowSafe, Gone
  <2> QED BY <2>3, <2>4, <2>5 DEF Safe, RowSafe
<1>2. ASSUME NEW u \in Deleters, NEW r \in Touched, FindDeleted(u, r) PROVE Safe'
  <2>1. Quiet
    BY <1>2 DEF FindDeleted, Quiet
  <2> QED BY <2>1, QuietSafe
<1>15. ASSUME NEW f \in found, Write(f) PROVE Safe'
  BY <1>15, ChangeSafe
<1>3. ASSUME NEW s \in Sweeps, SweepStart(s) \/ SweepList(s) \/ SweepNext(s) \/ SweepEnd(s)
      PROVE Safe'
  <2>1. Quiet
    BY <1>3, <1>s, <1>t DEF SweepStart, SweepList, SweepNext, SweepEnd, Quiet
  <2> QED BY <2>1, QuietSafe
<1>4. ASSUME NEW w \in Senders, Claim(w) \/ Take(w) PROVE Safe'
  BY <1>4, ClaimSafe, TakeSafe
<1>5. ASSUME NEW s \in Sweeps, SweepFails(s) PROVE Safe'
  <2> DEFINE r == msg[s].id
             new == RetryRow(msg[s].attempts + 1, at[s])
  <2>1. /\ r \in Rows /\ msg[s].attempts + 1 \in Nat \ {0} /\ at[s] \in Nat
        /\ Holding(s)
    BY <1>5, <1>h, <1>n, <1>s DEF SweepFails, Snapshot
  <2>2. new \in RowState /\ new.status \in {"failed", "pending"}
    BY <2>1, RetryType
  <2>3. row' = [row EXCEPT ![r] = new]
    BY <1>5 DEF SweepFails, SetRetry
  <2> HIDE DEF new
  <2>4. /\ stage' \in [Senders -> Stages] /\ stage'[s] = "next"
        /\ \A v \in Senders \ {s} : stage'[v] = stage[v] /\ msg'[v] = msg[v]
    BY <1>5, <1>s, <1>t DEF SweepFails, Stages
  <2>5. /\ repeated \subseteq repeated' /\ repeated' \subseteq repeated \cup {r}
        /\ stage[s] = "publish" => r \in repeated'
        /\ UNCHANGED <<found, sends, expired, withdrawn>>
    BY <1>5 DEF SweepFails
  <2> HIDE DEF r
  <2>6. msg[s].id = r /\ s \in Senders
    BY <1>s DEF r
  <2> QED BY <2>1, <2>2, <2>3, <2>4, <2>5, <2>6, LetGoSafe
<1>6. ASSUME NEW c \in Callers,
             CallNext(c) \/ CallEnd(c) \/ \E ids \in SUBSET Touched : CallStart(c, ids)
      PROVE Safe'
  <2>1. Quiet
    BY <1>6, <1>s, <1>t DEF CallNext, CallEnd, CallStart, Quiet
  <2> QED BY <2>1, QuietSafe
<1>8. ASSUME NEW c \in Callers, CallFails(c) PROVE Safe'
  <2> DEFINE r == msg[c].id
             status == IF msg[c].status = "failed" THEN "failed" ELSE "pending"
             new == [row[r] EXCEPT !.status = status, !.leaseUntil = 0]
  <2>1. r \in Rows /\ status \in {"failed", "pending"} /\ Holding(c)
    BY <1>8, <1>h, <1>s DEF CallFails
  <2>2. row' = [row EXCEPT ![r] = new] /\ new \in RowState /\ new.status = status
    <3>1. row' = SetReleased(r, status)
      BY <1>8 DEF CallFails
    <3>2. status \in Statuses
      BY <2>1 DEF Statuses
    <3> HIDE DEF r, status
    <3> QED BY <2>1, <3>1, <3>2, ReleasedType
  <2> HIDE DEF new, status
  <2>4. /\ stage' \in [Senders -> Stages] /\ stage'[c] = "idle"
        /\ \A v \in Senders \ {c} : stage'[v] = stage[v] /\ msg'[v] = msg[v]
    BY <1>8, <1>s, <1>t DEF CallFails, Stages
  <2>5. /\ repeated \subseteq repeated' /\ repeated' \subseteq repeated \cup {r}
        /\ stage[c] = "publish" => r \in repeated'
        /\ UNCHANGED <<found, sends, expired, withdrawn>>
    BY <1>8 DEF CallFails
  <2> HIDE DEF r
  <2>6. msg[c].id = r /\ c \in Senders
    BY <1>s DEF r
  <2> QED BY <2>1, <2>2, <2>4, <2>5, <2>6, LetGoSafe
<1>9. ASSUME NEW w \in Senders, Deliver(w) PROVE Safe'
  <2> PICK r \in Rows : r = msg[w].id
    BY <1>9, <1>h DEF Deliver, Holding
  <2>1. Sending(w, r) /\ stage[w] = "send"
    BY <1>9 DEF Deliver, Holding, Sending
  <2>2. /\ sends'[r] = sends[r] + 1 /\ sends[r] \in Nat
        /\ \A q \in Rows \ {r} : sends'[q] = sends[q]
        /\ UNCHANGED <<row, msg, found, expired, repeated, withdrawn>>
    BY <1>9, <2>1 DEF Deliver, SchedTypeOK
  <2>3. /\ stage'[w] = "publish"
        /\ \A q \in Rows, v \in Senders :
             Sending(v, q)' = Sending(v, q) /\ Taking(v, q)' = Taking(v, q)
        /\ \A v \in Senders \ {w} : stage'[v] = stage[v]
        /\ \A v \in Senders : stage'[v] = "take" => stage[v] = "take"
    BY <1>9, <1>t, <2>1 DEF Deliver, Sending, Taking, Holding
  <2>4. OneClaim' /\ Requeues'
    BY <2>2, <2>3 DEF Safe, OneClaim, Requeues
  <2>5. ASSUME NEW q \in Rows PROVE (Guarded(q) /\ Alone(q) /\ Gone(q))'
    BY <2>2, <2>3 DEF Safe, RowSafe, Guarded, Alone, Gone
  <2>6. ASSUME NEW q \in Rows \ {r} PROVE (Once(q) /\ Free(q))'
    <3>1. \A v \in Senders : Sending(v, q) => v # w
      BY <2>1 DEF Sending
    <3> QED BY <2>2, <2>3, <3>1 DEF Safe, RowSafe, Once, Free
  <2>7. ASSUME r \notin expired \cup repeated PROVE Once(r)'
    <3>1. sends[r] = 0
      BY <2>1, <2>2, <2>7 DEF Safe, RowSafe, Once
    <3>2. \A v \in Senders : Sending(v, r) => v = w
      BY <2>1, <2>7 DEF Safe, RowSafe, Alone
    <3>3. row[r].status \in {"sending", "cancelled"}
      BY <2>1, <2>7 DEF Safe, RowSafe, Guarded
    <3> QED BY <2>2, <2>3, <3>1, <3>2, <3>3 DEF Once
  <2>8. Once(r)'
    BY <2>2, <2>7 DEF Once
  <2>9. Free(r)'
    BY <2>1, <2>2, <2>3 DEF Safe, RowSafe, Free
  <2> QED BY <2>4, <2>5, <2>6, <2>8, <2>9 DEF Safe, RowSafe
<1>10. ASSUME NEW w \in Senders, Sent(w) PROVE Safe'
  <2> DEFINE r == msg[w].id
             new == [row[r] EXCEPT !.status = "sent", !.leaseUntil = 0]
  <2>1. r \in Rows /\ Holding(w)
    BY <1>10, <1>h DEF Sent, Holding
  <2>2. row' = [row EXCEPT ![r] = new] /\ new \in RowState /\ new.status = "sent"
    BY <1>10, <1>r, <2>1 DEF Sent, SetSent, RowState, Statuses
  <2> HIDE DEF new
  <2>3. /\ stage' \in [Senders -> Stages] /\ stage'[w] = "next"
        /\ \A v \in Senders \ {w} : stage'[v] = stage[v] /\ msg'[v] = msg[v]
        /\ UNCHANGED <<found, sends, expired, repeated, withdrawn>>
    BY <1>10, <1>t DEF Sent, Stages
  <2> HIDE DEF r
  <2>4. msg[w].id = r
    BY DEF r
  <2> QED BY <2>1, <2>2, <2>3, <2>4, LetGoSafe
<1>11. ASSUME NEW w \in Senders, Dies(w) PROVE Safe'
  <2>1. Quiet
    BY <1>11, <1>t DEF Dies, Quiet
  <2> QED BY <2>1, QuietSafe
<1>12. ASSUME Stop \/ Crash \/ Tick PROVE Safe'
  <2>1. Quiet
    BY <1>12, <1>t DEF Stop, Crash, Tick, Quiet
  <2> QED BY <2>1, QuietSafe
<1>13. ASSUME Start PROVE Safe'
  <2>1. Quiet
    BY <1>13 DEF Start, Requeued, Expired, Quiet
  <2> QED BY <2>1, QuietSafe
<1>14. CASE UNCHANGED schedVars
  <2>1. Quiet
    BY <1>14 DEF schedVars, Quiet
  <2> QED BY <2>1, QuietSafe
<1> QED
  BY <1>1, <1>2, <1>3, <1>4, <1>5, <1>6, <1>8, <1>9, <1>10, <1>11, <1>12,
     <1>13, <1>14, <1>15, <1>s
  DEF SchedNext, SweepStep, CallStep

(* What the three safety properties say follows from the invariant. *)
LEMMA SafeImplies == SchedTypeOK /\ Safe => OneSender /\ DeliveredOnce /\ CancelledStays
<1> SUFFICES ASSUME SchedTypeOK, Safe PROVE OneSender /\ DeliveredOnce /\ CancelledStays
  OBVIOUS
<1>1. OneSender
  BY DEF Safe, RowSafe, Alone, OneSender, Holders, Sending
<1>2. \A r \in Rows : sends[r] \in Nat
  BY DEF SchedTypeOK
<1>3. DeliveredOnce
  BY <1>2 DEF Safe, RowSafe, Once, DeliveredOnce
<1>4. CancelledStays
  BY DEF Safe, RowSafe, Gone, CancelledStays, Holders, Overtaking, Sending, Taking,
         SchedTypeOK
<1> QED BY <1>1, <1>3, <1>4

(* claim() and claimNow() exclude each other, stopped dispatchers included,    *)
(* though a delete or a requeue may write between their SELECT and UPDATE:     *)
(* until a lease of a row has been found run out at most one sweep or call is  *)
(* sending it.                                                                 *)
THEOREM SendersExcluded == SchedSpec => []OneSender
<1>1. SchedInit => SchedTypeOK /\ Safe
  BY SchedTypeInit, SafeInit
<1>2. SchedTypeOK /\ Safe /\ [SchedNext]_schedVars => (SchedTypeOK /\ Safe)'
  BY SchedTypeNext, SafeNext
<1> QED BY <1>1, <1>2, SafeImplies, PTL DEF SchedSpec

(* The platform accepts a message once, unless its sender failed after the     *)
(* acceptance or a lease ran out, whatever mix of sweeps, send-now calls,      *)
(* deletions, stops and crashes there is.                                      *)
THEOREM SentOnce == SchedSpec => []DeliveredOnce
<1>1. SchedInit => SchedTypeOK /\ Safe
  BY SchedTypeInit, SafeInit
<1>2. SchedTypeOK /\ Safe /\ [SchedNext]_schedVars => (SchedTypeOK /\ Safe)'
  BY SchedTypeNext, SafeNext
<1> QED BY <1>1, <1>2, SafeImplies, PTL DEF SchedSpec

(* A message deleted while nobody was sending it, and nobody had SELECTed it   *)
(* to claim it or to put it back, is never sent afterwards, however stale the  *)
(* work list that still holds it.                                              *)
THEOREM DeletedStays == SchedSpec => []CancelledStays
<1>1. SchedInit => SchedTypeOK /\ Safe
  BY SchedTypeInit, SafeInit
<1>2. SchedTypeOK /\ Safe /\ [SchedNext]_schedVars => (SchedTypeOK /\ Safe)'
  BY SchedTypeNext, SafeNext
<1> QED BY <1>1, <1>2, SafeImplies, PTL DEF SchedSpec

=============================================================================
