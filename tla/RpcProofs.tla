----------------------------- MODULE RpcProofs -----------------------------
(***************************************************************************)
(* Proofs about RpcSession: types, the slots of a connection, that a       *)
(* message has one execution and its handler runs once, that handlers      *)
(* start after the calls their message was sent after, and that deliveries *)
(* end with a reply.                                                       *)
(***************************************************************************)
EXTENDS RpcSession, FiniteSetTheorems, WellFoundedInduction, TLAPS

-----------------------------------------------------------------------------
\* The inductive invariant.

Elements(s) == {s[i] : i \in 1 .. Len(s)}
Distinct(s) == \A i, j \in 1 .. Len(s) : s[i] = s[j] => i = j

\* RpcTypeOK without the bound on active, which SlotInv gives.
Types ==
  /\ closed \subseteq Conns
  /\ phase \in [Deliveries -> Phases]
  /\ line \in [Conns -> Seq(Msgs)]
  /\ latest \in [Msgs -> Deliveries \cup {NoDelivery}]
  /\ replay \in [Msgs -> {"none", "running", "done"}]
  /\ active \in [Conns -> Int]
  /\ queue \in [Conns -> Seq(Msgs)]
  /\ waits \in [Deliveries -> SUBSET Deliveries]
  /\ prunes \in 0 .. MaxPrunes /\ faults \in 0 .. MaxFaults
  /\ runs \in [Msgs -> Nat]
  /\ answered \subseteq Deliveries /\ silenced \subseteq Deliveries
  /\ settled \subseteq Msgs /\ dropped \subseteq Msgs /\ forgot \subseteq Msgs

Lines ==
  \A c \in Conns :
    /\ Distinct(line[c])
    /\ Elements(line[c]) = {m \in Msgs : phase[<<c, m>>] = "ordered"}

Queues ==
  \A c \in Conns :
    /\ Distinct(queue[c])
    /\ Elements(queue[c]) = {m \in Msgs : phase[<<c, m>>] = "queued"}
    /\ c \in closed => queue[c] = <<>>

\* Whoever executes a message or has joined its execution.
AttachedPhases == OwnerPhases \cup {"join"}

Owners ==
  /\ \A c \in Conns, m \in Msgs : phase[<<c, m>>] \in AttachedPhases => replay[m] = "running"
  /\ \A m \in Msgs : replay[m] = "running" => \E c \in Conns : phase[<<c, m>>] \in OwnerPhases
  /\ \A c, e \in Conns, m \in Msgs :
       phase[<<c, m>>] \in OwnerPhases /\ phase[<<e, m>>] \in OwnerPhases => c = e

InSlots(c) == {m \in Msgs : phase[<<c, m>>] \in SlotPhases}

SlotsKept ==
  \A c \in Conns :
    IF c \in closed THEN active[c] = 0
    ELSE /\ active[c] = Cardinality(InSlots(c)) /\ active[c] <= Slots
         /\ queue[c] # <<>> => active[c] = Slots

\* The handler of a message whose reply was kept has run at most once, and not
\* yet when an execution may still begin or has not come so far.
RunsBounded ==
  \A m \in Msgs \ forgot :
    /\ runs[m] <= 1
    /\ replay[m] = "none" => runs[m] = 0
    /\ \A c \in Conns : phase[<<c, m>>] \in {"queued", "wait", "refuse"} => runs[m] = 0

\* What is over has ended somehow; what is awaited is what was sent before.
Ended ==
  /\ \A m \in Msgs : replay[m] = "done" => m \in settled
  /\ \A c \in Conns, m \in Msgs :
       /\ phase[<<c, m>>] = "reply" => m \in settled
       /\ phase[<<c, m>>] = "done" => m \in settled \cup dropped

Ordered ==
  /\ \A n \in Msgs : latest[n] # NoDelivery => latest[n] \in Conns \X {n}
  /\ \A c \in Conns, m \in Msgs :
       phase[<<c, m>>] = "wait" =>
         \A n \in After[m] : \/ n \in settled \cup dropped
                             \/ \E e \in Conns : <<e, n>> \in waits[<<c, m>>]

RpcInv ==
  /\ Types /\ Lines /\ Queues /\ Owners /\ SlotsKept /\ RunsBounded /\ Ended
  /\ Ordered /\ AfterDependencies /\ EndsAnswered

-----------------------------------------------------------------------------
\* Sequences without repetition.

(* Appending a new element adds it and repeats nothing. *)
LEMMA AppendOne ==
  ASSUME NEW S, NEW s \in Seq(S), NEW x \in S, Distinct(s), x \notin Elements(s)
  PROVE  /\ Distinct(Append(s, x)) /\ Elements(Append(s, x)) = Elements(s) \cup {x}
         /\ Append(s, x) \in Seq(S)
BY DEF Distinct, Elements

(* Taking the first element leaves the others, each once. *)
LEMMA TakeFirst ==
  ASSUME NEW S, NEW s \in Seq(S), Distinct(s), s # <<>>
  PROVE  /\ Head(s) \in S /\ Head(s) \in Elements(s) /\ Tail(s) \in Seq(S)
         /\ Distinct(Tail(s)) /\ Elements(Tail(s)) = Elements(s) \ {Head(s)}
<1>1. /\ Len(s) \in Nat \ {0} /\ Head(s) = s[1] /\ Tail(s) \in Seq(S)
      /\ Len(Tail(s)) = Len(s) - 1
      /\ \A i \in 1 .. Len(s) - 1 : Tail(s)[i] = s[i + 1]
  OBVIOUS
<1>2. Distinct(Tail(s))
  BY <1>1 DEF Distinct
<1>3. Elements(Tail(s)) \subseteq Elements(s) \ {Head(s)}
  BY <1>1 DEF Distinct, Elements
<1>4. ASSUME NEW x \in Elements(s) \ {Head(s)} PROVE x \in Elements(Tail(s))
  <2>1. PICK i \in 1 .. Len(s) : x = s[i]
    BY DEF Elements
  <2>2. i - 1 \in 1 .. Len(Tail(s)) /\ Tail(s)[i - 1] = x
    BY <1>1, <1>4, <2>1
  <2> QED
    BY <2>2 DEF Elements
<1> QED
  BY <1>1, <1>2, <1>3, <1>4 DEF Elements

-----------------------------------------------------------------------------
\* What the steps do to the phases.

(* How the sets of phases of RpcSession lie in one another. *)
LEMMA PhaseSets ==
  /\ OwnerPhases \subseteq Phases /\ SlotPhases \subseteq OwnerPhases
  /\ \A x \in OwnerPhases : x \in SlotPhases \/ x = "queued"
  /\ "ordered" \notin AttachedPhases /\ "none" \notin AttachedPhases
  /\ "done" \notin AttachedPhases /\ "reply" \notin AttachedPhases
  /\ "queued" \notin SlotPhases /\ "join" \notin OwnerPhases
BY DEF OwnerPhases, SlotPhases, Phases, AttachedPhases

(* The delivery whose turn it is leaves the line of its connection. *)
LEMMA TurnTakes ==
  ASSUME RpcInv, NEW c \in Conns, NEW m \in Msgs, Turn(c, m)
  PROVE  /\ phase[<<c, m>>] = "ordered"
         /\ line' \in [Conns -> Seq(Msgs)]
         /\ \A e \in Conns : e # c => line'[e] = line[e]
         /\ Distinct(line'[c]) /\ Elements(line'[c]) = Elements(line[c]) \ {m}
<1>1. line[c] \in Seq(Msgs) /\ Distinct(line[c]) /\ line[c] # <<>> /\ m = Head(line[c])
  BY DEF RpcInv, Types, Lines, Turn, MayTurn
<1>2. /\ m \in Elements(line[c]) /\ Tail(line[c]) \in Seq(Msgs) /\ Distinct(Tail(line[c]))
      /\ Elements(Tail(line[c])) = Elements(line[c]) \ {m}
  BY <1>1, TakeFirst
<1>3. line' = [line EXCEPT ![c] = Tail(line[c])] /\ line \in [Conns -> Seq(Msgs)]
  BY DEF Turn, RpcInv, Types
<1>4. phase[<<c, m>>] = "ordered"
  BY <1>2 DEF RpcInv, Lines
<1> QED
  BY <1>2, <1>3, <1>4

\* The slot goes to the next waiter.
Handing(c) == c \notin closed /\ queue[c] # <<>>

(* Who executes a message or has joined its execution. *)
LEMMA AttachedTo ==
  \A m \in Msgs, e \in Conns, n \in Msgs :
    <<e, n>> \in Attached(m) <=> n = m /\ phase[<<e, n>>] \in AttachedPhases
BY DEF Attached, AttachedPhases, Deliveries

\* Where the slot of m is passed on, its followers go to where.
Passed(c, m, where) ==
  /\ phase' \in [Deliveries -> Phases]
  /\ \A e \in Conns, n \in Msgs :
       phase'[<<e, n>>] =
         IF n = m THEN IF phase[<<e, n>>] \in AttachedPhases THEN where
                       ELSE phase[<<e, n>>]
         ELSE IF e = c /\ Handing(c) /\ n = Head(queue[c]) THEN WithSlot(c, n)
         ELSE phase[<<e, n>>]
  /\ Handing(c) =>
       /\ Head(queue[c]) \in Msgs /\ Head(queue[c]) # m
       /\ phase[<<c, Head(queue[c])>>] = "queued"
       /\ queue' = [queue EXCEPT ![c] = Tail(@)]
       /\ active' = active
       /\ waits' = [waits EXCEPT ![<<c, Head(queue[c])>>] =
                                   Dependencies(c, Head(queue[c]))]
  /\ ~ Handing(c) =>
       /\ UNCHANGED <<queue, waits>>
       /\ active' = IF c \in closed THEN active ELSE [active EXCEPT ![c] = @ - 1]

(* _rpcSlotRelease: the slot of an execution that ends is counted down or goes
   to the first call in the queue, and the followers of the execution end with it. *)
LEMMA SlotPassed ==
  ASSUME RpcInv, NEW c \in Conns, NEW m \in Msgs, phase[<<c, m>>] \in SlotPhases,
         NEW where \in {"reply", "done"}, PassSlot(c, Resolve(m, where))
  PROVE  Passed(c, m, where)
<1> DEFINE p == Resolve(m, where)
<1>1. /\ p \in [Deliveries -> Phases]
      /\ \A e \in Conns, n \in Msgs :
           p[<<e, n>>] = IF n = m /\ phase[<<e, n>>] \in AttachedPhases THEN where
                         ELSE phase[<<e, n>>]
  BY DEF RpcInv, Types, Resolve, Attached, AttachedPhases, Deliveries, Phases
<1>2. ASSUME Handing(c)
      PROVE  /\ Head(queue[c]) \in Msgs /\ Head(queue[c]) # m
             /\ phase[<<c, Head(queue[c])>>] = "queued"
  <2>1. Head(queue[c]) \in Msgs /\ Head(queue[c]) \in Elements(queue[c])
    BY <1>2, TakeFirst DEF Handing, RpcInv, Types, Queues
  <2> QED
    BY <2>1, PhaseSets DEF RpcInv, Queues
<1>3. CASE Handing(c)
  <2> DEFINE h == Head(queue[c])
  <2>1. /\ phase' = [p EXCEPT ![<<c, h>>] = WithSlot(c, h)]
        /\ queue' = [queue EXCEPT ![c] = Tail(@)]
        /\ active' = active
        /\ waits' = [waits EXCEPT ![<<c, h>>] = Dependencies(c, h)]
    BY <1>3 DEF PassSlot, Handing
  <2>2. WithSlot(c, h) \in Phases /\ <<c, h>> \in Deliveries
    BY <1>2, <1>3 DEF WithSlot, Phases, Deliveries
  <2> HIDE DEF p
  <2>3. phase' \in [Deliveries -> Phases]
    BY <1>1, <2>1, <2>2
  <2>4. ASSUME NEW e \in Conns, NEW n \in Msgs
        PROVE  phase'[<<e, n>>] = IF e = c /\ n = h THEN WithSlot(c, n) ELSE p[<<e, n>>]
    BY <1>1, <2>1, <2>2 DEF Deliveries
  <2> QED
    BY <1>1, <1>2, <1>3, <2>1, <2>3, <2>4 DEF Passed
<1>4. CASE ~ Handing(c)
  <2>1. /\ phase' = p /\ UNCHANGED <<queue, waits>>
        /\ active' = IF c \in closed THEN active ELSE [active EXCEPT ![c] = @ - 1]
    BY <1>4 DEF PassSlot, Handing
  <2> QED
    BY <1>1, <1>4, <2>1 DEF Passed
<1> QED
  BY <1>3, <1>4

\* One delivery goes to phase x.
Sets(c, m, x) ==
  /\ phase' \in [Deliveries -> Phases]
  /\ \A e \in Conns, n \in Msgs :
       phase'[<<e, n>>] = IF e = c /\ n = m THEN x ELSE phase[<<e, n>>]

(* A step that assigns one phase changes that phase only. *)
LEMMA OneSet ==
  ASSUME RpcInv, NEW c \in Conns, NEW m \in Msgs, NEW x \in Phases,
         phase' = [phase EXCEPT ![<<c, m>>] = x]
  PROVE  Sets(c, m, x)
BY DEF RpcInv, Types, Deliveries, Sets

\* The slot of m is passed on by the step.
Releases(c, m) ==
  /\ phase[<<c, m>>] \in SlotPhases
  /\ \E where \in {"reply", "done"} : Passed(c, m, where)

(* The four steps that end an execution in a slot pass the slot on. *)
LEMMA Releasing ==
  ASSUME RpcInv, NEW c \in Conns, NEW m \in Msgs,
         Refuse(c, m) \/ Abandon(c, m) \/ Finish(c, m) \/ ReplyFails(c, m)
  PROVE  Releases(c, m)
<1>1. /\ phase[<<c, m>>] \in SlotPhases
      /\ PassSlot(c, Resolve(m, "reply")) \/ PassSlot(c, Resolve(m, "done"))
  BY DEF Refuse, Abandon, Finish, ReplyFails, Settles, SlotPhases, DependenciesMet
<1> QED
  BY <1>1, SlotPassed DEF Releases

\* The calls in the queue of the connection that closes are told, and their
\* followers with them.
Told(c) ==
  /\ phase' \in [Deliveries -> Phases]
  /\ \A e \in Conns, n \in Msgs :
       phase'[<<e, n>>] =
         IF phase[<<c, n>>] = "queued" /\ phase[<<e, n>>] \in AttachedPhases
         THEN "done" ELSE phase[<<e, n>>]
  /\ \A n \in Msgs : replay'[n] = IF phase[<<c, n>>] = "queued" THEN "none" ELSE replay[n]
  /\ \A n \in Msgs : phase[<<c, n>>] = "queued" => n \in dropped'

(* _releasePendingRpcWaiters: closing a connection tells its queued calls and who follows them. *)
LEMMA Closing ==
  ASSUME RpcInv, NEW c \in Conns, Close(c)
  PROVE  Told(c)
<1> DEFINE ms == {m \in Msgs : phase[<<c, m>>] = "queued"}
           all == UNION {Attached(m) : m \in ms}
<1>1. /\ phase' = [d \in Deliveries |-> IF d \in all THEN "done" ELSE phase[d]]
      /\ replay' = [m \in Msgs |-> IF m \in ms THEN "none" ELSE replay[m]]
      /\ dropped' = dropped \cup ms
  BY DEF Close, Rejected
<1>2. ASSUME NEW e \in Conns, NEW n \in Msgs
      PROVE  <<e, n>> \in all <=> n \in ms /\ phase[<<e, n>>] \in AttachedPhases
  <2>1. <<e, n>> \in all <=> \E m \in ms : <<e, n>> \in Attached(m)
    OBVIOUS
  <2>2. ms \subseteq Msgs
    OBVIOUS
  <2> HIDE DEF ms, all
  <2> QED
    BY <2>1, <2>2, AttachedTo
<1>3. phase' \in [Deliveries -> Phases]
  BY <1>1 DEF RpcInv, Types, Phases
<1> HIDE DEF all
<1> QED
  BY <1>1, <1>2, <1>3 DEF Deliveries, Told

-----------------------------------------------------------------------------
\* Every part of the invariant is kept by every step.

(* A call awaits deliveries. *)
LEMMA Awaiting ==
  ASSUME RpcInv, NEW c \in Conns, NEW m \in Msgs
  PROVE  Dependencies(c, m) \in SUBSET Deliveries
<1>1. ASSUME NEW n \in After[m] PROVE Awaited(c, n) \in SUBSET Deliveries
  <2>1. n \in Msgs /\ <<c, n>> \in Deliveries
    BY RpcAssumption DEF Deliveries
  <2> QED
    BY <2>1 DEF RpcInv, Types, Awaited
<1> QED
  BY <1>1 DEF Dependencies, Outstanding

(* The state keeps its types. *)
LEMMA TypesKept == RpcInv /\ RpcNext => Types'
<1> SUFFICES ASSUME RpcInv, RpcNext PROVE Types'
  OBVIOUS
<1> USE RpcAssumption
<1>0. \A c \in Conns, m \in Msgs : <<c, m>> \in Deliveries
  BY DEF Deliveries
<1>1. ASSUME NEW c \in Conns, NEW m \in Msgs, Arrive(c, m) PROVE Types'
  <2>1. /\ phase' \in [Deliveries -> Phases]
        /\ latest' \in [Msgs -> Deliveries \cup {NoDelivery}]
    BY <1>0, <1>1 DEF RpcInv, Types, Arrive, Phases
  <2>2. line' \in [Conns -> Seq(Msgs)]
    BY <1>1 DEF RpcInv, Types, Arrive
  <2> QED
    BY <1>1, <2>1, <2>2 DEF RpcInv, Types, Arrive, rpcHistory
<1>2. ASSUME NEW c \in Conns, NEW m \in Msgs,
             TurnClosed(c, m) \/ Join(c, m) \/ Refused(c, m)
      PROVE  Types'
  <2>1. line' \in [Conns -> Seq(Msgs)]
    BY <1>2, TurnTakes DEF TurnClosed, Join, Refused
  <2>2. CASE TurnClosed(c, m)
    BY <2>1, <2>2 DEF RpcInv, Types, TurnClosed, Phases
  <2>3. CASE Join(c, m)
    BY <2>1, <2>3 DEF RpcInv, Types, Join, rpcHistory, Phases
  <2>4. CASE Refused(c, m)
    BY <1>0, <2>1, <2>4 DEF RpcInv, Types, Refused, Phases
  <2> QED
    BY <1>2, <2>2, <2>3, <2>4
<1>3. ASSUME NEW c \in Conns, NEW m \in Msgs, Execute(c, m) PROVE Types'
  <2>1. line' \in [Conns -> Seq(Msgs)]
    BY <1>3, TurnTakes DEF Execute
  <2>2. WithSlot(c, m) \in Phases /\ Dependencies(c, m) \in SUBSET Deliveries
    BY Awaiting DEF WithSlot, Phases
  <2>3. CASE /\ replay' = [replay EXCEPT ![m] = "running"]
             /\ active' = [active EXCEPT ![c] = @ + 1]
             /\ phase' = [phase EXCEPT ![<<c, m>>] = WithSlot(c, m)]
             /\ waits' = [waits EXCEPT ![<<c, m>>] = Dependencies(c, m)]
             /\ UNCHANGED <<queue, settled>>
    <3>1. phase' \in [Deliveries -> Phases] /\ waits' \in [Deliveries -> SUBSET Deliveries]
      BY <1>0, <2>2, <2>3 DEF RpcInv, Types
    <3>2. replay' \in [Msgs -> {"none", "running", "done"}] /\ active' \in [Conns -> Int]
      BY <2>3 DEF RpcInv, Types
    <3> QED
      BY <1>3, <2>1, <2>3, <3>1, <3>2 DEF RpcInv, Types, Execute
  <2>4. CASE /\ replay' = [replay EXCEPT ![m] = "running"]
             /\ queue' = [queue EXCEPT ![c] = Append(@, m)]
             /\ phase' = [phase EXCEPT ![<<c, m>>] = "queued"]
             /\ UNCHANGED <<active, waits, settled>>
    <3>1. queue' \in [Conns -> Seq(Msgs)]
      BY <2>4 DEF RpcInv, Types
    <3> QED
      BY <1>3, <2>1, <2>4, <3>1 DEF RpcInv, Types, Execute, Phases
  <2>5. CASE /\ replay' = [replay EXCEPT ![m] = "done"]
             /\ phase' = [phase EXCEPT ![<<c, m>>] = "reply"]
             /\ settled' = settled \cup {m}
             /\ UNCHANGED <<active, queue, waits>>
    BY <1>3, <2>1, <2>5 DEF RpcInv, Types, Execute, Phases
  <2> QED
    BY <1>3, <2>3, <2>4, <2>5 DEF Execute
<1>4. ASSUME NEW c \in Conns, NEW m \in Msgs, Run(c, m) PROVE Types'
  BY <1>0, <1>4 DEF RpcInv, Types, Run, Phases
<1>5. ASSUME NEW c \in Conns, NEW m \in Msgs,
             Refuse(c, m) \/ Abandon(c, m) \/ Finish(c, m) \/ ReplyFails(c, m)
      PROVE  Types'
  <2>1. PICK where \in {"reply", "done"} : Passed(c, m, where)
    BY <1>5, Releasing DEF Releases
  <2>2. phase' \in [Deliveries -> Phases]
    BY <2>1 DEF Passed
  <2>3. /\ active' \in [Conns -> Int] /\ queue' \in [Conns -> Seq(Msgs)]
        /\ waits' \in [Deliveries -> SUBSET Deliveries]
    <3>1. CASE Handing(c)
      <4>1. /\ Head(queue[c]) \in Msgs
            /\ queue' = [queue EXCEPT ![c] = Tail(@)] /\ active' = active
            /\ waits' = [waits EXCEPT ![<<c, Head(queue[c])>>] =
                                        Dependencies(c, Head(queue[c]))]
        BY <2>1, <3>1 DEF Passed
      <4>2. Tail(queue[c]) \in Seq(Msgs)
        BY <3>1 DEF Handing, RpcInv, Types
      <4>3. Dependencies(c, Head(queue[c])) \in SUBSET Deliveries
        BY <4>1, Awaiting
      <4> QED
        BY <4>1, <4>2, <4>3 DEF RpcInv, Types
    <3>2. CASE ~ Handing(c)
      <4>1. /\ UNCHANGED <<queue, waits>>
            /\ active' = IF c \in closed THEN active ELSE [active EXCEPT ![c] = @ - 1]
        BY <2>1, <3>2 DEF Passed
      <4> QED
        BY <4>1 DEF RpcInv, Types
    <3> QED
      BY <3>1, <3>2
  <2>4. replay' \in [Msgs -> {"none", "running", "done"}]
    BY <1>5 DEF RpcInv, Types, Refuse, Abandon, Finish, ReplyFails, Settles, Rejected
  <2>5. silenced' \subseteq Deliveries
    <3>1. CASE Rejected({m}, closed)
      BY <3>1 DEF RpcInv, Types, Rejected, Attached
    <3>2. CASE UNCHANGED silenced
      BY <3>2 DEF RpcInv, Types
    <3> QED
      BY <1>5, <3>1, <3>2 DEF Refuse, Abandon, Finish, ReplyFails
  <2> QED
    BY <1>5, <2>2, <2>3, <2>4, <2>5 DEF RpcInv, Types, Refuse, Abandon, Finish, ReplyFails, Settles
<1>6. ASSUME NEW c \in Conns, NEW m \in Msgs, Reply(c, m) PROVE Types'
  BY <1>0, <1>6 DEF RpcInv, Types, Reply, Phases
<1>7. ASSUME NEW c \in Conns, Close(c) PROVE Types'
  <2>1. phase' \in [Deliveries -> Phases]
    BY <1>7, Closing DEF Told
  <2>2. /\ replay' \in [Msgs -> {"none", "running", "done"}]
        /\ silenced' \subseteq Deliveries /\ dropped' \subseteq Msgs
    BY <1>7 DEF RpcInv, Types, Close, Rejected, Attached
  <2>3. queue' \in [Conns -> Seq(Msgs)] /\ active' \in [Conns -> Int] /\ closed' \subseteq Conns
    BY <1>7 DEF RpcInv, Types, Close
  <2> QED
    BY <1>7, <2>1, <2>2, <2>3 DEF RpcInv, Types, Close
<1>8. ASSUME NEW m \in Msgs, Prune(m) PROVE Types'
  BY <1>8 DEF RpcInv, Types, Prune
<1> QED
  BY <1>1, <1>2, <1>3, <1>4, <1>5, <1>6, <1>7, <1>8 DEF RpcNext, RpcStep

\* The lines.

(* The line stands for the ordered deliveries after one of them had its turn. *)
LEMMA LineShortens ==
  ASSUME RpcInv, NEW c \in Conns, NEW m \in Msgs, Turn(c, m),
         NEW x \in Phases \ {"ordered"}, phase' = [phase EXCEPT ![<<c, m>>] = x]
  PROVE  Lines'
<1>1. \A e \in Conns, n \in Msgs :
        phase'[<<e, n>>] = IF e = c /\ n = m THEN x ELSE phase[<<e, n>>]
  <2>1. Sets(c, m, x)
    BY OneSet
  <2> QED
    BY <2>1 DEF Sets
<1>2. /\ \A e \in Conns : e # c => line'[e] = line[e]
      /\ Distinct(line'[c]) /\ Elements(line'[c]) = Elements(line[c]) \ {m}
  BY TurnTakes
<1>3. ASSUME NEW e \in Conns
      PROVE  /\ Distinct(line'[e])
             /\ Elements(line'[e]) = {n \in Msgs : phase'[<<e, n>>] = "ordered"}
  <2>1. /\ Distinct(line[e])
        /\ Elements(line[e]) = {n \in Msgs : phase[<<e, n>>] = "ordered"}
    BY DEF RpcInv, Lines
  <2>2. CASE e = c
    BY <1>1, <1>2, <2>1, <2>2
  <2>3. CASE e # c
    <3>1. \A n \in Msgs : phase'[<<e, n>>] = phase[<<e, n>>]
      BY <1>1, <2>3
    <3> QED
      BY <1>2, <2>1, <2>3, <3>1
  <2> QED
    BY <2>2, <2>3
<1> QED
  BY <1>3 DEF Lines, Distinct, Elements

(* The line stands for them while no delivery enters or leaves the phase. *)
LEMMA LinesStay ==
  ASSUME RpcInv, line' = line,
         \A e \in Conns, n \in Msgs :
           phase'[<<e, n>>] = "ordered" <=> phase[<<e, n>>] = "ordered"
  PROVE  Lines'
<1>1. ASSUME NEW e \in Conns
      PROVE  /\ Distinct(line'[e])
             /\ Elements(line'[e]) = {n \in Msgs : phase'[<<e, n>>] = "ordered"}
  BY DEF RpcInv, Lines
<1> QED
  BY <1>1 DEF Lines, Distinct, Elements

\* What a step that passes on a slot does to other deliveries.
Follows(c, m) ==
  \A e \in Conns, n \in Msgs :
    \/ phase'[<<e, n>>] = phase[<<e, n>>]
    \/ /\ n = m /\ phase[<<e, n>>] \in AttachedPhases
       /\ phase'[<<e, n>>] \in {"reply", "done"}
    \/ /\ e = c /\ Handing(c) /\ n = Head(queue[c]) /\ phase[<<e, n>>] = "queued"
       /\ n # m /\ phase'[<<e, n>>] = WithSlot(c, n)

(* Passing a slot on leaves the phases of all other deliveries alone. *)
LEMMA Following ==
  ASSUME NEW c \in Conns, NEW m \in Msgs, Releases(c, m)
  PROVE  Follows(c, m)
BY DEF Releases, Passed, Follows

(* The line of a connection holds its ordered deliveries, each once. *)
LEMMA LinesKept == RpcInv /\ RpcNext => Lines'
<1> SUFFICES ASSUME RpcInv, RpcNext PROVE Lines'
  OBVIOUS
<1>1. ASSUME NEW c \in Conns, NEW m \in Msgs, Arrive(c, m) PROVE Lines'
  <2>1. \A e \in Conns, n \in Msgs :
          phase'[<<e, n>>] = IF e = c /\ n = m THEN "ordered" ELSE phase[<<e, n>>]
    <3>1. Sets(c, m, "ordered")
      BY <1>1, OneSet DEF Arrive, Phases
    <3> QED
      BY <3>1 DEF Sets
  <2>2. /\ line[c] \in Seq(Msgs) /\ Distinct(line[c]) /\ m \notin Elements(line[c])
        /\ line' = [line EXCEPT ![c] = Append(@, m)] /\ line \in [Conns -> Seq(Msgs)]
    BY <1>1 DEF Arrive, RpcInv, Types, Lines
  <2>3. /\ Distinct(line'[c]) /\ Elements(line'[c]) = Elements(line[c]) \cup {m}
        /\ \A e \in Conns : e # c => line'[e] = line[e]
    BY <2>2, AppendOne
  <2>4. ASSUME NEW e \in Conns
        PROVE  /\ Distinct(line'[e])
               /\ Elements(line'[e]) = {n \in Msgs : phase'[<<e, n>>] = "ordered"}
    <3>1. /\ Distinct(line[e])
          /\ Elements(line[e]) = {n \in Msgs : phase[<<e, n>>] = "ordered"}
      BY DEF RpcInv, Lines
    <3>2. CASE e = c
      BY <2>1, <2>3, <3>1, <3>2
    <3>3. CASE e # c
      <4>1. \A n \in Msgs : phase'[<<e, n>>] = phase[<<e, n>>]
        BY <2>1, <3>3
      <4> QED
        BY <2>3, <3>1, <3>3, <4>1
    <3> QED
      BY <3>2, <3>3
  <2> QED
    BY <2>4 DEF Lines, Distinct, Elements
<1>2. ASSUME NEW c \in Conns, NEW m \in Msgs,
             TurnClosed(c, m) \/ Join(c, m) \/ Refused(c, m) \/ Execute(c, m)
      PROVE  Lines'
  <2>1. Turn(c, m) /\ \E x \in Phases \ {"ordered"} : phase' = [phase EXCEPT ![<<c, m>>] = x]
    BY <1>2 DEF TurnClosed, Join, Refused, Execute, WithSlot, Phases
  <2> QED
    BY <2>1, LineShortens
<1>3. ASSUME NEW c \in Conns, NEW m \in Msgs, Run(c, m) \/ Reply(c, m) PROVE Lines'
  <2>1. PICK x \in {"run", "done"} : phase' = [phase EXCEPT ![<<c, m>>] = x]
    BY <1>3 DEF Run, Reply
  <2>2. \A e \in Conns, n \in Msgs :
          phase'[<<e, n>>] = IF e = c /\ n = m THEN x ELSE phase[<<e, n>>]
    <3>1. Sets(c, m, x)
      BY <2>1, OneSet DEF Phases
    <3> QED
      BY <3>1 DEF Sets
  <2> QED
    BY <1>3, <2>2, LinesStay DEF Run, Reply, DependenciesMet
<1>4. ASSUME NEW c \in Conns, NEW m \in Msgs,
             Refuse(c, m) \/ Abandon(c, m) \/ Finish(c, m) \/ ReplyFails(c, m)
      PROVE  Lines'
  <2>1. line' = line
    BY <1>4 DEF Refuse, Abandon, Finish, ReplyFails
  <2>2. \A e \in Conns, n \in Msgs :
          phase'[<<e, n>>] = "ordered" <=> phase[<<e, n>>] = "ordered"
    <3>1. Follows(c, m)
      BY <1>4, Releasing, Following
    <3> QED
      BY <3>1, PhaseSets DEF Follows, WithSlot
  <2> QED
    BY <2>1, <2>2, LinesStay
<1>5. ASSUME NEW c \in Conns, Close(c) PROVE Lines'
  <2>1. line' = line
    BY <1>5 DEF Close
  <2>2. \A e \in Conns, n \in Msgs :
          phase'[<<e, n>>] = "ordered" <=> phase[<<e, n>>] = "ordered"
    BY <1>5, Closing, PhaseSets DEF Told
  <2> QED
    BY <2>1, <2>2, LinesStay
<1>6. ASSUME NEW m \in Msgs, Prune(m) PROVE Lines'
  BY <1>6, LinesStay DEF Prune
<1> QED
  BY <1>1, <1>2, <1>3, <1>4, <1>5, <1>6 DEF RpcNext, RpcStep

-----------------------------------------------------------------------------
\* The queues.

(* The queue stands for the queued calls while none enters or leaves the phase. *)
LEMMA QueuesStay ==
  ASSUME RpcInv, queue' = queue, closed' = closed,
         \A e \in Conns, n \in Msgs :
           phase'[<<e, n>>] = "queued" <=> phase[<<e, n>>] = "queued"
  PROVE  Queues'
<1>1. ASSUME NEW e \in Conns
      PROVE  /\ Distinct(queue'[e])
             /\ Elements(queue'[e]) = {n \in Msgs : phase'[<<e, n>>] = "queued"}
             /\ e \in closed' => queue'[e] = <<>>
  BY DEF RpcInv, Queues
<1> QED
  BY <1>1 DEF Queues, Distinct, Elements

(* The queue of a connection holds its queued calls, each once, and is empty once it is closed. *)
LEMMA QueuesKept == RpcInv /\ RpcNext => Queues'
<1> SUFFICES ASSUME RpcInv, RpcNext PROVE Queues'
  OBVIOUS
<1>1. ASSUME NEW c \in Conns, NEW m \in Msgs, NEW x \in Phases \ {"queued"},
             phase[<<c, m>>] # "queued", phase' = [phase EXCEPT ![<<c, m>>] = x],
             queue' = queue, closed' = closed
      PROVE  Queues'
  <2>1. Sets(c, m, x)
    BY <1>1, OneSet
  <2>2. \A e \in Conns, n \in Msgs :
          phase'[<<e, n>>] = "queued" <=> phase[<<e, n>>] = "queued"
    BY <1>1, <2>1 DEF Sets
  <2> QED
    BY <1>1, <2>2, QueuesStay
<1>2. ASSUME NEW c \in Conns, NEW m \in Msgs,
             \/ Arrive(c, m) \/ TurnClosed(c, m) \/ Join(c, m) \/ Refused(c, m)
             \/ Run(c, m) \/ Reply(c, m)
      PROVE  Queues'
  <2>1. \E x \in Phases \ {"queued"} : phase' = [phase EXCEPT ![<<c, m>>] = x]
    BY <1>2 DEF Arrive, TurnClosed, Join, Refused, Run, Reply, Phases
  <2>2. phase[<<c, m>>] # "queued"
    BY <1>2, TurnTakes DEF Arrive, TurnClosed, Join, Refused, Run, Reply, DependenciesMet
  <2>3. queue' = queue /\ closed' = closed
    BY <1>2 DEF Arrive, TurnClosed, Join, Refused, Run, Reply
  <2> QED
    BY <1>1, <2>1, <2>2, <2>3
<1>3. ASSUME NEW c \in Conns, NEW m \in Msgs, Execute(c, m) PROVE Queues'
  <2>1. phase[<<c, m>>] = "ordered" /\ closed' = closed /\ c \notin closed
    BY <1>3, TurnTakes DEF Execute
  <2>2. CASE queue' = queue /\ \E x \in Phases \ {"queued"} : phase' = [phase EXCEPT ![<<c, m>>] = x]
    BY <1>1, <2>1, <2>2
  <2>3. CASE queue' = [queue EXCEPT ![c] = Append(@, m)] /\ phase' = [phase EXCEPT ![<<c, m>>] = "queued"]
    <3>1. \A e \in Conns, n \in Msgs :
            phase'[<<e, n>>] = IF e = c /\ n = m THEN "queued" ELSE phase[<<e, n>>]
      <4>1. Sets(c, m, "queued")
        BY <2>3, OneSet DEF Phases
      <4> QED
        BY <4>1 DEF Sets
    <3>2. /\ queue[c] \in Seq(Msgs) /\ Distinct(queue[c]) /\ m \notin Elements(queue[c])
          /\ queue \in [Conns -> Seq(Msgs)]
      BY <2>1 DEF RpcInv, Types, Queues
    <3>3. /\ Distinct(queue'[c]) /\ Elements(queue'[c]) = Elements(queue[c]) \cup {m}
          /\ \A e \in Conns : e # c => queue'[e] = queue[e]
      BY <2>3, <3>2, AppendOne
    <3>4. ASSUME NEW e \in Conns
          PROVE  /\ Distinct(queue'[e])
                 /\ Elements(queue'[e]) = {n \in Msgs : phase'[<<e, n>>] = "queued"}
                 /\ e \in closed' => queue'[e] = <<>>
      <4>1. /\ Distinct(queue[e])
            /\ Elements(queue[e]) = {n \in Msgs : phase[<<e, n>>] = "queued"}
            /\ e \in closed => queue[e] = <<>>
        BY DEF RpcInv, Queues
      <4>2. CASE e = c
        BY <2>1, <3>1, <3>3, <4>1, <4>2
      <4>3. CASE e # c
        <5>1. \A n \in Msgs : phase'[<<e, n>>] = phase[<<e, n>>]
          BY <3>1, <4>3
        <5> QED
          BY <2>1, <3>3, <4>1, <4>3, <5>1
      <4> QED
        BY <4>2, <4>3
    <3> QED
      BY <3>4 DEF Queues, Distinct, Elements
  <2> QED
    BY <1>3, <2>2, <2>3 DEF Execute, WithSlot, Phases
<1>4. ASSUME NEW c \in Conns, NEW m \in Msgs,
             Refuse(c, m) \/ Abandon(c, m) \/ Finish(c, m) \/ ReplyFails(c, m)
      PROVE  Queues'
  <2>1. closed' = closed
    BY <1>4 DEF Refuse, Abandon, Finish, ReplyFails
  <2>2. PICK where \in {"reply", "done"} :
          phase[<<c, m>>] \in SlotPhases /\ Passed(c, m, where)
    BY <1>4, Releasing DEF Releases
  <2>3. \A e \in Conns, n \in Msgs :
          phase[<<e, n>>] = "queued" => phase[<<e, n>>] \in AttachedPhases
    BY DEF AttachedPhases, OwnerPhases
  <2>4. \A e \in Conns : phase[<<e, m>>] # "queued"
    BY <2>2, PhaseSets DEF RpcInv, Owners, OwnerPhases
  <2>5. CASE Handing(c)
    <3> DEFINE h == Head(queue[c])
    <3>1. /\ h \in Msgs /\ queue' = [queue EXCEPT ![c] = Tail(@)]
          /\ queue[c] # <<>> /\ c \notin closed /\ h # m
      BY <2>2, <2>5 DEF Handing, Passed
    <3>2. \A e \in Conns, n \in Msgs :
            phase'[<<e, n>>] = "queued" <=> phase[<<e, n>>] = "queued" /\ ~ (e = c /\ n = h)
      BY <2>2, <2>4, <2>5 DEF WithSlot, Passed
    <3>3. queue[c] \in Seq(Msgs) /\ Distinct(queue[c]) /\ queue \in [Conns -> Seq(Msgs)]
      BY DEF RpcInv, Types, Queues
    <3>4. /\ Distinct(queue'[c]) /\ Elements(queue'[c]) = Elements(queue[c]) \ {h}
          /\ \A e \in Conns : e # c => queue'[e] = queue[e]
      BY <3>1, <3>3, TakeFirst
    <3> HIDE DEF h
    <3>5. ASSUME NEW e \in Conns
          PROVE  /\ Distinct(queue'[e])
                 /\ Elements(queue'[e]) = {n \in Msgs : phase'[<<e, n>>] = "queued"}
                 /\ e \in closed' => queue'[e] = <<>>
      <4>1. /\ Distinct(queue[e])
            /\ Elements(queue[e]) = {n \in Msgs : phase[<<e, n>>] = "queued"}
            /\ e \in closed => queue[e] = <<>>
        BY DEF RpcInv, Queues
      <4>2. CASE e = c
        BY <2>1, <3>1, <3>2, <3>4, <4>1, <4>2
      <4>3. CASE e # c
        <5>1. \A n \in Msgs : phase'[<<e, n>>] = "queued" <=> phase[<<e, n>>] = "queued"
          BY <3>2, <4>3
        <5> QED
          BY <2>1, <3>4, <4>1, <4>3, <5>1
      <4> QED
        BY <4>2, <4>3
    <3> QED
      BY <3>5 DEF Queues, Distinct, Elements
  <2>6. CASE ~ Handing(c)
    <3>1. queue' = queue
      BY <2>2, <2>6 DEF Passed
    <3>2. \A e \in Conns, n \in Msgs :
            phase'[<<e, n>>] = "queued" <=> phase[<<e, n>>] = "queued"
      BY <2>2, <2>4, <2>6 DEF Passed
    <3> QED
      BY <2>1, <3>1, <3>2, QueuesStay
  <2> QED
    BY <2>5, <2>6
<1>5. ASSUME NEW c \in Conns, Close(c) PROVE Queues'
  <2>1. \A e \in Conns, n \in Msgs :
          phase'[<<e, n>>] = "queued" <=> phase[<<e, n>>] = "queued" /\ e # c
    <3>1. \A e \in Conns, n \in Msgs :
            phase[<<e, n>>] = "queued" =>
              phase[<<e, n>>] \in OwnerPhases /\ phase[<<e, n>>] \in AttachedPhases
      BY DEF AttachedPhases, OwnerPhases
    <3>2. \A e \in Conns, n \in Msgs :
            phase[<<e, n>>] = "queued" /\ phase[<<c, n>>] = "queued" => e = c
      BY <3>1 DEF RpcInv, Owners
    <3>3. Told(c)
      BY <1>5, Closing
    <3> QED
      BY <3>1, <3>2, <3>3 DEF Told
  <2>2. /\ queue' = [queue EXCEPT ![c] = <<>>] /\ closed' = closed \cup {c}
        /\ queue \in [Conns -> Seq(Msgs)]
    BY <1>5 DEF Close, RpcInv, Types
  <2>3. ASSUME NEW e \in Conns
        PROVE  /\ Distinct(queue'[e])
               /\ Elements(queue'[e]) = {n \in Msgs : phase'[<<e, n>>] = "queued"}
               /\ e \in closed' => queue'[e] = <<>>
    <3>1. /\ Distinct(queue[e])
          /\ Elements(queue[e]) = {n \in Msgs : phase[<<e, n>>] = "queued"}
          /\ e \in closed => queue[e] = <<>>
      BY DEF RpcInv, Queues
    <3>2. CASE e = c
      <4>1. queue'[e] = <<>> /\ Elements(<<>>) = {} /\ Distinct(<<>>)
        BY <2>2, <3>2 DEF Elements, Distinct
      <4> QED
        BY <2>1, <3>2, <4>1
    <3>3. CASE e # c
      <4>1. \A n \in Msgs : phase'[<<e, n>>] = "queued" <=> phase[<<e, n>>] = "queued"
        BY <2>1, <3>3
      <4> QED
        BY <2>2, <3>1, <3>3, <4>1
    <3> QED
      BY <3>2, <3>3
  <2> QED
    BY <2>3 DEF Queues, Distinct, Elements
<1>6. ASSUME NEW m \in Msgs, Prune(m) PROVE Queues'
  BY <1>6, QueuesStay DEF Prune
<1> QED
  BY <1>2, <1>3, <1>4, <1>5, <1>6 DEF RpcNext, RpcStep

-----------------------------------------------------------------------------
\* Executions and the entries of the cache.

(* A message is being executed when the cache says so, by one delivery. *)
LEMMA OwnersKept == RpcInv /\ RpcNext => Owners'
<1> SUFFICES ASSUME RpcInv, RpcNext PROVE Owners'
  OBVIOUS
<1>0. Owners /\ replay \in [Msgs -> {"none", "running", "done"}]
  BY DEF RpcInv, Types
<1>1. ASSUME replay' = replay,
             \A e \in Conns, n \in Msgs :
               /\ phase'[<<e, n>>] \in OwnerPhases <=> phase[<<e, n>>] \in OwnerPhases
               /\ \/ phase'[<<e, n>>] \in AttachedPhases => phase[<<e, n>>] \in AttachedPhases
                  \/ replay[n] = "running"
      PROVE  Owners'
  BY <1>0, <1>1 DEF Owners
<1>2. ASSUME NEW c \in Conns, NEW m \in Msgs,
             Arrive(c, m) \/ TurnClosed(c, m) \/ Refused(c, m) \/ Reply(c, m)
      PROVE  Owners'
  <2>1. /\ phase[<<c, m>>] \in {"none", "ordered", "reply"} /\ replay' = replay
        /\ \E x \in {"ordered", "done"} : phase' = [phase EXCEPT ![<<c, m>>] = x]
    BY <1>2, TurnTakes DEF Arrive, TurnClosed, Refused, Reply
  <2>2. \E x \in {"ordered", "done"} : Sets(c, m, x)
    BY <2>1, OneSet DEF Phases
  <2> QED
    BY <1>1, <2>1, <2>2 DEF Sets, OwnerPhases, AttachedPhases
<1>3. ASSUME NEW c \in Conns, NEW m \in Msgs, Join(c, m) PROVE Owners'
  <2>1. /\ phase[<<c, m>>] = "ordered" /\ replay' = replay
        /\ phase' = [phase EXCEPT ![<<c, m>>] = IF replay[m] = "done" THEN "reply" ELSE "join"]
    BY <1>3, TurnTakes DEF Join
  <2>2. replay[m] # "done" => replay[m] = "running"
    BY <1>0, <1>3 DEF Join, Known
  <2>3. Sets(c, m, IF replay[m] = "done" THEN "reply" ELSE "join")
    BY <2>1, OneSet DEF Phases
  <2> QED
    BY <1>1, <2>1, <2>2, <2>3 DEF Sets, OwnerPhases, AttachedPhases
<1>4. ASSUME NEW c \in Conns, NEW m \in Msgs, Execute(c, m) PROVE Owners'
  <2>1. /\ phase[<<c, m>>] = "ordered" /\ replay[m] = "none"
        /\ \A e \in Conns : phase[<<e, m>>] \notin AttachedPhases
    BY <1>0, <1>4, TurnTakes DEF Execute, Known, Owners
  <2>2. CASE /\ replay' = [replay EXCEPT ![m] = "running"]
             /\ \E x \in {"wait", "refuse", "queued"} : phase' = [phase EXCEPT ![<<c, m>>] = x]
    <3>1. PICK x \in {"wait", "refuse", "queued"} : Sets(c, m, x)
      BY <2>2, OneSet DEF Phases
    <3>2. /\ \A n \in Msgs : replay'[n] = IF n = m THEN "running" ELSE replay[n]
          /\ x \in OwnerPhases
      BY <1>0, <2>2 DEF OwnerPhases
    <3>3. \A e \in Conns, n \in Msgs :
            phase'[<<e, n>>] = IF e = c /\ n = m THEN x ELSE phase[<<e, n>>]
      BY <3>1 DEF Sets
    <3>4. /\ x \in AttachedPhases /\ \A e \in Conns : phase[<<e, m>>] \notin OwnerPhases
      BY <2>1, <3>2 DEF AttachedPhases
    <3>5. \A n \in Msgs \ {m} :
            /\ replay'[n] = replay[n]
            /\ \A e \in Conns : phase'[<<e, n>>] = phase[<<e, n>>]
      BY <3>2, <3>3
    <3>6. /\ replay'[m] = "running"
          /\ \A e \in Conns : phase'[<<e, m>>] \in OwnerPhases <=> e = c
      BY <3>2, <3>3, <3>4
    <3> QED
      BY <1>0, <3>5, <3>6 DEF Owners
  <2>3. CASE /\ replay' = [replay EXCEPT ![m] = "done"]
             /\ phase' = [phase EXCEPT ![<<c, m>>] = "reply"]
    <3>1. Sets(c, m, "reply")
      BY <2>3, OneSet DEF Phases
    <3>2. /\ \A n \in Msgs : replay'[n] = IF n = m THEN "done" ELSE replay[n]
          /\ "reply" \notin AttachedPhases /\ OwnerPhases \subseteq AttachedPhases
      BY <1>0, <2>3 DEF OwnerPhases, AttachedPhases
    <3>3. \A e \in Conns, n \in Msgs :
            phase'[<<e, n>>] = IF e = c /\ n = m THEN "reply" ELSE phase[<<e, n>>]
      BY <3>1 DEF Sets
    <3> QED
      BY <1>0, <2>1, <3>2, <3>3 DEF Owners
  <2> QED
    BY <1>4, <2>2, <2>3 DEF Execute, WithSlot
<1>5. ASSUME NEW c \in Conns, NEW m \in Msgs, Run(c, m) PROVE Owners'
  <2>1. Sets(c, m, "run") /\ phase[<<c, m>>] = "wait" /\ replay' = replay
    BY <1>5, OneSet DEF Run, DependenciesMet, Phases
  <2> QED
    BY <1>1, <2>1 DEF Sets, OwnerPhases, AttachedPhases
<1>6. ASSUME NEW c \in Conns, NEW m \in Msgs,
             Refuse(c, m) \/ Abandon(c, m) \/ Finish(c, m) \/ ReplyFails(c, m)
      PROVE  Owners'
  <2>1. /\ \A n \in Msgs : n # m => replay'[n] = replay[n]
        /\ replay'[m] \in {"none", "done"}
    BY <1>0, <1>6 DEF Refuse, Abandon, Finish, ReplyFails, Settles, Rejected
  <2>2. PICK where \in {"reply", "done"} : Passed(c, m, where)
    BY <1>6, Releasing DEF Releases
  <2>3. /\ where \notin AttachedPhases /\ OwnerPhases \subseteq AttachedPhases
        /\ {"queued", "wait", "refuse"} \subseteq OwnerPhases
    BY DEF AttachedPhases, OwnerPhases
  <2>4. \A e \in Conns : phase'[<<e, m>>] \notin AttachedPhases
    BY <2>2, <2>3 DEF Passed
  <2>5. \A e \in Conns, n \in Msgs \ {m} :
          \/ phase'[<<e, n>>] = phase[<<e, n>>]
          \/ phase'[<<e, n>>] \in OwnerPhases /\ phase[<<e, n>>] \in OwnerPhases
    BY <2>2, <2>3 DEF Passed, WithSlot
  <2> QED
    BY <1>0, <2>1, <2>3, <2>4, <2>5 DEF Owners
<1>7. ASSUME NEW c \in Conns, Close(c) PROVE Owners'
  <2>1. /\ \A e \in Conns, n \in Msgs :
             phase'[<<e, n>>] =
               IF phase[<<c, n>>] = "queued" /\ phase[<<e, n>>] \in AttachedPhases
               THEN "done" ELSE phase[<<e, n>>]
        /\ \A n \in Msgs : replay'[n] = IF phase[<<c, n>>] = "queued" THEN "none" ELSE replay[n]
    <3>1. Told(c)
      BY <1>7, Closing
    <3> QED
      BY <3>1 DEF Told
  <2>2. "done" \notin AttachedPhases /\ OwnerPhases \subseteq AttachedPhases
    BY DEF AttachedPhases, OwnerPhases
  <2>3. \A n \in Msgs : phase[<<c, n>>] = "queued" =>
          \A e \in Conns : phase'[<<e, n>>] \notin AttachedPhases
    BY <2>1, <2>2
  <2>4. \A n \in Msgs : phase[<<c, n>>] # "queued" =>
          replay'[n] = replay[n] /\ \A e \in Conns : phase'[<<e, n>>] = phase[<<e, n>>]
    BY <2>1
  <2> QED
    BY <1>0, <2>1, <2>2, <2>3, <2>4 DEF Owners
<1>8. ASSUME NEW m \in Msgs, Prune(m) PROVE Owners'
  <2>1. /\ replay[m] = "done" /\ replay'[m] = "none" /\ phase' = phase
        /\ \A n \in Msgs : n # m => replay'[n] = replay[n]
    BY <1>0, <1>8 DEF Prune
  <2> QED
    BY <1>0, <2>1 DEF Owners
<1> QED
  BY <1>2, <1>3, <1>4, <1>5, <1>6, <1>7, <1>8 DEF RpcNext, RpcStep

-----------------------------------------------------------------------------
\* The slots.

(* The executions in the slots of a connection can be counted. *)
LEMMA SlotsFinite ==
  \A c \in Conns : IsFiniteSet(InSlots(c)) /\ Cardinality(InSlots(c)) \in Nat
<1> TAKE c \in Conns
<1>1. IsFiniteSet(Msgs) /\ InSlots(c) \in SUBSET Msgs
  BY RpcAssumption DEF InSlots
<1>2. IsFiniteSet(InSlots(c))
  BY <1>1, FS_Subset
<1> QED
  BY <1>2, FS_CardinalityType

(* The active count of an open connection is the number of executions in its slots. *)
LEMMA SlotsLemma == RpcInv /\ RpcNext => SlotsKept'
<1> SUFFICES ASSUME RpcInv, RpcNext PROVE SlotsKept'
  OBVIOUS
<1>0. /\ Owners /\ SlotsKept /\ Slots \in Nat /\ MaxPending \in Nat
      /\ active \in [Conns -> Int] /\ queue \in [Conns -> Seq(Msgs)]
  BY RpcAssumption DEF RpcInv, Types
<1>1. ASSUME active' = active, queue' = queue, closed' = closed,
             \A e \in Conns, n \in Msgs :
               phase'[<<e, n>>] \in SlotPhases <=> phase[<<e, n>>] \in SlotPhases
      PROVE  SlotsKept'
  <2>1. \A e \in Conns : InSlots(e)' = InSlots(e)
    BY <1>1 DEF InSlots
  <2> QED
    BY <1>0, <1>1, <2>1 DEF SlotsKept
<1>2. ASSUME NEW c \in Conns, NEW m \in Msgs,
             \/ Arrive(c, m) \/ TurnClosed(c, m) \/ Join(c, m) \/ Refused(c, m)
             \/ Run(c, m) \/ Reply(c, m)
      PROVE  SlotsKept'
  <2>1. active' = active /\ queue' = queue /\ closed' = closed
    BY <1>2 DEF Arrive, TurnClosed, Join, Refused, Run, Reply
  <2>2. PICK x \in Phases :
          /\ x \in SlotPhases <=> phase[<<c, m>>] \in SlotPhases
          /\ phase' = [phase EXCEPT ![<<c, m>>] = x]
    BY <1>2, TurnTakes DEF Arrive, TurnClosed, Join, Refused, Run, Reply,
         DependenciesMet, Phases, SlotPhases
  <2>3. Sets(c, m, x)
    BY <2>2, OneSet
  <2> QED
    BY <1>1, <2>1, <2>2, <2>3 DEF Sets
<1>3. ASSUME NEW c \in Conns, NEW m \in Msgs, Execute(c, m) PROVE SlotsKept'
  <2>1. phase[<<c, m>>] = "ordered" /\ c \notin closed /\ closed' = closed
    BY <1>3, TurnTakes DEF Execute
  <2>2. CASE /\ active[c] < Slots
             /\ active' = [active EXCEPT ![c] = @ + 1] /\ queue' = queue
             /\ phase' = [phase EXCEPT ![<<c, m>>] = WithSlot(c, m)]
    <3>1. Sets(c, m, WithSlot(c, m)) /\ WithSlot(c, m) \in SlotPhases
      BY <2>2, OneSet DEF WithSlot, Phases, SlotPhases
    <3>2. /\ InSlots(c)' = InSlots(c) \cup {m} /\ m \notin InSlots(c)
          /\ \A e \in Conns : e # c => InSlots(e)' = InSlots(e)
      BY <2>1, <3>1 DEF Sets, InSlots, SlotPhases
    <3>3. Cardinality(InSlots(c)') = Cardinality(InSlots(c)) + 1
      BY <3>2, SlotsFinite, FS_AddElement
    <3>4. active[c] = Cardinality(InSlots(c)) /\ queue[c] = <<>>
      BY <1>0, <2>1, <2>2 DEF SlotsKept
    <3>5. active'[c] = Cardinality(InSlots(c)') /\ active'[c] <= Slots /\ queue'[c] = <<>>
      BY <1>0, <2>2, <3>3, <3>4
    <3>6. \A e \in Conns : e # c => active'[e] = active[e]
      BY <1>0, <2>2
    <3> QED
      BY <1>0, <2>1, <2>2, <3>2, <3>5, <3>6 DEF SlotsKept
  <2>3. CASE /\ active[c] >= Slots /\ active' = active
             /\ queue' = [queue EXCEPT ![c] = Append(@, m)]
             /\ phase' = [phase EXCEPT ![<<c, m>>] = "queued"]
    <3>1. Sets(c, m, "queued")
      BY <2>3, OneSet DEF Phases
    <3>2. \A e \in Conns : InSlots(e)' = InSlots(e)
      BY <2>1, <3>1 DEF Sets, InSlots, SlotPhases
    <3>3. active[c] = Slots
      BY <1>0, <2>1, <2>3 DEF SlotsKept
    <3>4. \A e \in Conns : e # c => queue'[e] = queue[e]
      BY <1>0, <2>3
    <3> QED
      BY <1>0, <2>1, <2>3, <3>2, <3>3, <3>4 DEF SlotsKept
  <2>4. CASE /\ active' = active /\ queue' = queue
             /\ phase' = [phase EXCEPT ![<<c, m>>] = "reply"]
    <3>1. Sets(c, m, "reply")
      BY <2>4, OneSet DEF Phases
    <3> QED
      BY <1>1, <2>1, <2>4, <3>1 DEF Sets, SlotPhases
  <2> QED
    BY <1>3, <2>2, <2>3, <2>4 DEF Execute
<1>4. ASSUME NEW c \in Conns, NEW m \in Msgs,
             Refuse(c, m) \/ Abandon(c, m) \/ Finish(c, m) \/ ReplyFails(c, m)
      PROVE  SlotsKept'
  <2>1. closed' = closed
    BY <1>4 DEF Refuse, Abandon, Finish, ReplyFails
  <2>2. PICK where \in {"reply", "done"} :
          phase[<<c, m>>] \in SlotPhases /\ Passed(c, m, where)
    BY <1>4, Releasing DEF Releases
  <2>3. \A e \in Conns : phase[<<e, m>>] \in SlotPhases => e = c
    BY <1>0, <2>2, PhaseSets DEF Owners
  <2>4. SlotPhases \subseteq AttachedPhases /\ where \notin SlotPhases
    BY DEF AttachedPhases, OwnerPhases, SlotPhases
  <2>5. \A e \in Conns : e # c => InSlots(e)' = InSlots(e)
    BY <2>2, <2>3, <2>4 DEF Passed, InSlots
  <2>6. m \in InSlots(c) /\ m \notin InSlots(c)'
    BY <2>2, <2>4 DEF Passed, InSlots
  <2>7. CASE Handing(c)
    <3> DEFINE h == Head(queue[c])
    <3>1. /\ h \in Msgs /\ h # m /\ phase[<<c, h>>] = "queued" /\ active' = active
          /\ queue' = [queue EXCEPT ![c] = Tail(@)]
      BY <2>2, <2>7 DEF Passed
    <3>2. WithSlot(c, h) \in SlotPhases /\ h \notin InSlots(c)
      BY <3>1, PhaseSets DEF InSlots, WithSlot, SlotPhases
    <3>3. InSlots(c)' = (InSlots(c) \ {m}) \cup {h}
      BY <2>2, <2>4, <2>6, <2>7, <3>1, <3>2 DEF Passed, InSlots
    <3>4. IsFiniteSet(InSlots(c)) /\ Cardinality(InSlots(c)) \in Nat
      BY SlotsFinite
    <3>5. /\ IsFiniteSet(InSlots(c) \ {m})
          /\ Cardinality(InSlots(c) \ {m}) = Cardinality(InSlots(c)) - 1
      BY <2>6, <3>4, FS_RemoveElement
    <3>6. h \notin InSlots(c) \ {m}
      BY <3>2
    <3>7. Cardinality((InSlots(c) \ {m}) \cup {h}) = Cardinality(InSlots(c) \ {m}) + 1
      BY <3>5, <3>6, FS_AddElement
    <3>10. Cardinality(InSlots(c)') = Cardinality(InSlots(c))
      BY <3>3, <3>4, <3>5, <3>7
    <3>8. active[c] = Cardinality(InSlots(c)) /\ active[c] = Slots /\ c \notin closed
      BY <1>0, <2>7 DEF SlotsKept, Handing
    <3>9. \A e \in Conns : e # c => queue'[e] = queue[e]
      BY <1>0, <3>1
    <3> QED
      BY <1>0, <2>1, <2>5, <3>1, <3>8, <3>9, <3>10 DEF SlotsKept
  <2>8. CASE ~ Handing(c)
    <3>1. /\ queue' = queue
          /\ active' = IF c \in closed THEN active ELSE [active EXCEPT ![c] = @ - 1]
      BY <2>2, <2>8 DEF Passed
    <3>2. CASE c \in closed
      BY <1>0, <2>1, <2>5, <3>1, <3>2 DEF SlotsKept
    <3>3. CASE c \notin closed
      <4>1. InSlots(c)' = InSlots(c) \ {m}
        BY <2>2, <2>4, <2>8 DEF Passed, InSlots
      <4>2. Cardinality(InSlots(c)') = Cardinality(InSlots(c)) - 1
        BY <2>6, <4>1, SlotsFinite, FS_RemoveElement
      <4>3. active[c] = Cardinality(InSlots(c)) /\ active[c] <= Slots /\ queue[c] = <<>>
        BY <1>0, <2>8, <3>3 DEF SlotsKept, Handing
      <4>4. /\ active'[c] = active[c] - 1
            /\ \A e \in Conns : e # c => active'[e] = active[e]
        BY <1>0, <3>1, <3>3
      <4>5. active'[c] = Cardinality(InSlots(c)') /\ active'[c] <= Slots /\ queue'[c] = <<>>
        BY <1>0, <3>1, <4>2, <4>3, <4>4
      <4> QED
        BY <1>0, <2>1, <2>5, <3>1, <3>3, <4>4, <4>5 DEF SlotsKept
    <3> QED
      BY <3>2, <3>3
  <2> QED
    BY <2>7, <2>8
<1>5. ASSUME NEW c \in Conns, Close(c) PROVE SlotsKept'
  <2>1. /\ closed' = closed \cup {c} /\ active' = [active EXCEPT ![c] = 0]
        /\ queue' = [queue EXCEPT ![c] = <<>>]
    BY <1>5 DEF Close
  <2>2. Told(c)
    BY <1>5, Closing
  <2>3. ASSUME NEW e \in Conns, e # c PROVE InSlots(e)' = InSlots(e)
    <3>1. ASSUME NEW n \in Msgs PROVE phase'[<<e, n>>] \in SlotPhases <=> phase[<<e, n>>] \in SlotPhases
      <4>1. phase[<<c, n>>] = "queued" => phase[<<c, n>>] \in OwnerPhases
        BY DEF OwnerPhases
      <4>2. phase[<<c, n>>] = "queued" => phase[<<e, n>>] \notin SlotPhases
        BY <1>0, <2>3, <4>1, PhaseSets DEF Owners
      <4> QED
        BY <2>2, <4>2 DEF Told, SlotPhases
    <3> QED
      BY <3>1 DEF InSlots
  <2>4. \A e \in Conns : e # c => active'[e] = active[e] /\ queue'[e] = queue[e]
    BY <1>0, <2>1
  <2> QED
    BY <1>0, <2>1, <2>3, <2>4 DEF SlotsKept
<1>6. ASSUME NEW m \in Msgs, Prune(m) PROVE SlotsKept'
  BY <1>1, <1>6 DEF Prune
<1> QED
  BY <1>2, <1>3, <1>4, <1>5, <1>6 DEF RpcNext, RpcStep

-----------------------------------------------------------------------------
\* How often a handler runs.

(* Whether the deliveries of an execution that ends get a reply. *)
LEMMA ReleasingTo ==
  ASSUME RpcInv, NEW c \in Conns, NEW m \in Msgs
  PROVE  /\ Refuse(c, m) \/ Finish(c, m) => Passed(c, m, "reply")
         /\ Abandon(c, m) \/ ReplyFails(c, m) => Passed(c, m, "done")
<1>1. ASSUME Refuse(c, m) \/ Finish(c, m) PROVE Passed(c, m, "reply")
  <2>1. phase[<<c, m>>] \in SlotPhases /\ PassSlot(c, Resolve(m, "reply"))
    BY <1>1 DEF Refuse, Finish, Settles, SlotPhases
  <2> QED
    BY <2>1, SlotPassed
<1>2. ASSUME Abandon(c, m) \/ ReplyFails(c, m) PROVE Passed(c, m, "done")
  <2>1. phase[<<c, m>>] \in SlotPhases /\ PassSlot(c, Resolve(m, "done"))
    BY <1>2 DEF Abandon, ReplyFails, SlotPhases, DependenciesMet
  <2> QED
    BY <2>1, SlotPassed
<1> QED
  BY <1>1, <1>2

\* An execution that has not come to its handler.
Early(x) == x \in {"queued", "wait", "refuse"}

(* A handler whose reply is not lost does not run twice. *)
LEMMA RunsLemma == RpcInv /\ RpcNext => RunsBounded'
<1> SUFFICES ASSUME RpcInv, RpcNext PROVE RunsBounded'
  OBVIOUS
<1>0. /\ RunsBounded /\ Owners /\ runs \in [Msgs -> Nat] /\ forgot \subseteq Msgs
      /\ replay \in [Msgs -> {"none", "running", "done"}]
  BY DEF RpcInv, Types
<1>1. ASSUME runs' = runs, forgot \subseteq forgot',
             \A n \in Msgs \ forgot' :
               /\ replay'[n] = "none" =>
                    replay[n] = "none" \/ \E e \in Conns : Early(phase[<<e, n>>])
               /\ \A e \in Conns : Early(phase'[<<e, n>>]) =>
                    replay[n] = "none" \/ Early(phase[<<e, n>>])
      PROVE  RunsBounded'
  <2>1. ASSUME NEW n \in Msgs, n \notin forgot'
        PROVE  /\ runs'[n] <= 1
               /\ replay'[n] = "none" => runs'[n] = 0
               /\ \A e \in Conns : phase'[<<e, n>>] \in {"queued", "wait", "refuse"} => runs'[n] = 0
    BY <1>0, <1>1, <2>1 DEF RunsBounded, Early
  <2> QED
    BY <2>1 DEF RunsBounded
<1>2. ASSUME NEW c \in Conns, NEW m \in Msgs,
             \/ Arrive(c, m) \/ TurnClosed(c, m) \/ Join(c, m) \/ Refused(c, m) \/ Reply(c, m)
      PROVE  RunsBounded'
  <2>1. runs' = runs /\ forgot' = forgot /\ replay' = replay
    BY <1>2 DEF Arrive, TurnClosed, Join, Refused, Reply, rpcHistory
  <2>2. \E x \in Phases : ~ Early(x) /\ phase' = [phase EXCEPT ![<<c, m>>] = x]
    BY <1>2 DEF Arrive, TurnClosed, Join, Refused, Reply, Phases, Early
  <2>3. \E x \in Phases : ~ Early(x) /\ Sets(c, m, x)
    BY <2>2, OneSet
  <2>4. \A e \in Conns, n \in Msgs : Early(phase'[<<e, n>>]) => Early(phase[<<e, n>>])
    BY <2>3 DEF Sets
  <2> QED
    BY <1>1, <2>1, <2>4
<1>3. ASSUME NEW c \in Conns, NEW m \in Msgs, Execute(c, m) PROVE RunsBounded'
  <2>1. runs' = runs /\ forgot' = forgot /\ replay[m] = "none"
    BY <1>3 DEF Execute, Known
  <2>2. \A n \in Msgs : n # m => replay'[n] = replay[n]
    BY <1>0, <1>3 DEF Execute
  <2>3. \E x \in Phases : phase' = [phase EXCEPT ![<<c, m>>] = x]
    BY <1>3 DEF Execute, WithSlot, Phases
  <2>4. \E x \in Phases : Sets(c, m, x)
    BY <2>3, OneSet
  <2>5. \A e \in Conns, n \in Msgs : n # m => phase'[<<e, n>>] = phase[<<e, n>>]
    BY <2>4 DEF Sets
  <2> QED
    BY <1>1, <2>1, <2>2, <2>5
<1>4. ASSUME NEW c \in Conns, NEW m \in Msgs, Run(c, m) PROVE RunsBounded'
  <2>1. /\ Sets(c, m, "run") /\ phase[<<c, m>>] = "wait" /\ replay' = replay
        /\ runs' = [runs EXCEPT ![m] = @ + 1] /\ forgot' = forgot
    BY <1>4, OneSet DEF Run, DependenciesMet, Phases
  <2>2. replay[m] = "running"
    BY <1>0, <2>1 DEF Owners, AttachedPhases, OwnerPhases
  <2>3. \A e \in Conns : e # c => ~ Early(phase[<<e, m>>])
    BY <1>0, <2>1 DEF Owners, OwnerPhases, Early
  <2>4. \A e \in Conns : ~ Early(phase'[<<e, m>>])
    BY <2>1, <2>3 DEF Sets, Early
  <2>5. m \notin forgot => runs'[m] = 1
    BY <1>0, <2>1 DEF RunsBounded
  <2>6. \A n \in Msgs : n # m =>
          runs'[n] = runs[n] /\ \A e \in Conns : phase'[<<e, n>>] = phase[<<e, n>>]
    BY <1>0, <2>1 DEF Sets
  <2>7. ASSUME NEW n \in Msgs, n \notin forgot'
        PROVE  /\ runs'[n] <= 1
               /\ replay'[n] = "none" => runs'[n] = 0
               /\ \A e \in Conns : Early(phase'[<<e, n>>]) => runs'[n] = 0
    <3>1. CASE n = m
      BY <2>1, <2>2, <2>4, <2>5, <2>7, <3>1
    <3>2. CASE n # m
      BY <1>0, <2>1, <2>6, <2>7, <3>2 DEF RunsBounded, Early
    <3> QED
      BY <3>1, <3>2
  <2> QED
    BY <2>7 DEF RunsBounded, Early
<1>5. ASSUME NEW c \in Conns, NEW m \in Msgs,
             Refuse(c, m) \/ Abandon(c, m) \/ Finish(c, m) \/ ReplyFails(c, m)
      PROVE  RunsBounded'
  <2>1. runs' = runs /\ forgot \subseteq forgot' /\ \A n \in Msgs : n # m => replay'[n] = replay[n]
    BY <1>0, <1>5 DEF Refuse, Abandon, Finish, ReplyFails, Settles, Rejected
  <2>2. m \notin forgot' => replay'[m] = "done" \/ Early(phase[<<c, m>>])
    BY <1>0, <1>5 DEF Refuse, Abandon, Finish, ReplyFails, Settles, DependenciesMet, Early
  <2>3. Follows(c, m)
    BY <1>5, Releasing, Following
  <2>4. \A e \in Conns, n \in Msgs : Early(phase'[<<e, n>>]) => Early(phase[<<e, n>>])
    BY <2>3 DEF Follows, Early
  <2> QED
    BY <1>1, <2>1, <2>2, <2>4
<1>6. ASSUME NEW c \in Conns, Close(c) PROVE RunsBounded'
  <2>1. runs' = runs /\ forgot' = forgot /\ Told(c)
    BY <1>6, Closing DEF Close
  <2>2. \A n \in Msgs : replay'[n] = "none" => replay[n] = "none" \/ Early(phase[<<c, n>>])
    BY <2>1 DEF Told, Early
  <2>3. \A e \in Conns, n \in Msgs : Early(phase'[<<e, n>>]) => Early(phase[<<e, n>>])
    BY <2>1 DEF Told, Early
  <2> QED
    BY <1>1, <2>1, <2>2, <2>3
<1>7. ASSUME NEW m \in Msgs, Prune(m) PROVE RunsBounded'
  <2>1. /\ runs' = runs /\ forgot' = forgot \cup {m} /\ phase' = phase
        /\ \A n \in Msgs : n # m => replay'[n] = replay[n]
    BY <1>0, <1>7 DEF Prune
  <2> QED
    BY <1>1, <2>1
<1> QED
  BY <1>2, <1>3, <1>4, <1>5, <1>6, <1>7 DEF RpcNext, RpcStep

-----------------------------------------------------------------------------
\* What is over, and what is awaited.

(* A delivery that is over has settled or dropped its message, for good. *)
LEMMA EndedKept == RpcInv /\ RpcNext => Ended' /\ settled \subseteq settled' /\ dropped \subseteq dropped'
<1> SUFFICES ASSUME RpcInv, RpcNext
             PROVE  Ended' /\ settled \subseteq settled' /\ dropped \subseteq dropped'
  OBVIOUS
<1>0. Ended /\ replay \in [Msgs -> {"none", "running", "done"}]
  BY DEF RpcInv, Types
<1> DEFINE Goal == Ended' /\ settled \subseteq settled' /\ dropped \subseteq dropped'
<1>1. ASSUME settled \subseteq settled', dropped \subseteq dropped',
             \A n \in Msgs :
               /\ replay'[n] = "done" => replay[n] = "done" \/ n \in settled'
               /\ \A e \in Conns :
                    /\ phase'[<<e, n>>] = "reply" => phase[<<e, n>>] = "reply" \/ n \in settled'
                    /\ phase'[<<e, n>>] = "done" =>
                         phase[<<e, n>>] = "done" \/ n \in settled' \cup dropped'
      PROVE  Goal
  BY <1>0, <1>1 DEF Ended
<1> HIDE DEF Goal
<1>2. ASSUME NEW c \in Conns, NEW m \in Msgs,
             \/ Arrive(c, m) \/ TurnClosed(c, m) \/ Join(c, m) \/ Refused(c, m)
             \/ Run(c, m) \/ Reply(c, m)
      PROVE  Goal
  <2>1. settled \subseteq settled' /\ dropped \subseteq dropped' /\ replay' = replay
    BY <1>2 DEF Arrive, TurnClosed, Join, Refused, Run, Reply, rpcHistory
  <2>2. PICK x \in Phases :
          /\ phase' = [phase EXCEPT ![<<c, m>>] = x]
          /\ x = "reply" => m \in settled'
          /\ x = "done" => m \in settled' \cup dropped'
    BY <1>0, <1>2 DEF Arrive, TurnClosed, Join, Refused, Run, Reply, rpcHistory, Phases, Ended
  <2>3. Sets(c, m, x)
    BY <2>2, OneSet
  <2> QED
    BY <1>1, <2>1, <2>2, <2>3 DEF Sets
<1>3. ASSUME NEW c \in Conns, NEW m \in Msgs, Execute(c, m) PROVE Goal
  <2>1. PICK x \in Phases \ {"done"} :
          /\ phase' = [phase EXCEPT ![<<c, m>>] = x]
          /\ x = "reply" => m \in settled'
    BY <1>3 DEF Execute, WithSlot, Phases
  <2>2. /\ settled \subseteq settled' /\ dropped \subseteq dropped'
        /\ \A n \in Msgs : replay'[n] = "done" => replay[n] = "done" \/ n \in settled'
    BY <1>0, <1>3 DEF Execute
  <2>3. Sets(c, m, x)
    BY <2>1, OneSet
  <2> QED
    BY <1>1, <2>1, <2>2, <2>3 DEF Sets
<1>4. ASSUME NEW c \in Conns, NEW m \in Msgs,
             Refuse(c, m) \/ Abandon(c, m) \/ Finish(c, m) \/ ReplyFails(c, m)
      PROVE  Goal
  <2>1. settled \subseteq settled' /\ dropped \subseteq dropped'
    BY <1>4 DEF Refuse, Abandon, Finish, ReplyFails, Settles
  <2>2. \A n \in Msgs : replay'[n] = "done" => replay[n] = "done" \/ n \in settled'
    BY <1>0, <1>4 DEF Refuse, Abandon, Finish, ReplyFails, Settles, Rejected
  <2>3. PICK where \in {"reply", "done"} :
          /\ Passed(c, m, where)
          /\ where = "reply" => m \in settled'
          /\ where = "done" => m \in settled' \cup dropped'
    BY <1>4, ReleasingTo DEF Refuse, Abandon, Finish, ReplyFails, Settles
  <2>4. \A e \in Conns, n \in Msgs :
          \/ phase'[<<e, n>>] = phase[<<e, n>>]
          \/ phase'[<<e, n>>] \in {"wait", "refuse"}
          \/ n = m /\ phase'[<<e, n>>] = where
    BY <2>3 DEF Passed, WithSlot
  <2> QED
    BY <1>1, <2>1, <2>2, <2>3, <2>4
<1>5. ASSUME NEW c \in Conns, Close(c) PROVE Goal
  <2>1. Told(c) /\ settled' = settled /\ dropped \subseteq dropped'
    BY <1>5, Closing DEF Close
  <2> QED
    BY <1>1, <2>1 DEF Told
<1>6. ASSUME NEW m \in Msgs, Prune(m) PROVE Goal
  BY <1>0, <1>1, <1>6 DEF Prune
<1> QED
  BY <1>2, <1>3, <1>4, <1>5, <1>6 DEF RpcNext, RpcStep, Goal

(* A call that gets a slot awaits what it was sent after, or it has ended. *)
LEMMA Waiting ==
  ASSUME RpcInv, NEW c \in Conns, NEW m \in Msgs, WithSlot(c, m) = "wait", NEW n \in After[m]
  PROVE  \/ n \in settled \cup dropped
         \/ \E e \in Conns : <<e, n>> \in Dependencies(c, m)
<1>1. n \in Msgs
  BY RpcAssumption
<1>2. CASE Completed(n)
  BY <1>1, <1>2 DEF Completed, RpcInv, Ended
<1>3. CASE ~ Completed(n)
  <2>1. n \in Outstanding(m)
    BY <1>3 DEF Outstanding
  <2>2. PICK d \in Awaited(c, n) : TRUE
    BY <2>1 DEF WithSlot, Missing
  <2>3. d \in Dependencies(c, m)
    BY <2>1, <2>2 DEF Dependencies
  <2>4. d \in Conns \X {n}
    BY <1>1, <2>2 DEF Awaited, RpcInv, Ordered
  <2> QED
    BY <2>3, <2>4
<1> QED
  BY <1>2, <1>3

\* A call that waits goes on waiting for the same, or begins to wait for what it
\* was sent after.
WaitsOn ==
  \A e \in Conns, n \in Msgs :
    phase'[<<e, n>>] = "wait" =>
      \/ phase[<<e, n>>] = "wait" /\ waits'[<<e, n>>] = waits[<<e, n>>]
      \/ WithSlot(e, n) = "wait" /\ waits'[<<e, n>>] = Dependencies(e, n)

(* What a waiting call awaits is chosen once, as it gets its slot. *)
LEMMA WaitsChosen == RpcInv /\ RpcNext => WaitsOn
<1> SUFFICES ASSUME RpcInv, RpcNext PROVE WaitsOn
  OBVIOUS
<1>0. /\ waits \in [Deliveries -> SUBSET Deliveries]
      /\ \A e \in Conns, n \in Msgs : <<e, n>> \in Deliveries
  BY DEF RpcInv, Types, Deliveries
<1>1. ASSUME NEW c \in Conns, NEW m \in Msgs,
             \/ Arrive(c, m) \/ TurnClosed(c, m) \/ Join(c, m) \/ Refused(c, m) \/ Reply(c, m)
      PROVE  WaitsOn
  <2>1. waits' = waits
    BY <1>1 DEF Arrive, TurnClosed, Join, Refused, Reply
  <2>2. \E x \in Phases \ {"wait"} : phase' = [phase EXCEPT ![<<c, m>>] = x]
    BY <1>1 DEF Arrive, TurnClosed, Join, Refused, Reply, Phases
  <2>3. \E x \in Phases \ {"wait"} : Sets(c, m, x)
    BY <2>2, OneSet
  <2>4. \A e \in Conns, n \in Msgs : phase'[<<e, n>>] = "wait" => phase[<<e, n>>] = "wait"
    BY <2>3 DEF Sets
  <2> QED
    BY <2>1, <2>4 DEF WaitsOn
<1>2. ASSUME NEW c \in Conns, NEW m \in Msgs, Execute(c, m) PROVE WaitsOn
  <2>1. CASE /\ phase' = [phase EXCEPT ![<<c, m>>] = WithSlot(c, m)]
             /\ waits' = [waits EXCEPT ![<<c, m>>] = Dependencies(c, m)]
    <3>1. Sets(c, m, WithSlot(c, m))
      BY <2>1, OneSet DEF WithSlot, Phases
    <3>2. \A e \in Conns, n \in Msgs :
            waits'[<<e, n>>] = IF e = c /\ n = m THEN Dependencies(c, m) ELSE waits[<<e, n>>]
      BY <1>0, <2>1
    <3> QED
      BY <3>1, <3>2 DEF Sets, WaitsOn
  <2>2. CASE waits' = waits /\ \E x \in {"queued", "reply"} : phase' = [phase EXCEPT ![<<c, m>>] = x]
    <3>1. \E x \in {"queued", "reply"} : Sets(c, m, x)
      BY <2>2, OneSet DEF Phases
    <3> QED
      BY <2>2, <3>1 DEF Sets, WaitsOn
  <2> QED
    BY <1>2, <2>1, <2>2 DEF Execute
<1>3. ASSUME NEW c \in Conns, NEW m \in Msgs, Run(c, m) PROVE WaitsOn
  <2>1. Sets(c, m, "run") /\ waits' = [waits EXCEPT ![<<c, m>>] = {}]
    BY <1>3, OneSet DEF Run, Phases
  <2>2. \A e \in Conns, n \in Msgs : waits'[<<e, n>>] = IF e = c /\ n = m THEN {} ELSE waits[<<e, n>>]
    BY <1>0, <2>1
  <2> QED
    BY <2>1, <2>2 DEF Sets, WaitsOn
<1>4. ASSUME NEW c \in Conns, NEW m \in Msgs,
             Refuse(c, m) \/ Abandon(c, m) \/ Finish(c, m) \/ ReplyFails(c, m)
      PROVE  WaitsOn
  <2>1. PICK where \in {"reply", "done"} : Passed(c, m, where)
    BY <1>4, Releasing DEF Releases
  <2>2. CASE Handing(c)
    <3> DEFINE h == Head(queue[c])
    <3>1. h \in Msgs /\ waits' = [waits EXCEPT ![<<c, h>>] = Dependencies(c, h)]
      BY <2>1, <2>2 DEF Passed
    <3>2. \A e \in Conns, n \in Msgs :
            waits'[<<e, n>>] = IF e = c /\ n = h THEN Dependencies(c, h) ELSE waits[<<e, n>>]
      BY <1>0, <3>1
    <3>3. \A e \in Conns, n \in Msgs :
            phase'[<<e, n>>] = "wait" =>
              IF e = c /\ n = h THEN WithSlot(c, h) = "wait" ELSE phase[<<e, n>>] = "wait"
      BY <2>1, <2>2 DEF Passed
    <3> HIDE DEF h
    <3> QED
      BY <3>2, <3>3 DEF WaitsOn
  <2>3. CASE ~ Handing(c)
    <3>1. waits' = waits
      BY <2>1, <2>3 DEF Passed
    <3>2. \A e \in Conns, n \in Msgs : phase'[<<e, n>>] = "wait" => phase[<<e, n>>] = "wait"
      BY <2>1, <2>3 DEF Passed
    <3> QED
      BY <3>1, <3>2 DEF WaitsOn
  <2> QED
    BY <2>2, <2>3
<1>5. ASSUME NEW c \in Conns, Close(c) PROVE WaitsOn
  <2>1. Told(c) /\ waits' = waits
    BY <1>5, Closing DEF Close
  <2>2. \A e \in Conns, n \in Msgs : phase'[<<e, n>>] = "wait" => phase[<<e, n>>] = "wait"
    BY <2>1 DEF Told
  <2> QED
    BY <2>1, <2>2 DEF WaitsOn
<1>6. ASSUME NEW m \in Msgs, Prune(m) PROVE WaitsOn
  BY <1>6 DEF Prune, WaitsOn
<1> QED
  BY <1>1, <1>2, <1>3, <1>4, <1>5, <1>6 DEF RpcNext, RpcStep

(* A waiting call awaits each of its dependencies that has not ended. *)
LEMMA OrderedKept == RpcInv /\ RpcNext => Ordered'
<1> SUFFICES ASSUME RpcInv, RpcNext PROVE Ordered'
  OBVIOUS
<1>0. /\ Ordered /\ WaitsOn /\ settled \subseteq settled' /\ dropped \subseteq dropped'
      /\ latest \in [Msgs -> Deliveries \cup {NoDelivery}]
  BY EndedKept, WaitsChosen DEF RpcInv, Types
<1>1. ASSUME NEW n \in Msgs, latest'[n] # NoDelivery PROVE latest'[n] \in Conns \X {n}
  <2>1. \/ latest' = latest
        \/ \E c \in Conns, m \in Msgs : latest' = [latest EXCEPT ![m] = <<c, m>>]
    <3>1. ASSUME NEW c \in Conns, NEW m \in Msgs, Arrive(c, m)
          PROVE  latest' = [latest EXCEPT ![m] = <<c, m>>]
      BY <3>1 DEF Arrive
    <3>2. ASSUME NEW c \in Conns, NEW m \in Msgs, RpcStep(c, m) PROVE latest' = latest
      BY <3>2 DEF RpcStep, TurnClosed, Join, Refused, Execute, Refuse, Run, Abandon,
                  Finish, ReplyFails, Reply
    <3>3. ASSUME NEW c \in Conns, Close(c) PROVE latest' = latest
      BY <3>3 DEF Close
    <3>4. ASSUME NEW m \in Msgs, Prune(m) PROVE latest' = latest
      BY <3>4 DEF Prune
    <3> QED
      BY <3>1, <3>2, <3>3, <3>4 DEF RpcNext
  <2>2. CASE latest' = latest
    BY <1>0, <1>1, <2>2 DEF Ordered
  <2>3. ASSUME NEW c \in Conns, NEW m \in Msgs, latest' = [latest EXCEPT ![m] = <<c, m>>]
        PROVE  latest'[n] \in Conns \X {n}
    BY <1>0, <1>1, <2>3 DEF Ordered
  <2> QED
    BY <2>1, <2>2, <2>3
<1>2. ASSUME NEW e \in Conns, NEW n \in Msgs, phase'[<<e, n>>] = "wait", NEW i \in After[n]
      PROVE  i \in settled' \cup dropped' \/ \E f \in Conns : <<f, i>> \in waits'[<<e, n>>]
  <2>1. CASE phase[<<e, n>>] = "wait" /\ waits'[<<e, n>>] = waits[<<e, n>>]
    BY <1>0, <2>1 DEF Ordered
  <2>2. CASE WithSlot(e, n) = "wait" /\ waits'[<<e, n>>] = Dependencies(e, n)
    BY <1>0, <2>2, Waiting
  <2> QED
    BY <1>0, <1>2, <2>1, <2>2 DEF WaitsOn
<1> QED
  BY <1>1, <1>2 DEF Ordered

(* A handler runs when the dependencies of its call have ended. *)
LEMMA AfterKept == RpcInv /\ RpcNext => AfterDependencies'
<1> SUFFICES ASSUME RpcInv, RpcNext PROVE AfterDependencies'
  OBVIOUS
<1>0. /\ AfterDependencies /\ Ended /\ Ordered
      /\ settled \subseteq settled' /\ dropped \subseteq dropped'
  BY EndedKept DEF RpcInv
<1>1. ASSUME \A e \in Conns, n \in Msgs :
               phase'[<<e, n>>] = "run" =>
                 phase[<<e, n>>] = "run" \/ \A i \in After[n] : i \in settled \cup dropped
      PROVE  AfterDependencies'
  <2>1. ASSUME NEW e \in Conns, NEW n \in Msgs, phase'[<<e, n>>] = "run"
        PROVE  \A i \in After[n] : i \in settled' \cup dropped'
    <3>1. phase[<<e, n>>] = "run" => \A i \in After[n] : i \in settled \cup dropped
      BY <1>0 DEF AfterDependencies, Deliveries
    <3> QED
      BY <1>0, <1>1, <2>1, <3>1
  <2> QED
    BY <2>1 DEF AfterDependencies, Deliveries
<1>2. ASSUME NEW c \in Conns, NEW m \in Msgs,
             \/ Arrive(c, m) \/ TurnClosed(c, m) \/ Join(c, m) \/ Refused(c, m)
             \/ Execute(c, m) \/ Reply(c, m)
      PROVE  AfterDependencies'
  <2>1. \E x \in Phases \ {"run"} : phase' = [phase EXCEPT ![<<c, m>>] = x]
    BY <1>2 DEF Arrive, TurnClosed, Join, Refused, Execute, Reply, WithSlot, Phases
  <2>2. \E x \in Phases \ {"run"} : Sets(c, m, x)
    BY <2>1, OneSet
  <2>3. \A e \in Conns, n \in Msgs : phase'[<<e, n>>] = "run" => phase[<<e, n>>] = "run"
    BY <2>2 DEF Sets
  <2> QED
    BY <1>1, <2>3
<1>3. ASSUME NEW c \in Conns, NEW m \in Msgs, Run(c, m) PROVE AfterDependencies'
  <2>1. Sets(c, m, "run") /\ DependenciesMet(c, m)
    BY <1>3, OneSet DEF Run, Phases
  <2>2. ASSUME NEW i \in After[m] PROVE i \in settled \cup dropped
    <3>1. i \in Msgs
      BY RpcAssumption
    <3>2. CASE \E e \in Conns : <<e, i>> \in waits[<<c, m>>]
      BY <1>0, <2>1, <3>1, <3>2 DEF DependenciesMet, Ended
    <3> QED
      BY <1>0, <2>1, <3>2 DEF DependenciesMet, Ordered
  <2>3. \A e \in Conns, n \in Msgs :
          phase'[<<e, n>>] = "run" => phase[<<e, n>>] = "run" \/ n = m
    BY <2>1 DEF Sets
  <2> QED
    BY <1>1, <2>2, <2>3
<1>4. ASSUME NEW c \in Conns, NEW m \in Msgs,
             Refuse(c, m) \/ Abandon(c, m) \/ Finish(c, m) \/ ReplyFails(c, m)
      PROVE  AfterDependencies'
  <2>1. Follows(c, m)
    BY <1>4, Releasing, Following
  <2>2. \A e \in Conns, n \in Msgs : phase'[<<e, n>>] = "run" => phase[<<e, n>>] = "run"
    BY <2>1 DEF Follows, WithSlot
  <2> QED
    BY <1>1, <2>2
<1>5. ASSUME NEW c \in Conns, Close(c) PROVE AfterDependencies'
  <2>1. Told(c)
    BY <1>5, Closing
  <2>2. \A e \in Conns, n \in Msgs : phase'[<<e, n>>] = "run" => phase[<<e, n>>] = "run"
    BY <2>1 DEF Told
  <2> QED
    BY <1>1, <2>2
<1>6. ASSUME NEW m \in Msgs, Prune(m) PROVE AfterDependencies'
  BY <1>1, <1>6 DEF Prune
<1> QED
  BY <1>2, <1>3, <1>4, <1>5, <1>6 DEF RpcNext, RpcStep

-----------------------------------------------------------------------------
\* Replies.

(* A delivery ends with an answer, with its connection, or silenced. *)
LEMMA AnsweredKept == RpcInv /\ RpcNext => EndsAnswered'
<1> SUFFICES ASSUME RpcInv, RpcNext PROVE EndsAnswered'
  OBVIOUS
<1>0. EndsAnswered
  BY DEF RpcInv
<1>1. ASSUME closed \subseteq closed', answered \subseteq answered', silenced \subseteq silenced',
             \A e \in Conns, n \in Msgs :
               phase'[<<e, n>>] = "done" =>
                 \/ phase[<<e, n>>] = "done"
                 \/ <<e, n>> \in answered' \cup silenced' \/ e \in closed'
      PROVE  EndsAnswered'
  <2>1. ASSUME NEW e \in Conns, NEW n \in Msgs, phase'[<<e, n>>] = "done"
        PROVE  <<e, n>> \in answered' \cup silenced' \/ e \in closed'
    <3>1. phase[<<e, n>>] = "done" => <<e, n>> \in answered \cup silenced \/ e \in closed
      BY <1>0 DEF EndsAnswered, Deliveries
    <3> QED
      BY <1>1, <2>1, <3>1
  <2> QED
    BY <2>1 DEF EndsAnswered, Deliveries
<1>2. ASSUME NEW c \in Conns, NEW m \in Msgs,
             \/ Arrive(c, m) \/ TurnClosed(c, m) \/ Join(c, m) \/ Refused(c, m)
             \/ Execute(c, m) \/ Run(c, m) \/ Reply(c, m)
      PROVE  EndsAnswered'
  <2>1. closed' = closed /\ answered \subseteq answered' /\ silenced' = silenced
    BY <1>2 DEF Arrive, TurnClosed, Join, Refused, Execute, Run, Reply, rpcHistory
  <2>2. PICK x \in Phases :
          /\ phase' = [phase EXCEPT ![<<c, m>>] = x]
          /\ x = "done" => <<c, m>> \in answered' \/ c \in closed'
    BY <1>2 DEF Arrive, TurnClosed, Join, Refused, Execute, Run, Reply, WithSlot, Phases
  <2>3. Sets(c, m, x)
    BY <2>2, OneSet
  <2> QED
    BY <1>1, <2>1, <2>2, <2>3 DEF Sets
<1>3. ASSUME NEW c \in Conns, NEW m \in Msgs, Refuse(c, m) \/ Finish(c, m) PROVE EndsAnswered'
  <2>1. closed' = closed /\ answered' = answered /\ silenced' = silenced
    BY <1>3 DEF Refuse, Finish
  <2>2. Passed(c, m, "reply")
    BY <1>3, ReleasingTo
  <2>3. \A e \in Conns, n \in Msgs : phase'[<<e, n>>] = "done" => phase[<<e, n>>] = "done"
    BY <2>2 DEF Passed, WithSlot
  <2> QED
    BY <1>1, <2>1, <2>3
<1>4. ASSUME NEW c \in Conns, NEW m \in Msgs, Abandon(c, m) \/ ReplyFails(c, m)
      PROVE  EndsAnswered'
  <2>1. closed' = closed /\ answered' = answered /\ Rejected({m}, closed)
    BY <1>4 DEF Abandon, ReplyFails
  <2>2. silenced' = silenced \cup {d \in Attached(m) : d[1] \notin closed}
    BY <2>1 DEF Rejected
  <2>3. \A e \in Conns :
          phase[<<e, m>>] \in AttachedPhases => <<e, m>> \in silenced' \/ e \in closed
    BY <2>2, AttachedTo
  <2>4. Passed(c, m, "done")
    BY <1>4, ReleasingTo
  <2>5. ASSUME NEW e \in Conns, NEW n \in Msgs, phase'[<<e, n>>] = "done"
        PROVE  phase[<<e, n>>] = "done" \/ (n = m /\ phase[<<e, n>>] \in AttachedPhases)
    <3>1. CASE n = m
      BY <2>4, <2>5, <3>1 DEF Passed
    <3>2. CASE n # m
      BY <2>4, <2>5, <3>2 DEF Passed, WithSlot
    <3> QED
      BY <3>1, <3>2
  <2> QED
    BY <1>1, <2>1, <2>2, <2>3, <2>5
<1>5. ASSUME NEW c \in Conns, Close(c) PROVE EndsAnswered'
  <2> DEFINE ms == {m \in Msgs : phase[<<c, m>>] = "queued"}
  <2>1. Told(c) /\ closed \subseteq closed' /\ answered' = answered
    BY <1>5, Closing DEF Close
  <2>2. silenced' = silenced \cup {d \in UNION {Attached(m) : m \in ms} : d[1] \notin closed'}
    BY <1>5 DEF Close, Rejected
  <2>3. ASSUME NEW e \in Conns, NEW n \in ms, phase[<<e, n>>] \in AttachedPhases
        PROVE  <<e, n>> \in silenced' \/ e \in closed'
    <3>1. <<e, n>> \in Attached(n)
      BY <2>3, AttachedTo
    <3> QED
      BY <2>2, <3>1
  <2>4. ASSUME NEW e \in Conns, NEW n \in Msgs, phase'[<<e, n>>] = "done"
        PROVE  phase[<<e, n>>] = "done" \/ (n \in ms /\ phase[<<e, n>>] \in AttachedPhases)
    <3>1. phase'[<<e, n>>] =
            IF phase[<<c, n>>] = "queued" /\ phase[<<e, n>>] \in AttachedPhases
            THEN "done" ELSE phase[<<e, n>>]
      BY <2>1 DEF Told
    <3>2. phase[<<c, n>>] = "queued" => n \in ms
      OBVIOUS
    <3> QED
      BY <2>4, <3>1, <3>2
  <2>5. silenced \subseteq silenced'
    BY <2>2
  <2> QED
    BY <1>1, <2>1, <2>3, <2>4, <2>5
<1>6. ASSUME NEW m \in Msgs, Prune(m) PROVE EndsAnswered'
  BY <1>1, <1>6 DEF Prune
<1> QED
  BY <1>2, <1>3, <1>4, <1>5, <1>6 DEF RpcNext, RpcStep

-----------------------------------------------------------------------------
\* The invariant and what follows from it.

(* The invariant holds of a fresh session. *)
LEMMA RpcStarts == RpcInit => RpcInv
<1> SUFFICES ASSUME RpcInit PROVE RpcInv
  OBVIOUS
<1>0. \A e \in Conns, n \in Msgs : phase[<<e, n>>] = "none"
  BY DEF RpcInit, Deliveries
<1>1. Types
  BY RpcAssumption DEF RpcInit, Types, Phases
<1>2. Elements(<<>>) = {} /\ Distinct(<<>>)
  BY DEF Elements, Distinct
<1>3. Lines /\ Queues
  BY <1>0, <1>2 DEF RpcInit, Lines, Queues
<1>4. Owners /\ RunsBounded /\ Ended /\ Ordered
  BY <1>0 DEF RpcInit, Owners, RunsBounded, Ended, Ordered, AttachedPhases, OwnerPhases
<1>5. SlotsKept
  <2>1. \A c \in Conns : InSlots(c) = {}
    BY <1>0 DEF InSlots, SlotPhases
  <2>2. \A c \in Conns : active[c] = 0 /\ Cardinality(InSlots(c)) = 0 /\ queue[c] = <<>>
    BY <2>1, FS_EmptySet DEF RpcInit
  <2>3. 0 <= Slots
    BY RpcAssumption
  <2> QED
    BY <2>2, <2>3 DEF SlotsKept
<1>6. AfterDependencies /\ EndsAnswered
  BY DEF RpcInit, AfterDependencies, EndsAnswered
<1> QED
  BY <1>1, <1>3, <1>4, <1>5, <1>6 DEF RpcInv

(* The invariant holds in every reachable state. *)
LEMMA RpcInvariant == RpcSpec => []RpcInv
<1>1. RpcInv /\ [RpcNext]_rpcVars => RpcInv'
  <2> SUFFICES ASSUME RpcInv, [RpcNext]_rpcVars PROVE RpcInv'
    OBVIOUS
  <2>1. CASE RpcNext
    BY <2>1, TypesKept, LinesKept, QueuesKept, OwnersKept, SlotsLemma, RunsLemma,
       EndedKept, OrderedKept, AfterKept, AnsweredKept DEF RpcInv
  <2>2. CASE UNCHANGED rpcVars
    <3>1. /\ UNCHANGED <<closed, phase, line, latest, replay, active, queue, waits>>
          /\ UNCHANGED <<prunes, faults, runs, answered, settled, dropped, forgot, silenced>>
      BY <2>2 DEF rpcVars
    <3>2. Types' /\ Owners' /\ RunsBounded' /\ Ended' /\ Ordered'
      BY <3>1 DEF RpcInv, Types, Owners, RunsBounded, Ended, Ordered
    <3>3. Lines'
      BY <3>1, LinesStay
    <3>4. Queues'
      BY <3>1, QueuesStay
    <3>5. SlotsKept'
      <4>1. \A c \in Conns : InSlots(c)' = InSlots(c)
        BY <3>1 DEF InSlots
      <4> QED
        BY <3>1, <4>1 DEF RpcInv, SlotsKept
    <3>6. AfterDependencies' /\ EndsAnswered'
      BY <3>1 DEF RpcInv, AfterDependencies, EndsAnswered
    <3> QED
      BY <3>2, <3>3, <3>4, <3>5, <3>6 DEF RpcInv
  <2> QED
    BY <2>1, <2>2
<1> QED
  BY <1>1, RpcStarts, PTL DEF RpcSpec

(* The state of server-session.ts keeps its types; the count of a connection's
   active calls stays between zero and MAX_ACTIVE_RPCS_PER_CONNECTION. *)
THEOREM RpcTypeCorrect == RpcSpec => []RpcTypeOK
<1>1. RpcInv => RpcTypeOK
  <2> SUFFICES ASSUME RpcInv PROVE RpcTypeOK
    OBVIOUS
  <2>1. \A c \in Conns : active[c] \in 0 .. Slots
    BY SlotsFinite, RpcAssumption DEF RpcInv, Types, SlotsKept
  <2>2. active \in [Conns -> 0 .. Slots]
    BY <2>1 DEF RpcInv, Types
  <2> QED
    BY <2>2 DEF RpcInv, Types, RpcTypeOK
<1> QED
  BY <1>1, RpcInvariant, PTL

(* No release of a slot is lost or done twice: the active count of an open
   connection is the number of executions in its slots, and a call waits only
   while all are taken (server-session.ts, _acquireRpcSlot). *)
THEOREM SlotsAreAccounted == RpcSpec => []SlotsAccounted
<1>1. RpcInv => SlotsAccounted
  BY DEF RpcInv, SlotsKept, SlotsAccounted, InSlots
<1> QED
  BY <1>1, RpcInvariant, PTL

(* The handler of a message runs once however often the message comes, on
   whatever connections, while its reply is kept. *)
THEOREM HandlersRunOnce == RpcSpec => []ExecutedOnce
<1>1. RpcInv => ExecutedOnce
  BY DEF RpcInv, Types, RunsBounded, ExecutedOnce
<1> QED
  BY <1>1, RpcInvariant, PTL

(* An entry of the replay cache is running when, and only when, one connection
   executes its message. *)
THEOREM OneExecutionEach == RpcSpec => []OneExecution
<1>1. RpcInv => OneExecution
  <2> SUFFICES ASSUME RpcInv, NEW m \in Msgs
               PROVE  Cardinality({c \in Conns : phase[<<c, m>>] \in OwnerPhases}) =
                        IF replay[m] = "running" THEN 1 ELSE 0
    BY DEF OneExecution
  <2>1. Owners /\ OwnerPhases \subseteq AttachedPhases
    BY DEF RpcInv, AttachedPhases
  <2>2. CASE replay[m] = "running"
    <3>1. PICK c \in Conns : phase[<<c, m>>] \in OwnerPhases
      BY <2>1, <2>2 DEF Owners
    <3>2. {e \in Conns : phase[<<e, m>>] \in OwnerPhases} = {c}
      BY <2>1, <3>1 DEF Owners
    <3> QED
      BY <2>2, <3>2, FS_Singleton
  <2>3. CASE replay[m] # "running"
    <3>1. {e \in Conns : phase[<<e, m>>] \in OwnerPhases} = {}
      BY <2>1, <2>3 DEF Owners
    <3> QED
      BY <2>3, <3>1, FS_EmptySet
  <2> QED
    BY <2>2, <2>3
<1> QED
  BY <1>1, RpcInvariant, PTL

(* A handler does not start before the calls its message was sent after have
   ended or were abandoned (invokeAfterMsg), whatever connections they came on. *)
THEOREM DependenciesFirst == RpcSpec => []AfterDependencies
<1>1. RpcInv => AfterDependencies
  BY DEF RpcInv
<1> QED
  BY <1>1, RpcInvariant, PTL

(* A delivery that is over was answered, unless its connection closed or the
   execution it had joined was lost. *)
THEOREM DeliveriesAnswered == RpcSpec => []EndsAnswered
<1>1. RpcInv => EndsAnswered
  BY DEF RpcInv
<1> QED
  BY <1>1, RpcInvariant, PTL

-----------------------------------------------------------------------------
\* Nothing waits for itself.  What a call waits for is in progress and was sent
\* before it: a dependency, a call in a slot ahead of the queue, or a transition.
\* Message ids that grow along every connection and every dependency therefore
\* lead from any call in progress to an earlier one, and there is none before
\* the first.

\* Id numbers the messages so that a message comes after what it depends on.
Numbers(Id) ==
  /\ Id \in [Msgs -> Nat]
  /\ \A m \in Msgs : \A n \in After[m] : Id[n] < Id[m]

\* A client sends its messages on each connection in the order of their numbers.
SendsInOrder(Id) ==
  \A c \in Conns, m \in Msgs :
    Arrive(c, m) => \A n \in Msgs : phase[<<c, n>>] # "none" => Id[n] < Id[m]

Rising(Id, s) == \A i, j \in 1 .. Len(s) : i < j => Id[s[i]] < Id[s[j]]

LinesRise(Id) == \A c \in Conns : Rising(Id, line[c])

\* What has left the line of a connection was sent before what is in it.
Begun(Id) ==
  \A c \in Conns, m \in Msgs, n \in Msgs :
    phase[<<c, m>>] = "ordered" /\ phase[<<c, n>>] \notin {"none", "ordered"}
      => Id[n] < Id[m]

\* What has a slot was sent before what is in the queue, and that is in order.
QueuesRise(Id) ==
  \A c \in Conns :
    /\ Rising(Id, queue[c])
    /\ \A m, n \in Msgs :
         phase[<<c, m>>] = "queued" /\ phase[<<c, n>>] \in SlotPhases => Id[n] < Id[m]

\* What an execution awaits has arrived, and is what its message was sent after.
AwaitsEarlier ==
  \A c \in Conns, m \in Msgs :
    phase[<<c, m>>] = "wait" =>
      \A d \in waits[<<c, m>>] : d \in Deliveries /\ d[2] \in After[m] /\ phase[d] # "none"

OrderInv(Id) == LinesRise(Id) /\ Begun(Id) /\ QueuesRise(Id) /\ AwaitsEarlier

Less == {p \in Nat \X Nat : p[1] < p[2]}

(* A set of natural numbers has a first one. *)
LEMMA FirstOf ==
  ASSUME NEW T, T \subseteq Nat, T # {}
  PROVE  \E x \in T : \A y \in T : ~ (y < x)
<1>1. IsWellFoundedOn(Less, Nat)
  BY NatLessThanWellFounded DEF OpToRel, Less
<1>2. PICK x \in T : \A y \in T : <<y, x>> \notin Less
  BY <1>1, WFMin
<1>3. ASSUME NEW y \in T PROVE ~ (y < x)
  <2>1. <<y, x>> \in Nat \X Nat /\ <<y, x>>[1] = y /\ <<y, x>>[2] = x
    OBVIOUS
  <2> QED
    BY <1>2, <2>1 DEF Less
<1> QED
  BY <1>3

(* A rising sequence rises on without its first element, which is the least. *)
LEMMA TailRises ==
  ASSUME NEW Id, Id \in [Msgs -> Nat], NEW s \in Seq(Msgs), s # <<>>, Distinct(s), Rising(Id, s)
  PROVE  /\ Rising(Id, Tail(s))
         /\ \A x \in Elements(s) : x # Head(s) => Id[Head(s)] < Id[x]
<1>1. /\ Len(s) \in Nat \ {0} /\ Head(s) = s[1] /\ Len(Tail(s)) = Len(s) - 1
      /\ \A i \in 1 .. Len(s) - 1 : Tail(s)[i] = s[i + 1]
  OBVIOUS
<1>2. Rising(Id, Tail(s))
  BY <1>1 DEF Rising
<1>3. ASSUME NEW x \in Elements(s), x # Head(s) PROVE Id[Head(s)] < Id[x]
  <2>1. PICK i \in 1 .. Len(s) : x = s[i]
    BY DEF Elements
  <2>2. 1 < i
    BY <1>1, <1>3, <2>1
  <2> QED
    BY <1>1, <2>1, <2>2 DEF Rising
<1> QED
  BY <1>2, <1>3

(* A rising sequence rises on with an element that is greater than all of it. *)
LEMMA AppendRises ==
  ASSUME NEW Id, Id \in [Msgs -> Nat], NEW s \in Seq(Msgs), NEW x \in Msgs, Rising(Id, s),
         \A y \in Elements(s) : Id[y] < Id[x]
  PROVE  Rising(Id, Append(s, x))
<1> DEFINE t == Append(s, x)
<1>1. /\ Len(t) = Len(s) + 1 /\ Len(s) \in Nat /\ t[Len(s) + 1] = x
      /\ \A i \in 1 .. Len(s) : t[i] = s[i] /\ s[i] \in Elements(s)
  BY DEF Elements
<1> HIDE DEF t
<1>2. ASSUME NEW i \in 1 .. Len(t), NEW j \in 1 .. Len(t), i < j PROVE Id[t[i]] < Id[t[j]]
  <2>1. i \in 1 .. Len(s)
    BY <1>1, <1>2
  <2>2. CASE j = Len(s) + 1
    BY <1>1, <2>1, <2>2
  <2>3. CASE j # Len(s) + 1
    <3>1. j \in 1 .. Len(s)
      BY <1>1, <2>3
    <3> QED
      BY <1>1, <1>2, <2>1, <3>1 DEF Rising
  <2> QED
    BY <2>2, <2>3
<1>3. Rising(Id, t)
  BY <1>2 DEF Rising
<1> QED
  BY <1>3 DEF t

\* A step that neither receives a message nor begins to handle one.
Elsewhere ==
  \/ \E c \in Conns, m \in Msgs :
       \/ Run(c, m) \/ Reply(c, m)
       \/ Refuse(c, m) \/ Abandon(c, m) \/ Finish(c, m) \/ ReplyFails(c, m)
  \/ \E c \in Conns : Close(c)
  \/ \E m \in Msgs : Prune(m)

\* A message has its turn.
Begins(c, m) == TurnClosed(c, m) \/ Join(c, m) \/ Refused(c, m) \/ Execute(c, m)

(* Every step is of one of these kinds. *)
LEMMA StepKinds ==
  RpcNext => \/ \E c \in Conns, m \in Msgs : Arrive(c, m) \/ Begins(c, m)
             \/ Elsewhere
BY DEF RpcNext, RpcStep, Begins, Elsewhere

(* What is in line stays there, and what has not arrived has not, where no
   message is received or begun. *)
LEMMA ElsewhereStays ==
  ASSUME RpcInv, Elsewhere
  PROVE  /\ line' = line
         /\ \A e \in Conns, n \in Msgs :
              /\ phase'[<<e, n>>] = "ordered" <=> phase[<<e, n>>] = "ordered"
              /\ phase'[<<e, n>>] = "none" <=> phase[<<e, n>>] = "none"
<1>1. ASSUME NEW c \in Conns, NEW m \in Msgs, Run(c, m) \/ Reply(c, m)
      PROVE  /\ line' = line
             /\ \A e \in Conns, n \in Msgs :
                  /\ phase'[<<e, n>>] = "ordered" <=> phase[<<e, n>>] = "ordered"
                  /\ phase'[<<e, n>>] = "none" <=> phase[<<e, n>>] = "none"
  <2>1. PICK x \in {"run", "done"} : phase' = [phase EXCEPT ![<<c, m>>] = x]
    BY <1>1 DEF Run, Reply
  <2>2. Sets(c, m, x)
    BY <2>1, OneSet DEF Phases
  <2>3. phase[<<c, m>>] \in {"wait", "reply"} /\ line' = line
    BY <1>1 DEF Run, Reply, DependenciesMet
  <2> QED
    BY <2>2, <2>3 DEF Sets
<1>2. ASSUME NEW c \in Conns, NEW m \in Msgs,
             Refuse(c, m) \/ Abandon(c, m) \/ Finish(c, m) \/ ReplyFails(c, m)
      PROVE  /\ line' = line
             /\ \A e \in Conns, n \in Msgs :
                  /\ phase'[<<e, n>>] = "ordered" <=> phase[<<e, n>>] = "ordered"
                  /\ phase'[<<e, n>>] = "none" <=> phase[<<e, n>>] = "none"
  <2>1. line' = line
    BY <1>2 DEF Refuse, Abandon, Finish, ReplyFails
  <2>2. Follows(c, m)
    BY <1>2, Releasing, Following
  <2> QED
    BY <2>1, <2>2, PhaseSets DEF Follows, WithSlot
<1>3. ASSUME NEW c \in Conns, Close(c)
      PROVE  /\ line' = line
             /\ \A e \in Conns, n \in Msgs :
                  /\ phase'[<<e, n>>] = "ordered" <=> phase[<<e, n>>] = "ordered"
                  /\ phase'[<<e, n>>] = "none" <=> phase[<<e, n>>] = "none"
  <2>1. line' = line
    BY <1>3 DEF Close
  <2> QED
    BY <1>3, <2>1, Closing, PhaseSets DEF Told
<1>4. ASSUME NEW m \in Msgs, Prune(m) PROVE line' = line /\ phase' = phase
  BY <1>4 DEF Prune
<1> QED
  BY <1>1, <1>2, <1>3, <1>4 DEF Elsewhere

(* The message whose turn it is was sent before the others in line, and its
   delivery is never put back. *)
LEMMA BeginsFirst ==
  ASSUME NEW Id, Numbers(Id), RpcInv, LinesRise(Id), NEW c \in Conns, NEW m \in Msgs,
         Begins(c, m)
  PROVE  /\ line' = [line EXCEPT ![c] = Tail(@)] /\ Rising(Id, Tail(line[c]))
         /\ \A n \in Msgs : phase[<<c, n>>] = "ordered" /\ n # m => Id[m] < Id[n]
         /\ \E x \in Phases \ {"none", "ordered"} : Sets(c, m, x)
<1>1. Turn(c, m)
  BY DEF Begins, TurnClosed, Join, Refused, Execute
<1>2. /\ line[c] \in Seq(Msgs) /\ Distinct(line[c]) /\ line[c] # <<>> /\ m = Head(line[c])
      /\ Elements(line[c]) = {n \in Msgs : phase[<<c, n>>] = "ordered"}
  BY <1>1 DEF RpcInv, Types, Lines, Turn, MayTurn
<1>3. Rising(Id, Tail(line[c])) /\ \A n \in Elements(line[c]) : n # m => Id[m] < Id[n]
  BY <1>2, TailRises DEF LinesRise, Numbers
<1>4. line' = [line EXCEPT ![c] = Tail(@)]
  BY <1>1 DEF Turn
<1>5. PICK x \in Phases \ {"none", "ordered"} : phase' = [phase EXCEPT ![<<c, m>>] = x]
  BY DEF Begins, TurnClosed, Join, Refused, Execute, WithSlot, Phases
<1> QED
  BY <1>2, <1>3, <1>4, <1>5, OneSet

(* The line of every connection stays in order. *)
LEMMA LinesRiseKept ==
  ASSUME NEW Id, Numbers(Id), RpcInv, LinesRise(Id), RpcNext, SendsInOrder(Id)
  PROVE  LinesRise(Id)'
<1>1. ASSUME NEW c \in Conns, NEW s \in Seq(Msgs), line' = [line EXCEPT ![c] = s], Rising(Id, s)
      PROVE  LinesRise(Id)'
  <2>1. \A e \in Conns : line'[e] = IF e = c THEN s ELSE line[e]
    BY <1>1 DEF RpcInv, Types
  <2> QED
    BY <1>1, <2>1 DEF LinesRise, Rising
<1>2. ASSUME NEW c \in Conns, NEW m \in Msgs, Arrive(c, m) PROVE LinesRise(Id)'
  <2>1. \A n \in Msgs : phase[<<c, n>>] # "none" => Id[n] < Id[m]
    BY <1>2 DEF SendsInOrder
  <2>2. /\ line[c] \in Seq(Msgs) /\ Rising(Id, line[c])
        /\ \A n \in Elements(line[c]) : n \in Msgs /\ phase[<<c, n>>] = "ordered"
    BY DEF RpcInv, Types, Lines, LinesRise
  <2>3. Rising(Id, Append(line[c], m)) /\ Append(line[c], m) \in Seq(Msgs)
    <3>1. \A n \in Elements(line[c]) : Id[n] < Id[m]
      BY <2>1, <2>2
    <3>2. Rising(Id, Append(line[c], m))
      BY <2>2, <3>1, AppendRises DEF Numbers
    <3> QED
      BY <2>2, <3>2
  <2>4. line' = [line EXCEPT ![c] = Append(line[c], m)]
    BY <1>2 DEF Arrive
  <2> QED
    BY <1>1, <2>3, <2>4
<1>3. ASSUME NEW c \in Conns, NEW m \in Msgs, Begins(c, m) PROVE LinesRise(Id)'
  <2>1. line' = [line EXCEPT ![c] = Tail(line[c])] /\ Rising(Id, Tail(line[c]))
    BY <1>3, BeginsFirst
  <2>2. Tail(line[c]) \in Seq(Msgs)
    BY <1>3 DEF RpcInv, Types, Begins, TurnClosed, Join, Refused, Execute, Turn, MayTurn
  <2> QED
    BY <1>1, <2>1, <2>2
<1>4. CASE Elsewhere
  BY <1>4, ElsewhereStays DEF LinesRise, Rising
<1> QED
  BY <1>2, <1>3, <1>4, StepKinds

(* What has left the line stays before what is in it. *)
LEMMA BegunKept ==
  ASSUME NEW Id, Numbers(Id), RpcInv, LinesRise(Id), Begun(Id), RpcNext, SendsInOrder(Id)
  PROVE  Begun(Id)'
<1> SUFFICES ASSUME NEW e \in Conns, NEW n \in Msgs, NEW k \in Msgs,
                    phase'[<<e, n>>] = "ordered", phase'[<<e, k>>] \notin {"none", "ordered"}
             PROVE  Id[k] < Id[n]
  BY DEF Begun
<1>0. phase[<<e, n>>] = "ordered" /\ phase[<<e, k>>] \notin {"none", "ordered"} => Id[k] < Id[n]
  BY DEF Begun
<1>1. ASSUME NEW c \in Conns, NEW m \in Msgs, Arrive(c, m) PROVE Id[k] < Id[n]
  <2>1. \A j \in Msgs : phase[<<c, j>>] # "none" => Id[j] < Id[m]
    BY <1>1 DEF SendsInOrder
  <2>2. Sets(c, m, "ordered")
    BY <1>1, OneSet DEF Arrive, Phases
  <2> QED
    BY <1>0, <2>1, <2>2 DEF Sets
<1>2. ASSUME NEW c \in Conns, NEW m \in Msgs, Begins(c, m) PROVE Id[k] < Id[n]
  <2>1. PICK x \in Phases \ {"none", "ordered"} : Sets(c, m, x)
    BY <1>2, BeginsFirst
  <2>2. \A j \in Msgs : phase[<<c, j>>] = "ordered" /\ j # m => Id[m] < Id[j]
    BY <1>2, BeginsFirst
  <2> QED
    BY <1>0, <2>1, <2>2 DEF Sets
<1>3. CASE Elsewhere
  BY <1>0, <1>3, ElsewhereStays
<1> QED
  BY <1>1, <1>2, <1>3, StepKinds

(* What has a slot stays before what is in the queue, and that in order. *)
LEMMA QueuesRiseKept ==
  ASSUME NEW Id, Numbers(Id), RpcInv, LinesRise(Id), Begun(Id), QueuesRise(Id), RpcNext
  PROVE  QueuesRise(Id)'
<1>1. ASSUME \A e \in Conns : queue'[e] \in {queue[e], <<>>},
             \A e \in Conns, n \in Msgs :
               /\ phase'[<<e, n>>] = "queued" => phase[<<e, n>>] = "queued"
               /\ phase'[<<e, n>>] \in SlotPhases => phase[<<e, n>>] \in SlotPhases
      PROVE  QueuesRise(Id)'
  <2>1. ASSUME NEW e \in Conns PROVE Rising(Id, queue'[e])
    <3>1. CASE queue'[e] = queue[e]
      BY <3>1 DEF QueuesRise
    <3>2. CASE queue'[e] = <<>>
      BY <3>2 DEF Rising
    <3> QED
      BY <1>1, <3>1, <3>2
  <2>2. ASSUME NEW e \in Conns, NEW m \in Msgs, NEW n \in Msgs,
               phase'[<<e, m>>] = "queued", phase'[<<e, n>>] \in SlotPhases
        PROVE  Id[n] < Id[m]
    BY <1>1, <2>2 DEF QueuesRise
  <2> QED
    BY <2>1, <2>2 DEF QueuesRise, Rising
<1>2. ASSUME NEW c \in Conns, NEW m \in Msgs, NEW x \in Phases,
             phase' = [phase EXCEPT ![<<c, m>>] = x], queue' = queue,
             x # "queued", x \in SlotPhases => phase[<<c, m>>] \in SlotPhases
      PROVE  QueuesRise(Id)'
  <2>1. Sets(c, m, x)
    BY <1>2, OneSet
  <2> QED
    BY <1>1, <1>2, <2>1 DEF Sets
<1>3. ASSUME NEW c \in Conns, NEW m \in Msgs,
             \/ Arrive(c, m) \/ TurnClosed(c, m) \/ Join(c, m) \/ Refused(c, m)
             \/ Run(c, m) \/ Reply(c, m)
      PROVE  QueuesRise(Id)'
  <2>1. PICK x \in {"ordered", "done", "reply", "join", "run"} :
          /\ phase' = [phase EXCEPT ![<<c, m>>] = x]
          /\ x = "run" => phase[<<c, m>>] = "wait"
    BY <1>3 DEF Arrive, TurnClosed, Join, Refused, Run, Reply, DependenciesMet
  <2>2. x \in Phases \ {"queued"} /\ (x \in SlotPhases => phase[<<c, m>>] \in SlotPhases)
    BY <2>1 DEF Phases, SlotPhases
  <2>3. queue' = queue
    BY <1>3 DEF Arrive, TurnClosed, Join, Refused, Run, Reply
  <2> QED
    BY <1>2, <2>1, <2>2, <2>3
<1>4. ASSUME NEW c \in Conns, NEW m \in Msgs, Execute(c, m) PROVE QueuesRise(Id)'
  <2>1. phase[<<c, m>>] = "ordered" /\ c \notin closed
    BY <1>4, TurnTakes DEF Execute
  <2>2. CASE active[c] < Slots /\ phase' = [phase EXCEPT ![<<c, m>>] = WithSlot(c, m)]
             /\ queue' = queue
    <3>1. WithSlot(c, m) \in Phases \ {"queued"}
      BY DEF WithSlot, Phases
    <3>2. Sets(c, m, WithSlot(c, m))
      BY <2>2, <3>1, OneSet
    <3>3. queue[c] = <<>>
      BY <2>1, <2>2, RpcAssumption DEF RpcInv, SlotsKept
    <3>4. \A n \in Msgs : phase[<<c, n>>] # "queued"
      BY <3>3 DEF RpcInv, Queues, Elements
    <3>5. ASSUME NEW e \in Conns, NEW j \in Msgs, NEW n \in Msgs,
                 phase'[<<e, j>>] = "queued", phase'[<<e, n>>] \in SlotPhases
          PROVE  Id[n] < Id[j]
      <4>1. e # c /\ phase[<<e, j>>] = "queued" /\ phase[<<e, n>>] \in SlotPhases
        BY <3>1, <3>2, <3>4, <3>5 DEF Sets
      <4> QED
        BY <4>1 DEF QueuesRise
    <3> QED
      BY <2>2, <3>5 DEF QueuesRise, Rising
  <2>3. CASE phase' = [phase EXCEPT ![<<c, m>>] = "queued"]
             /\ queue' = [queue EXCEPT ![c] = Append(@, m)]
    <3>1. Sets(c, m, "queued")
      BY <2>3, OneSet DEF Phases
    <3>2. \A n \in Msgs : phase[<<c, n>>] \in OwnerPhases => Id[n] < Id[m]
      BY <2>1 DEF Begun, OwnerPhases
    <3>3. /\ queue[c] \in Seq(Msgs) /\ Rising(Id, queue[c])
          /\ \A n \in Elements(queue[c]) : n \in Msgs /\ phase[<<c, n>>] = "queued"
      BY DEF RpcInv, Types, Queues, QueuesRise
    <3>4. \A n \in Elements(queue[c]) : Id[n] < Id[m]
      BY <3>2, <3>3 DEF OwnerPhases
    <3>5. Rising(Id, Append(queue[c], m))
      BY <3>3, <3>4, AppendRises DEF Numbers
    <3>6. \A e \in Conns : queue'[e] = IF e = c THEN Append(queue[c], m) ELSE queue[e]
      BY <2>3 DEF RpcInv, Types
    <3>7. ASSUME NEW e \in Conns, NEW j \in Msgs, NEW n \in Msgs,
                 phase'[<<e, j>>] = "queued", phase'[<<e, n>>] \in SlotPhases
          PROVE  Id[n] < Id[j]
      <4>1. phase[<<e, n>>] \in SlotPhases /\ phase[<<e, n>>] \in OwnerPhases
        BY <3>1, <3>7, PhaseSets DEF Sets
      <4>2. (e = c /\ j = m) \/ phase[<<e, j>>] = "queued"
        BY <3>1, <3>7 DEF Sets
      <4> QED
        BY <3>2, <4>1, <4>2 DEF QueuesRise
    <3> QED
      BY <3>5, <3>6, <3>7 DEF QueuesRise, Rising
  <2>4. CASE phase' = [phase EXCEPT ![<<c, m>>] = "reply"] /\ queue' = queue
    BY <1>2, <2>4 DEF Phases, SlotPhases
  <2> QED
    BY <1>4, <2>2, <2>3, <2>4 DEF Execute
<1>5. ASSUME NEW c \in Conns, NEW m \in Msgs,
             Refuse(c, m) \/ Abandon(c, m) \/ Finish(c, m) \/ ReplyFails(c, m)
      PROVE  QueuesRise(Id)'
  <2>1. Follows(c, m)
    BY <1>5, Releasing, Following
  <2>2. PICK where \in {"reply", "done"} : Passed(c, m, where)
    BY <1>5, Releasing DEF Releases
  <2>3. CASE ~ Handing(c)
    <3>1. queue' = queue
      BY <2>2, <2>3 DEF Passed
    <3>2. \A e \in Conns, n \in Msgs :
            /\ phase'[<<e, n>>] = "queued" => phase[<<e, n>>] = "queued"
            /\ phase'[<<e, n>>] \in SlotPhases => phase[<<e, n>>] \in SlotPhases
      BY <2>1, <2>3 DEF Follows, SlotPhases
    <3> QED
      BY <1>1, <3>1, <3>2
  <2>4. CASE Handing(c)
    <3> DEFINE h == Head(queue[c])
    <3>1. /\ h \in Msgs /\ queue' = [queue EXCEPT ![c] = Tail(@)] /\ queue[c] # <<>>
      BY <2>2, <2>4 DEF Passed, Handing
    <3>2. /\ queue[c] \in Seq(Msgs) /\ Distinct(queue[c]) /\ Rising(Id, queue[c])
          /\ Elements(queue[c]) = {n \in Msgs : phase[<<c, n>>] = "queued"}
      BY DEF RpcInv, Types, Queues, QueuesRise
    <3>3. /\ Rising(Id, Tail(queue[c]))
          /\ \A n \in Msgs : phase[<<c, n>>] = "queued" /\ n # h => Id[h] < Id[n]
      BY <3>1, <3>2, TailRises DEF Numbers
    <3>4. \A e \in Conns : queue'[e] = IF e = c THEN Tail(queue[c]) ELSE queue[e]
      BY <3>1 DEF RpcInv, Types
    <3>5. phase'[<<c, h>>] # "queued"
      <4>1. phase[<<c, h>>] = "queued" /\ h # m
        BY <2>2, <2>4 DEF Passed
      <4> QED
        BY <2>2, <2>4, <3>1, <4>1 DEF Passed, WithSlot
    <3> HIDE DEF h
    <3>6. ASSUME NEW e \in Conns, NEW j \in Msgs, NEW n \in Msgs,
                 phase'[<<e, j>>] = "queued", phase'[<<e, n>>] \in SlotPhases
          PROVE  Id[n] < Id[j]
      <4>1. phase[<<e, j>>] = "queued"
        BY <2>1, <3>6 DEF Follows, WithSlot
      <4>2. phase[<<e, n>>] \in SlotPhases \/ (e = c /\ n = h)
        BY <2>1, <3>6 DEF Follows, SlotPhases, h
      <4>3. CASE phase[<<e, n>>] \in SlotPhases
        BY <4>1, <4>3 DEF QueuesRise
      <4>4. CASE e = c /\ n = h
        BY <3>3, <3>5, <3>6, <4>1, <4>4
      <4> QED
        BY <4>2, <4>3, <4>4
    <3> QED
      BY <3>3, <3>4, <3>6 DEF QueuesRise, Rising
  <2> QED
    BY <2>3, <2>4
<1>6. ASSUME NEW c \in Conns, Close(c) PROVE QueuesRise(Id)'
  <2>1. \A e \in Conns : queue'[e] \in {queue[e], <<>>}
    BY <1>6 DEF Close, RpcInv, Types
  <2>2. \A e \in Conns, n \in Msgs : phase'[<<e, n>>] \in {phase[<<e, n>>], "done"}
    BY <1>6, Closing DEF Told
  <2> QED
    BY <1>1, <2>1, <2>2 DEF SlotPhases
<1>7. ASSUME NEW m \in Msgs, Prune(m) PROVE QueuesRise(Id)'
  BY <1>1, <1>7 DEF Prune
<1> QED
  BY <1>3, <1>4, <1>5, <1>6, <1>7 DEF RpcNext, RpcStep

(* What a call would await has arrived, and is what it was sent after. *)
LEMMA DependsOnEarlier ==
  ASSUME RpcInv, NEW c \in Conns, NEW m \in Msgs, NEW d \in Dependencies(c, m)
  PROVE  d \in Deliveries /\ d[2] \in After[m] /\ phase[d] # "none"
<1>1. PICK n \in After[m] : d \in Awaited(c, n)
  BY DEF Dependencies, Outstanding
<1>2. n \in Msgs
  BY <1>1, RpcAssumption
<1>3. d \in Conns \X {n} /\ InProgress(d)
  BY <1>1, <1>2 DEF Awaited, RpcInv, Ordered
<1> QED
  BY <1>1, <1>2, <1>3 DEF Deliveries, InProgress

(* What has arrived has arrived for good. *)
LEMMA ArrivedStays ==
  ASSUME RpcInv, RpcNext, NEW d \in Deliveries, phase[d] # "none"
  PROVE  phase'[d] # "none"
<1>1. PICK e \in Conns, n \in Msgs : d = <<e, n>>
  BY DEF Deliveries
<1>2. ASSUME NEW c \in Conns, NEW m \in Msgs, Arrive(c, m) \/ Begins(c, m) PROVE phase'[d] # "none"
  <2>1. PICK x \in Phases \ {"none"} : phase' = [phase EXCEPT ![<<c, m>>] = x]
    BY <1>2 DEF Arrive, Begins, TurnClosed, Join, Refused, Execute, WithSlot, Phases
  <2>2. Sets(c, m, x)
    BY <2>1, OneSet
  <2> QED
    BY <1>1, <2>2 DEF Sets
<1>3. CASE Elsewhere
  BY <1>1, <1>3, ElsewhereStays
<1> QED
  BY <1>2, <1>3, StepKinds

(* What a waiting call awaits stays what it was sent after. *)
LEMMA AwaitsKept ==
  ASSUME RpcInv, AwaitsEarlier, RpcNext
  PROVE  AwaitsEarlier'
<1> SUFFICES ASSUME NEW e \in Conns, NEW n \in Msgs, phase'[<<e, n>>] = "wait",
                    NEW d \in waits'[<<e, n>>]
             PROVE  d \in Deliveries /\ d[2] \in After[n] /\ phase'[d] # "none"
  BY DEF AwaitsEarlier
<1>1. \/ phase[<<e, n>>] = "wait" /\ d \in waits[<<e, n>>]
      \/ d \in Dependencies(e, n)
  BY WaitsChosen DEF WaitsOn
<1>2. d \in Deliveries /\ d[2] \in After[n] /\ phase[d] # "none"
  BY <1>1, DependsOnEarlier DEF AwaitsEarlier
<1> QED
  BY <1>2, ArrivedStays

(* An execution that has not started, and cannot, is behind an earlier call. *)
LEMMA OwnerBehind ==
  ASSUME NEW Id, Numbers(Id), RpcInv, OrderInv(Id), Quiet,
         \A d \in Deliveries : phase[d] \notin {"run", "reply"},
         NEW c \in Conns, NEW m \in Msgs, phase[<<c, m>>] \in OwnerPhases
  PROVE  \E e \in Conns, n \in Msgs : InProgress(<<e, n>>) /\ Id[n] < Id[m]
<1>1. \A e \in Conns, n \in Msgs : phase[<<e, n>>] \notin {"run", "reply", "refuse"}
  BY DEF Quiet, Deliveries
<1>2. CASE phase[<<c, m>>] = "wait"
  <2>1. PICK d \in waits[<<c, m>>] : phase[d] # "done"
    BY <1>2 DEF Quiet, DependenciesMet
  <2>2. d \in Deliveries /\ d[2] \in After[m] /\ phase[d] # "none"
    BY <1>2, <2>1 DEF OrderInv, AwaitsEarlier
  <2>3. PICK e \in Conns, n \in Msgs : d = <<e, n>>
    BY <2>2 DEF Deliveries
  <2> QED
    BY <2>1, <2>2, <2>3 DEF InProgress, Numbers
<1>3. CASE phase[<<c, m>>] = "queued"
  <2>1. m \in Elements(queue[c])
    BY <1>3 DEF RpcInv, Queues
  <2>2. queue[c] # <<>>
    BY <2>1 DEF Elements
  <2>3. c \notin closed /\ active[c] = Slots /\ active[c] = Cardinality(InSlots(c))
    BY <2>2 DEF RpcInv, Queues, SlotsKept
  <2>4. InSlots(c) # {}
    BY <2>3, RpcAssumption, FS_EmptySet
  <2>5. PICK n \in Msgs : phase[<<c, n>>] \in SlotPhases
    BY <2>4 DEF InSlots
  <2>6. Id[n] < Id[m]
    BY <1>3, <2>5 DEF OrderInv, QueuesRise
  <2>7. InProgress(<<c, n>>)
    BY <2>5 DEF InProgress, SlotPhases
  <2> QED
    BY <2>6, <2>7
<1> QED
  BY <1>1, <1>2, <1>3 DEF OwnerPhases

(* A call in progress that nothing can move on is behind an earlier one. *)
LEMMA Behind ==
  ASSUME NEW Id, Numbers(Id), RpcInv, OrderInv(Id), Quiet,
         \A d \in Deliveries : phase[d] \notin {"run", "reply"},
         NEW c \in Conns, NEW m \in Msgs, InProgress(<<c, m>>)
  PROVE  \E e \in Conns, n \in Msgs : InProgress(<<e, n>>) /\ Id[n] < Id[m]
<1>1. /\ phase[<<c, m>>] \in Phases /\ phase[<<c, m>>] \notin {"none", "done", "run", "reply"}
  BY DEF RpcInv, Types, Deliveries, InProgress
<1>2. CASE phase[<<c, m>>] \in OwnerPhases
  BY <1>2, OwnerBehind
<1>3. CASE phase[<<c, m>>] = "join"
  <2>1. replay[m] = "running"
    BY <1>3 DEF RpcInv, Owners, AttachedPhases
  <2>2. PICK e \in Conns : phase[<<e, m>>] \in OwnerPhases
    BY <2>1 DEF RpcInv, Owners
  <2> QED
    BY <2>2, OwnerBehind
<1>4. CASE phase[<<c, m>>] = "ordered"
  <2>1. /\ line[c] \in Seq(Msgs) /\ Distinct(line[c]) /\ Rising(Id, line[c])
        /\ m \in Elements(line[c])
        /\ Elements(line[c]) = {n \in Msgs : phase[<<c, n>>] = "ordered"}
    BY <1>4 DEF RpcInv, Types, Lines, OrderInv, LinesRise
  <2>2. line[c] # <<>>
    BY <2>1 DEF Elements
  <2> DEFINE h == Head(line[c])
  <2>3. h \in Msgs /\ phase[<<c, h>>] = "ordered"
    BY <2>1, <2>2, TakeFirst
  <2>4. h # m => Id[h] < Id[m]
    BY <2>1, <2>2, TailRises DEF Numbers
  <2>5. CASE h # m
    BY <2>3, <2>4, <2>5 DEF InProgress
  <2>6. CASE h = m
    <3>1. ~ MayTurn(c, m)
      BY DEF Quiet
    <3>2. PICK t \in Transitions : phase[<<c, t>>] \notin {"none", "ordered", "done"}
      BY <2>2, <2>6, <3>1 DEF MayTurn
    <3>3. t \in Msgs
      BY RpcAssumption
    <3> QED
      BY <1>4, <3>2, <3>3 DEF OrderInv, Begun, InProgress
  <2> QED
    BY <2>5, <2>6
<1> QED
  BY <1>1, <1>2, <1>3, <1>4 DEF Phases, OwnerPhases

(* No delivery waits for ever: when no handler is running and no reply is due,
   none is in progress (server-session.ts: the slots of _acquireRpcSlot, the
   completions of _waitForRpcDependencies and the authorization tail cannot wait
   for one another), if a client sends on every connection in an order that
   agrees with what its messages depend on, as growing message ids do. *)
THEOREM NothingWaitsForItself ==
  ASSUME NEW Id, Numbers(Id)
  PROVE  RpcSpec /\ [][SendsInOrder(Id)]_rpcVars => []NothingStuck
<1>1. RpcInit => OrderInv(Id)
  <2> SUFFICES ASSUME RpcInit PROVE OrderInv(Id)
    OBVIOUS
  <2>1. \A e \in Conns, n \in Msgs : phase[<<e, n>>] = "none" /\ line[e] = <<>> /\ queue[e] = <<>>
    BY DEF RpcInit, Deliveries
  <2>2. Rising(Id, <<>>)
    BY DEF Rising
  <2> QED
    BY <2>1, <2>2 DEF OrderInv, LinesRise, Begun, QueuesRise, AwaitsEarlier, SlotPhases, RpcInit
<1>2. RpcInv /\ OrderInv(Id) /\ [RpcNext]_rpcVars /\ [SendsInOrder(Id)]_rpcVars => OrderInv(Id)'
  <2> SUFFICES ASSUME RpcInv, OrderInv(Id), [RpcNext]_rpcVars, [SendsInOrder(Id)]_rpcVars
               PROVE  OrderInv(Id)'
    OBVIOUS
  <2>1. CASE RpcNext /\ SendsInOrder(Id)
    BY <2>1, LinesRiseKept, BegunKept, QueuesRiseKept, AwaitsKept DEF OrderInv
  <2>2. CASE UNCHANGED rpcVars
    BY <2>2 DEF rpcVars, OrderInv, LinesRise, Begun, QueuesRise, AwaitsEarlier, Rising
  <2> QED
    BY <2>1, <2>2
<1>3. RpcInv /\ OrderInv(Id) => NothingStuck
  <2> SUFFICES ASSUME RpcInv, OrderInv(Id), Quiet,
                      \A d \in Deliveries : phase[d] \notin {"run", "reply"},
                      NEW c \in Conns, NEW m \in Msgs, InProgress(<<c, m>>)
               PROVE  FALSE
    BY DEF NothingStuck, Deliveries
  <2> DEFINE T == {Id[n] : n \in {k \in Msgs : \E e \in Conns : InProgress(<<e, k>>)}}
  <2>1. T \subseteq Nat /\ Id[m] \in T
    BY DEF Numbers
  <2>2. PICK x \in T : \A y \in T : ~ (y < x)
    BY <2>1, FirstOf
  <2>3. PICK e \in Conns, n \in Msgs : InProgress(<<e, n>>) /\ x = Id[n]
    BY <2>2
  <2>4. PICK f \in Conns, k \in Msgs : InProgress(<<f, k>>) /\ Id[k] < Id[n]
    BY <2>3, Behind
  <2> QED
    BY <2>2, <2>3, <2>4
<1> QED
  BY <1>1, <1>2, <1>3, RpcInvariant, PTL DEF RpcSpec
=============================================================================
