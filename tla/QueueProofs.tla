---------------------------- MODULE QueueProofs ----------------------------
(***************************************************************************)
(* Proofs about EventQueue: types, the order of events within a queue, the *)
(* drained queue of a closed subscription, and that only subscriptions on  *)
(* their way out run events beside a live one.                             *)
(***************************************************************************)
EXTENDS EventQueue, FiniteSetTheorems, TLAPS

-----------------------------------------------------------------------------
\* The inductive invariant.

\* The subscriptions used so far are the first ones, and one more than were
\* stopped or failed at most: Opens never runs out of them.
Opened == stops + failures + (IF entry = None THEN 0 ELSE 1)
Numbered ==
  \E n \in Nat :
    /\ n <= Opened
    /\ \A s \in Subs : sub[s] # "unused" <=> s <= n

\* The entry is the one subscription that is starting or live.
OneEntry ==
  \A s \in Subs : sub[s] \in {"opening", "open"} <=> entry = s

\* An event has a ticket from the moment it is queued.
Staged ==
  \A e \in Events :
    /\ stage[e] \in {"new", "waiting"} => ticket[e] = 0
    /\ stage[e] \in {"queued", "running", "settled"} => ticket[e] # 0
    /\ stage[e] = "waiting" => on[e] \in Subs
    /\ ticket[e] # 0 => on[e] \in Subs /\ sub[on[e]] # "unused"

Tickets ==
  /\ IsFiniteSet(Queued)
  /\ \A e \in Queued : ticket[e] <= Cardinality(Queued)
  /\ \A e, f \in Queued : ticket[e] = ticket[f] => e = f

Drained(s) == \A f \in Queued : on[f] = s => Settled(f)
Newest(s, p) ==
  /\ p \in Queued /\ on[p] = s
  /\ \A f \in Queued : on[f] = s => ticket[f] <= ticket[p]

\* p is a tail to wait for on s: once it has settled, so has all that is queued.
Ends(s, p) == IF p = None THEN Drained(s) ELSE Newest(s, p)

Tails == \A s \in Subs : Ends(s, tail[s])
Closing == \A s \in Subs : sub[s] = "closing" => Ends(s, awaited[s])

\* What an event found in front of it.
Chain ==
  \A e, f \in Queued :
    on[e] = on[f] /\ ticket[f] < ticket[e] =>
      IF prev[e] = None THEN Settled(f)
      ELSE /\ prev[e] \in Queued /\ on[prev[e]] = on[e]
           /\ ticket[f] <= ticket[prev[e]]
           /\ ticket[prev[e]] < ticket[e]

QueueInv ==
  /\ QueueTypeOK /\ Numbered /\ OneEntry /\ Staged /\ Tickets
  /\ Tails /\ Closing /\ Chain /\ InOrder /\ DrainedBeforeClosed

-----------------------------------------------------------------------------
\* Subscriptions.

(* While there is no entry a subscription is left to open, and it is the next. *)
LEMMA NextUnused ==
  ASSUME QueueTypeOK, Numbered, entry = None
  PROVE  /\ Unused \in Subs /\ sub[Unused] = "unused"
         /\ \A n \in Nat :
              (\A s \in Subs : sub[s] # "unused" <=> s <= n) /\ n <= stops + failures
                => Unused = n + 1
<1> USE QueueConstants
<1>1. PICK n \in Nat : /\ n <= stops + failures
                       /\ \A s \in Subs : sub[s] # "unused" <=> s <= n
  BY DEF Numbered, Opened, QueueTypeOK
<1>2. n + 1 \in Subs
  BY <1>1 DEF QueueTypeOK, Subs
<1>3. sub[n + 1] = "unused" /\ \A r \in Subs : r < n + 1 => sub[r] # "unused"
  BY <1>1, <1>2 DEF Subs
<1>4. /\ Unused \in Subs /\ sub[Unused] = "unused"
      /\ \A r \in Subs : r < Unused => sub[r] # "unused"
  BY <1>2, <1>3 DEF Unused
<1>5. ASSUME NEW m \in Nat, \A s \in Subs : sub[s] # "unused" <=> s <= m,
             m <= stops + failures
      PROVE  Unused = m + 1
  <2>1. m + 1 \in Subs
    BY <1>5 DEF QueueTypeOK, Subs
  <2>2. ~(Unused <= m) /\ sub[m + 1] = "unused"
    BY <1>4, <1>5, <2>1 DEF Subs
  <2> QED
    BY <1>4, <2>1, <2>2 DEF Subs
<1> QED
  BY <1>4, <1>5

(* A step that opens a subscription keeps the numbering and the one entry. *)
LEMMA OpensKeeps ==
  ASSUME QueueTypeOK, Numbered, OneEntry, entry = None, Opens,
         UNCHANGED <<failures, stops>>
  PROVE  /\ entry' \in Subs
         /\ sub' \in [Subs -> SubStages]
         /\ Numbered' /\ OneEntry'
         /\ \A s \in Subs : sub[s] # "unused" => sub'[s] = sub[s]
         /\ \A s \in Subs : sub'[s] \in {"closing", "closed"} => sub[s] = sub'[s]
<1> USE QueueConstants
<1>1. Unused \in Subs /\ sub[Unused] = "unused"
  BY NextUnused
<1>2. /\ entry' = Unused /\ sub' = [sub EXCEPT ![Unused] = "opening"]
      /\ entry' # None
  BY <1>1 DEF Opens
<1>3. sub' \in [Subs -> SubStages]
  BY <1>1, <1>2 DEF QueueTypeOK, SubStages
<1>4. PICK n \in Nat : /\ n <= stops + failures
                       /\ \A s \in Subs : sub[s] # "unused" <=> s <= n
  BY DEF Numbered, Opened, QueueTypeOK
<1>5. Unused = n + 1
  BY <1>4, NextUnused
<1>6. Numbered'
  <2>1. n + 1 \in Nat /\ n + 1 <= stops' + failures' + (IF entry' = None THEN 0 ELSE 1)
    BY <1>2, <1>4 DEF QueueTypeOK
  <2>2. \A s \in Subs : sub'[s] # "unused" <=> s <= n + 1
    BY <1>1, <1>2, <1>4, <1>5 DEF QueueTypeOK, Subs
  <2> QED
    BY <2>1, <2>2 DEF Numbered, Opened
<1>7. OneEntry'
  BY <1>1, <1>2 DEF OneEntry, QueueTypeOK
<1> QED
  BY <1>1, <1>2, <1>3, <1>6, <1>7 DEF QueueTypeOK

(* The steps that leave the events alone keep the numbering and the one entry,
   and use no subscription twice. *)
LEMMA SubStepKeeps ==
  ASSUME QueueTypeOK, Numbered, OneEntry, NEW s \in Subs,
         \/ Ensure \/ Unregister \/ Register
         \/ Subscribed(s) \/ SubscribeFails(s) \/ Unsubscribe(s)
  PROVE  /\ QueueTypeOK' /\ Numbered' /\ OneEntry'
         /\ \A r \in Subs : sub[r] # "unused" => sub'[r] # "unused"
<1> USE QueueConstants
<1>0. ASSUME Opened <= Opened', Opened \in Nat, Opened' \in Nat,
             \A r \in Subs : sub[r] # "unused" <=> sub'[r] # "unused"
      PROVE  Numbered'
  <2>1. PICK n \in Nat : /\ n <= Opened
                         /\ \A r \in Subs : sub[r] # "unused" <=> r <= n
    BY DEF Numbered
  <2>2. n <= Opened'
    <3>1. n <= Opened
      BY <2>1
    <3> QED
      BY <1>0, <3>1
  <2>3. \A r \in Subs : sub'[r] # "unused" <=> r <= n
    BY <1>0, <2>1
  <2> QED
    BY <2>2, <2>3 DEF Numbered
<1>1. CASE Ensure
  BY <1>1, OpensKeeps DEF Ensure, QueueTypeOK, eventVars
<1>2. CASE Unregister
  <2>0. stops' \in 0 .. MaxStops /\ stops' = stops + 1 /\ UNCHANGED <<failures, eventVars>>
    BY <1>2 DEF Unregister, QueueTypeOK
  <2>1. CASE entry = None
    <3>1. UNCHANGED <<entry, sub, awaited>> /\ registered' = FALSE
      BY <1>2, <2>1 DEF Unregister, StopPlatform
    <3>2. QueueTypeOK' /\ OneEntry'
      BY <2>0, <3>1 DEF QueueTypeOK, OneEntry, eventVars
    <3> QED
      BY <1>0, <2>0, <2>1, <3>1, <3>2 DEF QueueTypeOK, Opened
  <2>2. CASE entry # None
    <3>1. /\ entry \in Subs /\ entry' = None
          /\ sub' = [sub EXCEPT ![entry] = IF @ = "open" THEN "closing" ELSE "stopping"]
          /\ awaited' = [awaited EXCEPT ![entry] = tail[entry]]
          /\ sub[entry] \in {"opening", "open"}
      BY <1>2, <2>2 DEF Unregister, StopPlatform, QueueTypeOK, OneEntry
    <3>2. QueueTypeOK'
      BY <1>2, <2>0, <3>1 DEF Unregister, QueueTypeOK, eventVars, SubStages
    <3>3. \A r \in Subs : sub[r] # "unused" <=> sub'[r] # "unused"
      BY <3>1 DEF QueueTypeOK
    <3>4. OneEntry'
      BY <3>1 DEF OneEntry, QueueTypeOK
    <3> QED
      BY <1>0, <2>0, <2>2, <3>1, <3>2, <3>3, <3>4 DEF QueueTypeOK, Opened
  <2> QED
    BY <2>1, <2>2
<1>3. CASE Register
  BY <1>0, <1>3 DEF Register, QueueTypeOK, eventVars, OneEntry, Opened
<1>4. CASE Subscribed(s)
  <2>1. QueueTypeOK'
    BY <1>4 DEF Subscribed, QueueTypeOK, eventVars, SubStages
  <2>2. \A r \in Subs : sub[r] # "unused" <=> sub'[r] # "unused"
    BY <1>4 DEF Subscribed, QueueTypeOK
  <2>3. OneEntry'
    BY <1>4 DEF Subscribed, OneEntry, QueueTypeOK
  <2> QED
    BY <1>0, <1>4, <2>1, <2>2, <2>3 DEF Subscribed, QueueTypeOK, Opened
<1>5. CASE SubscribeFails(s)
  <2>1. QueueTypeOK'
    BY <1>5 DEF SubscribeFails, QueueTypeOK, eventVars, SubStages
  <2>2. \A r \in Subs : sub[r] # "unused" <=> sub'[r] # "unused"
    BY <1>5 DEF SubscribeFails, QueueTypeOK
  <2>3. OneEntry'
    BY <1>5 DEF SubscribeFails, OneEntry, QueueTypeOK
  <2> QED
    BY <1>0, <1>5, <2>1, <2>2, <2>3 DEF SubscribeFails, QueueTypeOK, Opened
<1>6. CASE Unsubscribe(s)
  <2>1. QueueTypeOK'
    BY <1>6 DEF Unsubscribe, QueueTypeOK, eventVars, SubStages
  <2>2. \A r \in Subs : sub[r] # "unused" <=> sub'[r] # "unused"
    BY <1>6 DEF Unsubscribe, QueueTypeOK
  <2>3. OneEntry'
    BY <1>6 DEF Unsubscribe, OneEntry, QueueTypeOK
  <2> QED
    BY <1>0, <1>6, <2>1, <2>2, <2>3 DEF Unsubscribe, QueueTypeOK, Opened
<1> QED
  BY <1>1, <1>2, <1>3, <1>4, <1>5, <1>6

-----------------------------------------------------------------------------
\* Queues.

(* What settles stays settled, and tickets are handed out once: a tail to wait
   for remains one, and so does the chain of events behind it. *)
LEMMA EndsStay ==
  ASSUME UNCHANGED <<ticket, prev>>,
         \A e \in Queued : on'[e] = on[e],
         \A e \in Events : Settled(e) => Settled(e)',
         NEW s \in Subs, NEW p, Ends(s, p)
  PROVE  Ends(s, p)'
<1>1. Queued' = Queued
  BY DEF Queued
<1> QED
  BY <1>1 DEF Ends, Drained, Newest, Queued

(* A step that moves no event in a chain keeps what the chain says. *)
LEMMA ChainStays ==
  ASSUME UNCHANGED <<ticket, prev>>,
         \A e \in Queued : on'[e] = on[e],
         \A e \in Events : Settled(e) => Settled(e)',
         Chain, Tickets
  PROVE  Chain' /\ Tickets'
<1>1. Queued' = Queued
  BY DEF Queued
<1>2. Tickets'
  BY <1>1 DEF Tickets
<1>3. Chain'
  BY <1>1 DEF Chain, Queued
<1> QED
  BY <1>2, <1>3

(* A settled tail means a drained queue: everything in front of it ran before. *)
LEMMA TailDrains ==
  ASSUME QueueTypeOK, Tickets, InOrder, NEW s \in Subs, NEW p, Ends(s, p), Settled(p)
  PROVE  Drained(s)
<1>1. CASE p = None
  BY <1>1 DEF Ends
<1>2. CASE p # None
  <2>1. Newest(s, p) /\ Started(p)
    BY <1>2 DEF Ends, Settled, Started
  <2>2. ASSUME NEW f \in Queued, on[f] = s PROVE Settled(f)
    <3>1. ticket[f] \in Nat /\ ticket[p] \in Nat /\ p \in Queued /\ on[p] = s
      BY <2>1 DEF Newest, Queued, QueueTypeOK
    <3>2. CASE ticket[f] = ticket[p]
      BY <2>1, <3>1, <3>2 DEF Tickets
    <3>3. CASE ticket[f] < ticket[p]
      BY <2>1, <2>2, <3>1, <3>3 DEF InOrder
    <3> QED
      BY <2>1, <2>2, <3>1, <3>2, <3>3 DEF Newest
  <2> QED
    BY <2>2 DEF Drained
<1> QED
  BY <1>1, <1>2

(* The steps of subscriptions keep the invariant. *)
LEMMA SubStepInv ==
  ASSUME QueueInv, NEW s \in Subs,
         \/ Ensure \/ Unregister \/ Register
         \/ Subscribed(s) \/ SubscribeFails(s) \/ Unsubscribe(s)
  PROVE  QueueInv'
<1> USE DEF QueueInv
<1>1. /\ QueueTypeOK' /\ Numbered' /\ OneEntry'
      /\ \A r \in Subs : sub[r] # "unused" => sub'[r] # "unused"
  BY SubStepKeeps
<1>2. UNCHANGED eventVars
  BY DEF Ensure, Unregister, Register, Subscribed, SubscribeFails, Unsubscribe
<1>3. UNCHANGED <<tail, stage, on, prev, ticket>> /\ Queued' = Queued
  BY <1>2 DEF eventVars, Queued
<1>4. \A e \in Events \cup {None} : Settled(e)' <=> Settled(e)
  BY <1>3 DEF Settled
<1>5. Staged'
  BY <1>1, <1>3 DEF Staged
<1>6. Chain' /\ Tickets'
  BY <1>3, <1>4, ChainStays
<1>7. InOrder'
  BY <1>3, <1>4 DEF InOrder, Started, Queued
<1>8. Tails'
  BY <1>3, <1>4, EndsStay DEF Tails
<1>9. Closing'
  <2>1. ASSUME NEW r \in Subs, sub'[r] = "closing"
        PROVE  \/ awaited'[r] = tail[r]
               \/ sub[r] = "closing" /\ awaited'[r] = awaited[r]
    <3> USE <2>1
    <3>1. CASE Ensure
      BY <3>1, OpensKeeps DEF Ensure
    <3>2. CASE Unregister
      BY <3>2 DEF Unregister, StopPlatform, QueueTypeOK
    <3>3. CASE Register
      BY <3>3 DEF Register
    <3>4. CASE Subscribed(s)
      BY <3>4 DEF Subscribed, QueueTypeOK
    <3>5. CASE SubscribeFails(s)
      BY <3>5 DEF SubscribeFails, QueueTypeOK
    <3>6. CASE Unsubscribe(s)
      BY <3>6 DEF Unsubscribe, QueueTypeOK
    <3> QED
      BY <3>1, <3>2, <3>3, <3>4, <3>5, <3>6
  <2>2. ASSUME NEW r \in Subs, sub'[r] = "closing" PROVE Ends(r, awaited[r])'
    <3>1. PICK p : p = awaited'[r]
      OBVIOUS
    <3>2. Ends(r, p)
      BY <2>1, <2>2, <3>1 DEF Tails, Closing
    <3>3. Ends(r, p)'
      BY <1>3, <1>4, <3>2, EndsStay
    <3> QED
      BY <3>1, <3>3 DEF Ends, Newest, Drained
  <2> QED
    BY <2>2 DEF Closing
<1>10. DrainedBeforeClosed'
  <2>1. ASSUME NEW r \in Subs, sub'[r] = "closed"
        PROVE  sub[r] = "closed" \/ (sub[r] = "closing" /\ Settled(awaited[r]))
    <3> USE <2>1
    <3>1. CASE Ensure
      BY <3>1, OpensKeeps DEF Ensure
    <3>2. CASE Unregister
      BY <3>2 DEF Unregister, StopPlatform, QueueTypeOK
    <3>3. CASE Register
      BY <3>3 DEF Register
    <3>4. CASE Subscribed(s)
      BY <3>4 DEF Subscribed, QueueTypeOK
    <3>5. CASE SubscribeFails(s)
      BY <3>5 DEF SubscribeFails, QueueTypeOK
    <3>6. CASE Unsubscribe(s)
      BY <3>6 DEF Unsubscribe, QueueTypeOK
    <3> QED
      BY <3>1, <3>2, <3>3, <3>4, <3>5, <3>6
  <2>2. ASSUME NEW e \in Queued, sub'[on[e]] = "closed" PROVE Settled(e)
    <3>1. on[e] \in Subs
      BY <2>2 DEF Staged, Queued
    <3>2. CASE sub[on[e]] = "closed"
      BY <2>2, <3>2 DEF DrainedBeforeClosed
    <3>3. CASE sub[on[e]] = "closing" /\ Settled(awaited[on[e]])
      BY <2>2, <3>1, <3>3, TailDrains DEF Closing, Drained
    <3> QED
      BY <2>1, <2>2, <3>1, <3>2, <3>3
  <2> QED
    BY <1>3, <1>4, <2>2 DEF DrainedBeforeClosed, Queued
<1> QED
  BY <1>1, <1>5, <1>6, <1>7, <1>8, <1>9, <1>10

-----------------------------------------------------------------------------
\* Events.

(* What is queued is Queued, and a step that queues nothing and changes no
   subscription in use keeps what the queues promise. *)
LEMMA EventStepInv ==
  ASSUME QueueInv, QueueTypeOK', Numbered', OneEntry',
         UNCHANGED <<ticket, prev, awaited>>,
         \A e \in Queued : on'[e] = on[e],
         \A e \in Events : Settled(e) => Settled(e)',
         \A s \in Subs : sub[s] # "unused" => sub'[s] = sub[s],
         \A s \in Subs : sub'[s] \in {"closing", "closed"} => sub[s] = sub'[s],
         Staged', InOrder', Tails'
  PROVE  QueueInv'
<1> USE DEF QueueInv
<1>1. Queued' = Queued
  BY DEF Queued
<1>2. Chain' /\ Tickets'
  BY ChainStays
<1>3. Closing'
  <2>1. ASSUME NEW s \in Subs, sub'[s] = "closing" PROVE Ends(s, awaited[s])'
    <3>1. PICK p : p = awaited[s] /\ p = awaited'[s]
      OBVIOUS
    <3>2. Ends(s, p)
      BY <2>1, <3>1 DEF Closing
    <3>3. Ends(s, p)'
      BY <3>2, EndsStay
    <3> QED
      BY <3>1, <3>3 DEF Ends, Newest, Drained
  <2> QED
    BY <2>1 DEF Closing
<1>4. DrainedBeforeClosed'
  <2>1. ASSUME NEW e \in Queued, sub'[on'[e]] = "closed" PROVE Settled(e)'
    <3>1. on'[e] = on[e] /\ on[e] \in Subs /\ e \in Events
      BY DEF Staged, Queued
    <3> QED
      BY <2>1, <3>1 DEF DrainedBeforeClosed
  <2> QED
    BY <1>1, <2>1 DEF DrainedBeforeClosed
<1> QED
  BY <1>2, <1>3, <1>4

(* Tails that stay are still tails to wait for. *)
LEMMA TailsStay ==
  ASSUME UNCHANGED <<ticket, prev, tail>>, Tails,
         \A e \in Queued : on'[e] = on[e],
         \A e \in Events : Settled(e) => Settled(e)'
  PROVE  Tails'
BY EndsStay DEF Tails

(* An event joins the queue of the entry. *)
LEMMA JoinsInv ==
  ASSUME QueueInv, NEW e \in Events, stage[e] \in {"new", "waiting"}, Joins(e)
  PROVE  QueueInv'
<1> USE QueueConstants DEF QueueInv
<1> DEFINE n == Cardinality(Queued) + 1
<1>1. /\ entry \in Subs /\ entry # None /\ sub[entry] \in {"opening", "open"}
      /\ stage' = [stage EXCEPT ![e] = "queued"]
      /\ on' = [on EXCEPT ![e] = entry]
      /\ prev' = [prev EXCEPT ![e] = tail[entry]]
      /\ tail' = [tail EXCEPT ![entry] = e]
      /\ ticket' = [ticket EXCEPT ![e] = n]
      /\ UNCHANGED <<registered, entry, sub, awaited, failures, stops>>
  BY DEF Joins, Append, subVars, QueueTypeOK, OneEntry
<1>2. ticket[e] = 0 /\ e \notin Queued
  BY DEF Staged, Queued
<1>3. n \in Nat /\ n # 0
  BY FS_CardinalityType DEF Tickets
<1>4. Queued' = Queued \cup {e}
  BY <1>1, <1>3 DEF Queued, QueueTypeOK
<1>5. IsFiniteSet(Queued') /\ Cardinality(Queued') = n
  BY <1>2, <1>4, FS_AddElement DEF Tickets
<1>6. \A f \in Queued : /\ ticket'[f] = ticket[f] /\ ticket[f] < n /\ ticket[f] \in Nat
                        /\ on'[f] = on[f] /\ prev'[f] = prev[f] /\ f # e /\ f \in Events
                        /\ Settled(f)' <=> Settled(f)
                        /\ Started(f)' <=> Started(f)
  <2>1. ASSUME NEW f \in Queued
        PROVE  /\ f \in Events /\ f # e /\ ticket[f] \in Nat /\ ticket[f] <= Cardinality(Queued)
    BY <1>2 DEF Queued, Tickets, QueueTypeOK
  <2>2. Cardinality(Queued) \in Nat
    BY FS_CardinalityType DEF Tickets
  <2>3. ASSUME NEW f \in Queued
        PROVE  /\ ticket'[f] = ticket[f] /\ on'[f] = on[f] /\ prev'[f] = prev[f]
               /\ stage'[f] = stage[f]
    BY <1>1, <2>1 DEF QueueTypeOK
  <2> QED
    BY <2>1, <2>2, <2>3 DEF Settled, Started
<1>7. /\ ticket'[e] = n /\ on'[e] = entry /\ prev'[e] = tail[entry]
      /\ ~Settled(e)' /\ ~Started(e)'
  BY <1>1 DEF QueueTypeOK, Settled, Started
<1> HIDE DEF n
<1>8. QueueTypeOK'
  BY <1>1, <1>3 DEF QueueTypeOK, EventStages
<1>9. Numbered' /\ OneEntry'
  BY <1>1 DEF Numbered, Opened, OneEntry
<1>10. Staged'
  BY <1>1, <1>3 DEF Staged, QueueTypeOK
<1>11. Tickets'
  <2>1. \A f \in Queued' : ticket'[f] <= n
    BY <1>3, <1>4, <1>6, <1>7
  <2>2. \A f, g \in Queued' : ticket'[f] = ticket'[g] => f = g
    BY <1>3, <1>4, <1>6, <1>7 DEF Tickets
  <2> QED
    BY <1>5, <2>1, <2>2 DEF Tickets
<1>12. ASSUME NEW r \in Subs, r # entry, NEW p, Ends(r, p) PROVE Ends(r, p)'
  BY <1>4, <1>6, <1>7, <1>12 DEF Ends, Drained, Newest
<1>13. Tails'
  <2>1. ASSUME NEW r \in Subs PROVE Ends(r, tail[r])'
    <3>1. CASE r = entry
      <4>1. tail'[r] = e /\ e # None
        BY <1>1, <3>1 DEF QueueTypeOK
      <4>2. Newest(r, e)'
        BY <1>3, <1>4, <1>6, <1>7, <3>1 DEF Newest
      <4> QED
        BY <4>1, <4>2 DEF Ends, Newest
    <3>2. CASE r # entry
      <4>1. PICK p : p = tail[r] /\ p = tail'[r]
        BY <1>1, <3>2 DEF QueueTypeOK
      <4>2. Ends(r, p)'
        BY <1>12, <3>2, <4>1 DEF Tails
      <4> QED
        BY <4>1, <4>2 DEF Ends, Newest, Drained
    <3> QED
      BY <3>1, <3>2
  <2> QED
    BY <2>1 DEF Tails
<1>14. Closing'
  <2>1. ASSUME NEW r \in Subs, sub'[r] = "closing" PROVE Ends(r, awaited[r])'
    <3>1. PICK p : p = awaited[r] /\ p = awaited'[r]
      BY <1>1
    <3>2. r # entry /\ Ends(r, p)
      BY <1>1, <2>1, <3>1 DEF Closing
    <3>3. Ends(r, p)'
      BY <1>12, <3>2
    <3> QED
      BY <3>1, <3>3 DEF Ends, Newest, Drained
  <2> QED
    BY <2>1 DEF Closing
<1>15. Chain'
  <2>1. ASSUME NEW f \in Queued, on'[f] = on'[e]
        PROVE  IF prev'[e] = None THEN Settled(f)'
               ELSE /\ prev'[e] \in Queued' /\ on'[prev'[e]] = on'[e]
                    /\ ticket'[f] <= ticket'[prev'[e]]
                    /\ ticket'[prev'[e]] < ticket'[e]
    <3>1. Ends(entry, tail[entry]) /\ on[f] = entry /\ prev'[e] = tail[entry]
      BY <1>1, <1>6, <1>7, <2>1 DEF Tails
    <3> QED
      BY <1>4, <1>6, <1>7, <3>1 DEF Ends, Drained, Newest
  <2>2. ASSUME NEW f \in Queued, NEW g \in Queued, on'[f] = on'[g], ticket'[f] < ticket'[g]
        PROVE  IF prev'[g] = None THEN Settled(f)'
               ELSE /\ prev'[g] \in Queued' /\ on'[prev'[g]] = on'[g]
                    /\ ticket'[f] <= ticket'[prev'[g]]
                    /\ ticket'[prev'[g]] < ticket'[g]
    BY <1>4, <1>6, <2>2 DEF Chain
  <2>3. ASSUME NEW g \in Queued PROVE ~(ticket'[e] < ticket'[g])
    BY <1>3, <1>6, <1>7
  <2>4. ~(ticket'[e] < ticket'[e])
    BY <1>3, <1>7
  <2> QED
    BY <1>4, <2>1, <2>2, <2>3, <2>4 DEF Chain
<1>16. InOrder'
  BY <1>3, <1>4, <1>6, <1>7 DEF InOrder
<1>17. DrainedBeforeClosed'
  BY <1>1, <1>4, <1>6, <1>7 DEF DrainedBeforeClosed
<1> QED
  BY <1>8, <1>9, <1>10, <1>11, <1>13, <1>14, <1>15, <1>16, <1>17

(* The steps of events other than joining a queue keep the invariant. *)
LEMMA WaitsInv ==
  ASSUME QueueInv, NEW e \in Events, stage[e] \in {"new", "waiting"},
         entry = None, Opens,
         stage' = [stage EXCEPT ![e] = "waiting"],
         on' = [on EXCEPT ![e] = Unused],
         UNCHANGED <<registered, awaited, failures, stops, tail, prev, ticket>>
  PROVE  QueueInv'
<1> USE QueueConstants DEF QueueInv
<1>1. /\ entry' \in Subs /\ sub' \in [Subs -> SubStages]
      /\ Numbered' /\ OneEntry'
      /\ \A s \in Subs : sub[s] # "unused" => sub'[s] = sub[s]
      /\ \A s \in Subs : sub'[s] \in {"closing", "closed"} => sub[s] = sub'[s]
  BY OpensKeeps
<1>2. Unused \in Subs
  BY NextUnused
<1>3. ticket[e] = 0 /\ e \notin Queued
  BY DEF Staged, Queued
<1>4. /\ \A f \in Queued : on'[f] = on[f] /\ f \in Events /\ f # e
      /\ \A f \in Events : f # e => stage'[f] = stage[f] /\ on'[f] = on[f]
      /\ stage'[e] = "waiting" /\ on'[e] = Unused
  BY <1>3 DEF QueueTypeOK, Queued
<1>5. \A f \in Events : /\ Settled(f) => Settled(f)'
                        /\ Started(f) <=> Started(f)'
  BY <1>4 DEF Settled, Started
<1>6. QueueTypeOK'
  BY <1>1, <1>2 DEF QueueTypeOK, EventStages
<1>7. Staged'
  BY <1>1, <1>2, <1>3, <1>4 DEF Staged
<1>8. InOrder'
  BY <1>4, <1>5 DEF InOrder, Queued
<1>9. Tails'
  BY <1>4, <1>5, TailsStay
<1> QED
  BY <1>1, <1>4, <1>5, <1>6, <1>7, <1>8, <1>9, EventStepInv

(* A step that changes the stage of one event only. *)
LEMMA StageStep ==
  ASSUME QueueInv, NEW e \in Events, NEW to \in EventStages,
         stage' = [stage EXCEPT ![e] = to],
         UNCHANGED <<subVars, on, prev, ticket>>,
         tail' \in [Subs -> Events \cup {None}],
         Settled(e) => to = "done",
         to \in {"new", "waiting"} => FALSE,
         to \in {"queued", "running", "settled"} => ticket[e] # 0,
         InOrder', Tails'
  PROVE  QueueInv'
<1> USE DEF QueueInv
<1>1. UNCHANGED <<registered, entry, sub, awaited, failures, stops, on, prev, ticket>>
  BY DEF subVars
<1>2. QueueTypeOK'
  BY <1>1 DEF QueueTypeOK
<1>3. Numbered' /\ OneEntry'
  BY <1>1 DEF Numbered, Opened, OneEntry
<1>4. \A f \in Events : f # e => stage'[f] = stage[f]
  BY DEF QueueTypeOK
<1>5. stage'[e] = to
  BY DEF QueueTypeOK
<1>6. \A f \in Events : Settled(f) => Settled(f)'
  BY <1>4, <1>5 DEF Settled
<1>7. Staged'
  BY <1>1, <1>4, <1>5 DEF Staged
<1> QED
  BY <1>1, <1>2, <1>3, <1>6, <1>7, EventStepInv DEF Queued

(* An event that is refused keeps the invariant. *)
LEMMA RejectInv ==
  ASSUME QueueInv, NEW e \in Events, stage[e] \in {"new", "waiting"},
         stage' = [stage EXCEPT ![e] = "done"],
         UNCHANGED <<subVars, tail, on, prev, ticket>>
  PROVE  QueueInv'
<1> USE DEF QueueInv
<1>1. ticket[e] = 0 /\ e \notin Queued
  BY DEF Staged, Queued
<1>2. \A f \in Events : f # e => stage'[f] = stage[f]
  BY DEF QueueTypeOK
<1>3. \A f \in Events : /\ Settled(f) => Settled(f)'
                        /\ f # e => (Started(f)' <=> Started(f))
  BY <1>2 DEF Settled, Started, QueueTypeOK
<1>4. InOrder'
  BY <1>1, <1>3 DEF InOrder, Queued
<1>5. Tails'
  BY <1>3, TailsStay
<1>6. ~Settled(e)
  BY QueueConstants DEF Settled
<1> QED
  BY <1>4, <1>5, <1>6, StageStep DEF QueueTypeOK, EventStages

(* An event whose predecessor has settled and that starts keeps the invariant. *)
LEMMA RunInv ==
  ASSUME QueueInv, NEW e \in Events, Run(e)
  PROVE  QueueInv'
<1> USE QueueConstants DEF QueueInv
<1>1. /\ stage[e] = "queued" /\ Settled(prev[e]) /\ ticket[e] # 0 /\ e \in Queued
      /\ stage' = [stage EXCEPT ![e] = "running"]
      /\ UNCHANGED <<subVars, tail, on, prev, ticket>>
  BY DEF Run, Staged, Queued
<1>2. \A f \in Events : f # e => stage'[f] = stage[f]
  BY <1>1 DEF QueueTypeOK
<1>3. \A f \in Events : /\ Settled(f) => Settled(f)'
                        /\ f # e => (Started(f)' <=> Started(f))
  BY <1>1, <1>2 DEF Settled, Started, QueueTypeOK
<1>4. InOrder'
  <2>1. ASSUME NEW f \in Queued, on[f] = on[e], ticket[f] < ticket[e] PROVE Settled(f)
    <3>1. CASE prev[e] = None
      BY <1>1, <2>1, <3>1 DEF Chain
    <3>2. CASE prev[e] # None
      <4>1. /\ prev[e] \in Queued /\ on[prev[e]] = on[f] /\ Started(prev[e])
            /\ ticket[f] <= ticket[prev[e]]
        BY <1>1, <2>1, <3>2 DEF Chain, Settled, Started
      <4>2. ticket[f] \in Nat /\ ticket[prev[e]] \in Nat
        BY <4>1 DEF Queued, QueueTypeOK
      <4>3. CASE ticket[f] = ticket[prev[e]]
        BY <1>1, <4>1, <4>3 DEF Tickets
      <4>4. CASE ticket[f] < ticket[prev[e]]
        BY <4>1, <4>4 DEF InOrder
      <4> QED
        BY <4>1, <4>2, <4>3, <4>4
    <3> QED
      BY <3>1, <3>2
  <2>2. ASSUME NEW f \in Queued, NEW g \in Queued,
               on[f] = on[g], ticket[f] < ticket[g], Started(g)'
        PROVE  Settled(f)'
    <3>1. f \in Events /\ g \in Events
      BY DEF Queued
    <3> QED
      BY <1>3, <2>1, <2>2, <3>1 DEF InOrder
  <2>3. Queued' = Queued
    BY <1>1 DEF Queued
  <2> QED
    BY <1>1, <2>2, <2>3 DEF InOrder
<1>5. Tails'
  BY <1>1, <1>3, TailsStay
<1>6. ~Settled(e)
  BY <1>1 DEF Settled
<1> QED
  BY <1>1, <1>4, <1>5, <1>6, StageStep DEF QueueTypeOK, EventStages

(* An event that ends keeps the invariant. *)
LEMMA SettleInv ==
  ASSUME QueueInv, NEW e \in Events, Settle(e)
  PROVE  QueueInv'
<1> USE QueueConstants DEF QueueInv
<1>1. /\ stage[e] = "running" /\ ticket[e] # 0
      /\ stage' = [stage EXCEPT ![e] = "settled"]
      /\ UNCHANGED <<subVars, tail, on, prev, ticket>>
  BY DEF Settle, Staged
<1>2. \A f \in Events : /\ Settled(f) => Settled(f)'
                        /\ Started(f)' <=> Started(f)
  BY <1>1 DEF Settled, Started, QueueTypeOK
<1>3. InOrder'
  BY <1>1, <1>2 DEF InOrder, Queued
<1>4. Tails'
  BY <1>1, <1>2, TailsStay
<1>5. ~Settled(e)
  BY <1>1 DEF Settled
<1> QED
  BY <1>1, <1>3, <1>4, <1>5, StageStep DEF QueueTypeOK, EventStages

(* The event at the tail has settled, so the queue is drained when it goes. *)
LEMMA ForgetInv ==
  ASSUME QueueInv, NEW e \in Events, Forget(e)
  PROVE  QueueInv'
<1> USE QueueConstants DEF QueueInv
<1>1. /\ stage[e] = "settled" /\ ticket[e] # 0 /\ on[e] \in Subs
      /\ stage' = [stage EXCEPT ![e] = "done"]
      /\ tail' = [tail EXCEPT ![on[e]] = IF @ = e THEN None ELSE @]
      /\ UNCHANGED <<subVars, on, prev, ticket>>
  BY DEF Forget, Staged
<1>2. \A f \in Events : /\ Settled(f) => Settled(f)'
                        /\ Started(f)' <=> Started(f)
  BY <1>1 DEF Settled, Started, QueueTypeOK
<1>3. InOrder'
  BY <1>1, <1>2 DEF InOrder, Queued
<1>4. Tails'
  <2>1. ASSUME NEW s \in Subs PROVE Ends(s, tail[s])'
    <3>1. CASE tail'[s] = tail[s]
      <4>1. PICK p : p = tail[s] /\ p = tail'[s]
        BY <3>1
      <4>2. Ends(s, p)'
        BY <1>1, <1>2, <4>1, EndsStay DEF Tails
      <4> QED
        BY <4>1, <4>2 DEF Ends, Newest, Drained
    <3>2. CASE tail'[s] # tail[s]
      <4>1. tail[s] = e /\ tail'[s] = None
        BY <1>1, <3>2 DEF QueueTypeOK
      <4>2. Ends(s, e) /\ Settled(e)
        BY <1>1, <4>1 DEF Tails, Settled
      <4>3. Drained(s)
        BY <4>2, TailDrains
      <4>4. Drained(s)'
        BY <1>1, <1>2, <4>3 DEF Drained, Queued
      <4> QED
        BY <4>1, <4>4 DEF Ends, Drained
    <3> QED
      BY <3>1, <3>2
  <2> QED
    BY <2>1 DEF Tails
<1>5. tail' \in [Subs -> Events \cup {None}]
  BY <1>1 DEF QueueTypeOK
<1> QED
  BY <1>1, <1>3, <1>4, <1>5, StageStep DEF EventStages

(* _enqueue keeps the invariant: the event goes behind the tail. *)
LEMMA EnqueueInv ==
  ASSUME QueueInv, NEW e \in Events, stage[e] \in {"new", "waiting"}, Enqueue(e)
  PROVE  QueueInv'
BY JoinsInv, WaitsInv, RejectInv DEF Enqueue

-----------------------------------------------------------------------------
\* Theorems.

(* The invariant holds in every reachable state. *)
LEMMA QueueInductive == Spec => []QueueInv
<1>1. Init => QueueInv
  <2> SUFFICES ASSUME Init PROVE QueueInv
    OBVIOUS
  <2> USE QueueConstants DEF Init
  <2>1. QueueTypeOK
    BY DEF QueueTypeOK, SubStages, EventStages
  <2>2. Numbered
    <3>1. 0 \in Nat /\ 0 <= stops + failures + (IF entry = None THEN 0 ELSE 1)
      OBVIOUS
    <3>2. \A s \in Subs : sub[s] # "unused" <=> s <= 0
      BY DEF Subs
    <3> QED
      BY <3>1, <3>2 DEF Numbered, Opened
  <2>3. OneEntry
    BY DEF OneEntry
  <2>4. Queued = {}
    BY DEF Queued
  <2>5. Staged /\ Tails /\ Closing /\ Chain /\ InOrder /\ DrainedBeforeClosed
    BY <2>4 DEF Staged, Tails, Closing, Chain, InOrder, DrainedBeforeClosed, Ends, Drained
  <2>6. Tickets
    BY <2>4, FS_EmptySet DEF Tickets
  <2> QED
    BY <2>1, <2>2, <2>3, <2>5, <2>6 DEF QueueInv
<1>2. QueueInv /\ [Next]_vars => QueueInv'
  <2> SUFFICES ASSUME QueueInv, [Next]_vars PROVE QueueInv'
    OBVIOUS
  <2>0. 1 \in Subs
    BY QueueConstants DEF Subs
  <2>1. CASE Ensure \/ Unregister \/ Register
    BY <2>0, <2>1, SubStepInv
  <2>2. ASSUME NEW s \in Subs, Subscribed(s) \/ SubscribeFails(s) \/ Unsubscribe(s)
        PROVE  QueueInv'
    BY <2>2, SubStepInv
  <2>3. ASSUME NEW e \in Events, Arrive(e) \/ Resume(e) PROVE QueueInv'
    BY <2>3, EnqueueInv DEF Arrive, Resume
  <2>4. ASSUME NEW e \in Events, Reject(e) PROVE QueueInv'
    BY <2>4, RejectInv DEF Reject
  <2>5. ASSUME NEW e \in Events, Run(e) \/ Settle(e) \/ Forget(e) PROVE QueueInv'
    BY <2>5, RunInv, SettleInv, ForgetInv
  <2>6. CASE UNCHANGED vars
    <3>1. UNCHANGED <<registered, entry, sub, tail, awaited, stage, on, prev, ticket,
                      failures, stops>>
      BY <2>6 DEF vars, subVars, eventVars
    <3> QED
      BY <3>1 DEF QueueInv, QueueTypeOK, Numbered, Opened, OneEntry, Staged, Tickets, Tails,
                  Closing, Chain, InOrder, DrainedBeforeClosed, Ends, Newest, Drained,
                  Queued, Settled, Started
  <2> QED
    BY <2>1, <2>2, <2>3, <2>4, <2>5, <2>6 DEF Next, Progress
<1> QED
  BY <1>1, <1>2, PTL DEF Spec

(* Every variable of the queue keeps its type; a free subscription is always
   left when ensure opens one. *)
THEOREM QueueTypeCorrect == Spec => []QueueTypeOK
<1>1. QueueInv => QueueTypeOK
  BY DEF QueueInv
<1> QED
  BY <1>1, QueueInductive, PTL

(* The promise chain runs the events of a subscription in the order they were
   queued, however often its tail was reset in between. *)
THEOREM EventsInOrder == Spec => []InOrder
<1>1. QueueInv => InOrder
  BY DEF QueueInv
<1> QED
  BY <1>1, QueueInductive, PTL

(* A disposer closes its subscription only after every event queued on it. *)
THEOREM ClosedAreDrained == Spec => []DrainedBeforeClosed
<1>1. QueueInv => DrainedBeforeClosed
  BY DEF QueueInv
<1> QED
  BY <1>1, QueueInductive, PTL

(* Two events run at once only while one of them is on a subscription that is
   being disposed or failed: a session has one live subscription, its events are
   in one queue, and a closed subscription is drained. *)
THEOREM OnlyStoppingOverlap == Spec => []OverlapOnlyStopping
<1>1. QueueInv => OverlapOnlyStopping
  <2> SUFFICES ASSUME QueueInv, NEW e \in Events, NEW f \in Events,
                      Running(e), Running(f), e # f
               PROVE  {sub[on[e]], sub[on[f]]} \cap {"stopping", "closing", "failed"} # {}
    BY DEF OverlapOnlyStopping
  <2> USE DEF QueueInv
  <2>1. /\ e \in Queued /\ f \in Queued /\ ~Settled(e) /\ ~Settled(f)
        /\ Started(e) /\ Started(f)
        /\ ticket[e] \in Nat /\ ticket[f] \in Nat
    BY QueueConstants DEF Running, Staged, Queued, Settled, Started, QueueTypeOK
  <2>2. on[e] # on[f]
    BY <2>1 DEF Tickets, InOrder
  <2>3. /\ on[e] \in Subs /\ on[f] \in Subs
        /\ sub[on[e]] \notin {"unused", "closed"} /\ sub[on[f]] \notin {"unused", "closed"}
    BY <2>1 DEF Staged, Queued, DrainedBeforeClosed
  <2>4. ~(sub[on[e]] \in {"opening", "open"} /\ sub[on[f]] \in {"opening", "open"})
    BY <2>2, <2>3 DEF OneEntry
  <2> QED
    BY <2>3, <2>4 DEF QueueTypeOK, SubStages
<1> QED
  BY <1>1, QueueInductive, PTL
=============================================================================
