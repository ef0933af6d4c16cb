---------------------------- MODULE ChannelStream ----------------------------
(***************************************************************************)
(* What the update log of one channel promises the devices that follow it. *)
(*                                                                         *)
(* Updates are added to the log and a device moves its pts over updates it *)
(* is given, or is told to rebuild the channel up to some pts.  An update  *)
(* is never added behind a device that has not rebuilt past it.            *)
(***************************************************************************)
EXTENDS Naturals, TLAPS

CONSTANTS
    Devices,
    Names      \* what tells the updates of a log apart

Update == [name : Names, pts : Nat]

VARIABLES
    added,     \* updates the log has taken in, whether or not it kept them
    at,        \* the device's pts
    given,     \* updates the device was given
    rebuilt,   \* the pts up to which it last rebuilt the channel
    unserved   \* devices to which nothing is owed until they rebuild

streamVars == <<added, at, given, rebuilt, unserved>>

\* The pts a device follows the channel from is that of the dialog it loaded.
StreamInit ==
    /\ added = {}
    /\ at \in [Devices -> Nat] /\ rebuilt = at
    /\ given = [d \in Devices |-> {}]
    /\ unserved = {}

Add(u) ==
    /\ \A d \in Devices \ unserved : u.pts > at[d] \/ u.pts <= rebuilt[d]
    /\ added' = added \cup {u}
    /\ UNCHANGED <<at, given, rebuilt, unserved>>

\* The updates a device moves over when it goes to pts.
Between(d, pts) == {u \in added : u.pts > at[d] /\ u.pts <= pts}

\* Devices move, several at a time when an update is pushed to them, and have by
\* then all that lies in between.
Follow ==
    /\ at' \in [Devices -> Nat]
    /\ DOMAIN given' = Devices
    /\ \A d \in Devices :
          /\ given[d] \subseteq given'[d]
          /\ d \in unserved \/ Between(d, at'[d]) \subseteq given'[d]
    /\ UNCHANGED <<added, rebuilt, unserved>>

\* The device had to rebuild and is told to go on.
Forsake(d, pts, news) ==
    /\ pts \in Nat
    /\ at' = [at EXCEPT ![d] = pts]
    /\ given' = [given EXCEPT ![d] = @ \cup news]
    /\ unserved' = unserved \cup {d}
    /\ UNCHANGED <<added, rebuilt>>

Rebuild(d, pts) ==
    /\ pts \in Nat
    /\ at' = [at EXCEPT ![d] = pts]
    /\ rebuilt' = [rebuilt EXCEPT ![d] = pts]
    /\ unserved' = unserved \ {d}
    /\ UNCHANGED <<added, given>>

\* The parameters are read off the next state, so that TLC has nothing to guess.
StreamNext ==
    \/ \E u \in added' \cap Update : Add(u)
    \/ Follow
    \/ \E d \in Devices :
         \/ Forsake(d, at'[d], given'[d] \ given[d])
         \/ Rebuild(d, at'[d])

Stream == StreamInit /\ [][StreamNext]_streamVars

(* A device that was never told to go on when it had to rebuild has been given
   every update of the channel it has passed, or has rebuilt past it: what
   updates.getChannelDifference and the pushes owe a device
   (update-manager.ts:1190). *)
Followed ==
    \A d \in Devices \ unserved, u \in added :
        u.pts <= at[d] => u \in given[d] \/ u.pts <= rebuilt[d]
----------------------------------------------------------------------------
(* The devices' pts are natural numbers and everything added is an update. *)
StreamTypeOK ==
    /\ added \subseteq Update
    /\ at \in [Devices -> Nat]
    /\ DOMAIN given = Devices /\ DOMAIN rebuilt = Devices

(* The types of the stream are kept by every step. *)
LEMMA StreamType == Stream => []StreamTypeOK
<1>1. StreamInit => StreamTypeOK
  BY DEF StreamInit, StreamTypeOK
<1>2. StreamTypeOK /\ [StreamNext]_streamVars => StreamTypeOK'
  <2> SUFFICES ASSUME StreamTypeOK, [StreamNext]_streamVars PROVE StreamTypeOK'
    OBVIOUS
  <2>1. ASSUME NEW u \in Update, Add(u) PROVE StreamTypeOK'
    BY <2>1 DEF StreamTypeOK, Add
  <2>2. ASSUME Follow PROVE StreamTypeOK'
    BY <2>2 DEF StreamTypeOK, Follow
  <2>5. ASSUME NEW d \in Devices, NEW pts, NEW news, Forsake(d, pts, news) PROVE StreamTypeOK'
    BY <2>5 DEF StreamTypeOK, Forsake
  <2>3. ASSUME NEW d \in Devices, NEW pts, Rebuild(d, pts) PROVE StreamTypeOK'
    BY <2>3 DEF StreamTypeOK, Rebuild
  <2>4. CASE UNCHANGED streamVars
    BY <2>4 DEF StreamTypeOK, streamVars
  <2> QED
    BY <2>1, <2>2, <2>3, <2>4, <2>5 DEF StreamNext
<1> QED
  BY <1>1, <1>2, PTL DEF Stream

(* A stream leaves none of its followers without an update it has passed: this
   is what the refinement by ChannelDifference carries over to the code. *)
THEOREM StreamFollowed == Stream => []Followed
<1>1. StreamInit => Followed
  BY DEF StreamInit, Followed
<1>2. Followed /\ StreamTypeOK /\ [StreamNext]_streamVars => Followed'
  <2> SUFFICES ASSUME Followed, StreamTypeOK, [StreamNext]_streamVars PROVE Followed'
    OBVIOUS
  <2>1. ASSUME NEW u \in Update, Add(u) PROVE Followed'
    BY <2>1 DEF Followed, StreamTypeOK, Add, Update
  <2>2. ASSUME Follow PROVE Followed'
    <3>1. ASSUME NEW d \in Devices \ unserved, NEW u \in added, u.pts <= at'[d]
          PROVE  u \in given'[d] \/ u.pts <= rebuilt[d]
      <4>1. CASE u.pts <= at[d]
        BY <2>2, <3>1, <4>1 DEF Followed, Follow
      <4>2. CASE ~(u.pts <= at[d])
        <5>1. u \in Between(d, at'[d])
          BY <2>2, <3>1, <4>2 DEF StreamTypeOK, Between, Update
        <5> QED
          BY <2>2, <3>1, <5>1 DEF Follow
      <4> QED
        BY <4>1, <4>2
    <3> QED
      BY <2>2, <3>1 DEF Followed, Follow
  <2>3. ASSUME NEW d \in Devices, NEW pts, NEW news, Forsake(d, pts, news) PROVE Followed'
    BY <2>3 DEF Followed, StreamTypeOK, Forsake
  <2>4. ASSUME NEW d \in Devices, NEW pts, Rebuild(d, pts) PROVE Followed'
    BY <2>4 DEF Followed, StreamTypeOK, Rebuild, Update
  <2>5. CASE UNCHANGED streamVars
    BY <2>5 DEF Followed, streamVars
  <2> QED
    BY <2>1, <2>2, <2>3, <2>4, <2>5 DEF StreamNext
<1> QED
  BY <1>1, <1>2, StreamType, PTL DEF Stream
=============================================================================
