----------------------------- MODULE MCChannel -----------------------------
(***************************************************************************)
(* One device follows a channel in which the event queue publishes up to   *)
(* two of two messages and a read (z1, which takes no pts).  The sweep may *)
(* delete the first message, which is dated before the others.             *)
(***************************************************************************)
EXTENDS ChannelDifference, TLC

CONSTANTS d1, c1, b1, b2, z1, queue

McJobs == queue :> Keys
McScope == [k \in Keys |-> c1]
McStamp == [k \in Keys |-> IF k = b1 THEN 1 ELSE 2]
McPtsCount == [k \in Keys |-> IF k = z1 THEN 0 ELSE 1]
=============================================================================
