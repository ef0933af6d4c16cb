---------------------------- MODULE MCDifference ----------------------------
(***************************************************************************)
(* One device of a session with one channel.  The event queue publishes    *)
(* messages of direct chats (a1, a2) and of the channel (b1) or a reaction *)
(* in a direct chat (z1); an RPC publishes a read mention of a direct chat *)
(* (m1).                                                                   *)
(***************************************************************************)
EXTENDS Difference, TLC

CONSTANTS d1, c1, a1, a2, b1, m1, z1, queue, rpc

McJobs == queue :> (Keys \ {m1}) @@ rpc :> (Keys \cap {m1})
McScope == [k \in Keys |-> IF k = b1 THEN c1 ELSE Account]
McPtsCount == [k \in Keys |-> IF k = z1 THEN 0 ELSE 1]
McAlwaysMarked == Keys \cap {m1}
\* The sweep may delete the first message of a1, and nothing that comes after another.
McStamp == [k \in Keys |-> IF k = a1 THEN 1 ELSE 2]
=============================================================================
