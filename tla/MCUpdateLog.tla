---------------------------- MODULE MCUpdateLog ----------------------------
(***************************************************************************)
(* A session with one channel.  The event queue publishes messages (b1,    *)
(* b3) and a reaction (b2) of the channel; an RPC publishes a read mention *)
(* of a direct chat (m1).                                                  *)
(***************************************************************************)
EXTENDS UpdateLog, TLC

CONSTANTS c1, b1, b2, b3, m1, queue, rpc

McJobs == queue :> (Keys \ {m1}) @@ rpc :> {m1}
McScope == [k \in Keys |-> IF k = m1 THEN Account ELSE c1]
McPtsCount == [k \in Keys |-> CASE k = b1 -> 2 [] k = b2 -> 0 [] OTHER -> 1]
McStamp == [k \in Keys |-> IF k = b1 THEN 1 ELSE 2]
=============================================================================
