------------------------------- MODULE MCRpc -------------------------------
(***************************************************************************)
(* A client with two connections: an authorization transition (login), a   *)
(* call (first) and a call sent after it (second).                         *)
(***************************************************************************)
EXTENDS RpcSession, TLC

CONSTANTS c1, c2, login, first, second

\* The connections are interchangeable.
McSymmetry == Permutations(Conns)

McAfter == [m \in Msgs |-> IF m = second THEN {first} ELSE {}]
=============================================================================
