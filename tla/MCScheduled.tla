----------------------------- MODULE MCScheduled -----------------------------
(***************************************************************************)
(* Two scheduled messages, due at different times, with a sweep, a         *)
(* send-now call and a delete in flight.                                   *)
(***************************************************************************)
EXTENDS ScheduledMessages, TLC

CONSTANTS r1, r2, s1, c1, u1

McDueAt == [r \in Rows |-> IF r = r2 THEN 1 ELSE 0]
McRetry == <<1>>
=============================================================================
