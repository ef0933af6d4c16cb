---------------------------- MODULE MCEventQueue ----------------------------
(***************************************************************************)
(* Three events of a session whose platform is unregistered once, with one  *)
(* failing subscribe.                                                      *)
(***************************************************************************)
EXTENDS EventQueue, TLC

CONSTANTS e1, e2, e3
=============================================================================
