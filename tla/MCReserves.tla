----------------------------- MODULE MCReserves -----------------------------
(* Two plans bought one after the other, two activations at once, one cancel *)
(* and one restart.                                                          *)
EXTENDS Reserves

CONSTANTS t1, t2, c1

MCTasks == {t1, t2}
MCCancels == {c1}
=============================================================================
