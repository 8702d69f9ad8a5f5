----------------------------- MODULE MCBroadcast -----------------------------
(* Two start commands, one cancel command, three users in pages of two, one *)
(* restart.                                                                  *)
EXTENDS Broadcast

CONSTANTS s1, s2, c1, w1, w2, nobody

MCRecipients == 1..3
MCUnreachable == {2}
MCStarters == {s1, s2}
MCCancels == {c1}
MCWorkers == {w1, w2}
=============================================================================
