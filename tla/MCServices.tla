----------------------------- MODULE MCServices -----------------------------
(* Two services of a Guardino server, one of a Marzban server and one that   *)
(* is not there yet; two super users in the bot and the panel, or one of     *)
(* them for longer.                                                          *)
EXTENDS Services, TLC

CONSTANTS d1, d2, web, g1, g2, m, n

MCIds == {g1, g2, m, n}
MCAdmins == {d1, d2}
MCFirstServer ==
    [s \in MCIds |-> CASE s = m -> "marzban" [] s = n -> "none" [] OTHER -> "guardino"]
Taps(first, second, panel) ==
    [x \in {d1, d2, web} |-> CASE x = d1 -> first [] x = d2 -> second [] x = web -> panel]
MCBudgets == {Taps(1, 1, 1), Taps(3, 1, 0), Taps(3, 0, 1), Taps(5, 0, 0)}
MCSymmetry == Permutations({g1, g2})
=============================================================================
