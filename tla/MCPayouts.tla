----------------------------- MODULE MCPayouts -----------------------------
(* Small instances of Payouts for TLC. *)
EXTENDS Payouts, TLC

CONSTANTS r1, c1, c2, h1, a1

OneRow == {r1}
OneCron == {c1}
TwoCrons == {c1, c2}
OneHook == {h1}
OneAdmin == {a1}
NoOne == {}

\* Instances are interchangeable; only for safety.
Symmetry == Permutations(Crons)
=============================================================================
