----------------------------- MODULE MCFunding -----------------------------
(* Small instances of Funding for TLC. *)
EXTENDS Funding

CONSTANTS q1, h1, c1

OneRequest == {q1}
OneHook == {h1}
OneCron == {c1}
=============================================================================
