----------------------------- MODULE MCRefunds -----------------------------
(* Small instances of Refunds for TLC. *)
EXTENDS Refunds

CONSTANTS c1, h1

OneCron == {c1}
OneHook == {h1}
=============================================================================
