--------------------------- MODULE FundingPromise ---------------------------
(***************************************************************************)
(* What funding a campaign promises the brand: nothing opens before the    *)
(* gateway has charged a checkout, a charge does open the campaign, and an *)
(* open campaign is not taken back.                                        *)
(***************************************************************************)
CONSTANTS Payments      \* checkouts of the campaign

VARIABLES
    charged,    \* checkouts the gateway has charged
    standing    \* "closed" or "open" (to creators, and to payouts)

promiseVars == <<charged, standing>>

PromiseInit == charged = {} /\ standing = "closed"

Charge(p) ==
    /\ p \notin charged
    /\ charged' = charged \cup {p}
    /\ UNCHANGED standing

Open ==
    /\ charged # {} /\ standing = "closed"
    /\ standing' = "open"
    /\ UNCHANGED charged

PromiseNext == Open \/ \E p \in Payments : Charge(p)

PromiseSafety == PromiseInit /\ [][PromiseNext]_promiseVars

PromiseSpec == PromiseSafety /\ WF_promiseVars(Open)
=============================================================================
