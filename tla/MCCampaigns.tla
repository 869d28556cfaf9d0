----------------------------- MODULE MCCampaigns -----------------------------
(* Small instances of what goes on within campaigns, for TLC: Selection, Deals and         *)
(* Settlement share no variable, so one run explores the three after each other.            *)
EXTENDS Selection, Deals, Settlement

CONSTANTS a1, a2, q1, q2, t1, b1, b2, d1, c1, h1, s1

TwoApps == {a1, a2}
OneEach == [a \in Apps |-> 1]
TwoRequests == {q1, q2}
OneDecider == {d1}
OneTimer == {t1}

TwoBrands == {b1, b2}
OneBrand == {b1}
OtherBrand == {b2}

OneCreator == {c1}
OneHook == {h1}
OneScan == {s1}
AllDeeds == {"approve", "resolve", "cancel"}

VARIABLE part       \* which of the three moves

Init == InitSelection /\ InitDeals /\ InitSettlement /\ part \in {"selection", "deals", "settlement"}

\* Bounds: a reactivation or a killed process in a behaviour of Deals; two of a dispute, a
\* cancellation and a killed process in one of Settlement.
Next ==
    /\ UNCHANGED part
    /\ \/ part = "selection" /\ NextSelection /\ UNCHANGED <<dealVars, settlementVars>>
       \/ part = "deals" /\ NextDeals /\ kills' + pardons' <= 1
          /\ UNCHANGED <<selectionVars, settlementVars>>
       \/ part = "settlement" /\ NextSettlement
          /\ Len(dispute') + cancels' + crashes' <= 2
          /\ UNCHANGED <<selectionVars, dealVars>>

Spec == Init /\ [][Next]_<<part, selectionVars, dealVars, settlementVars>>

\* The fees are equal, and nothing tells applications or requests apart.
Alike == Permutations(Apps) \cup Permutations(Requests)
=============================================================================
