------------------------------ MODULE Settings -------------------------------
(***************************************************************************)
(* The commission tiers that staff keep: which of them rules where a brand *)
(* has none of its own, what a brand is told that its campaign will cost,  *)
(* and what the checkout asks for.  A tier is made the default by taking   *)
(* the mark off every tier first, then writing it, in two statements that  *)
(* nothing ties together.                                                  *)
(***************************************************************************)
EXTENDS Integers, FiniteSets

CONSTANTS
    Tiers,         \* rows that brand_commission_tiers may come to hold
    Advertisers,   \* brands
    Rates,         \* rates that staff may set, in per cent
    TotalBudget,   \* of a campaign
    Editors,       \* requests of staff handled at one time
    MaxSettings    \* bound: requests of staff, and views of a campaign by its brand

ASSUME SettingsConstants ==
    /\ Rates \cup {TotalBudget, MaxSettings} \subseteq Nat
    /\ "none" \notin Tiers    \* stands for no tier

VARIABLES
    tiers,      \* the rows: there, isDefault, rate, brandIds
    editor,     \* each request: the step it is about to take, and its locals
    standard,   \* history: the tier that a request made the default last
    undone,     \* history: why that tier may not be the default, or not the only one
    bill,       \* a campaign of each brand: the total it was shown last, and the total that
                \* was charged since; same: no tier has changed since then
    settings

settingsVars == <<tiers, editor, standard, undone, bill, settings>>

NoTier == [there |-> FALSE, isDefault |-> FALSE, rate |-> 0, brandIds |-> {}]
NoEditor == [at |-> "idle", tier |-> "none", read |-> NoTier, wanted |-> NoTier]

\* The migration leaves the table empty.
InitSettings ==
    /\ tiers = [t \in Tiers |-> NoTier] /\ editor = [e \in Editors |-> NoEditor]
    /\ standard = "none" /\ undone = {} /\ settings = 0
    /\ bill = [b \in Advertisers |-> [shown |-> 0, charged |-> 0, same |-> FALSE]]

Defaults == {t \in Tiers : tiers[t].isDefault}
OwnTiers(b) == {t \in Tiers : b \in tiers[t].brandIds}

\* getCommissionRateForBrand, and the same choice in calculateBreakdown: rates that the
\* queries may come back with, given the brand's tiers.
CommissionRate(own) ==
    CASE own # {} -> {tiers[t].rate : t \in own}
      [] own = {} /\ Defaults # {} -> {tiers[t].rate : t \in Defaults}
      [] OTHER -> {15}

Rounded(n, d) == (2 * n + d) \div (2 * d)

\* The budget, the commission, and VAT on the commission.  VAT is 7.5%: that is what the
\* fees are seeded with, and what is taken when the row has been deleted; no other can
\* be made in its place, since the name is unique and a deleted row keeps it.
calculateBreakdown(own) ==
    {LET fee == Rounded(TotalBudget * rate, 100)
     IN  TotalBudget + fee + Rounded(fee * 75, 1000) : rate \in CommissionRate(own)}

\* A statement that writes tiers.
SaveTiers(new) ==
    /\ tiers' = new
    /\ bill' = [b \in Advertisers |-> [bill[b] EXCEPT !.same = @ /\ new = tiers]]

Busy == {e \in Editors : editor[e].at # "idle"}

Ask(e, locals) ==
    /\ editor[e].at = "idle" /\ settings < MaxSettings /\ settings' = settings + 1
    /\ editor' = [editor EXCEPT ![e] = locals]
    /\ undone' = IF Busy = {} THEN undone ELSE undone \cup {"overlap"}

Wanted == [there : {TRUE}, isDefault : BOOLEAN, rate : Rates, brandIds : SUBSET Advertisers]

CreateCommissionTier(e) ==
    \E t \in Tiers, wanted \in Wanted :
        /\ ~tiers[t].there /\ \A o \in Busy : editor[o].tier # t
        /\ Ask(e, [at |-> IF wanted.isDefault THEN "unset" ELSE "create", tier |-> t,
                   read |-> NoTier, wanted |-> wanted])
        /\ UNCHANGED <<tiers, standard, bill>>

\* The tier is found; what the request leaves out stays as it is.
UpdateCommissionTier(e) ==
    \E t \in Tiers, wanted \in Wanted, mark \in {"set", "unset", "left out"} :
        /\ tiers[t].there
        /\ Ask(e, [at |-> IF mark = "set" THEN "unset" ELSE "update", tier |-> t,
                   read |-> tiers[t], wanted |-> [wanted EXCEPT !.isDefault =
                     IF mark = "left out" THEN tiers[t].isDefault ELSE mark = "set"]])
        /\ UNCHANGED <<tiers, standard, bill>>

UnsetDefault(e) ==
    /\ editor[e].at = "unset"
    /\ SaveTiers([t \in Tiers |-> [tiers[t] EXCEPT !.isDefault = FALSE]])
    /\ editor' = [editor EXCEPT
         ![e].at = IF editor[e].read = NoTier THEN "create" ELSE "update"]
    /\ undone' = IF editor[e].read.isDefault THEN undone \cup {"resent"} ELSE undone
    /\ UNCHANGED <<standard, settings>>

WriteCreated(e) ==
    /\ editor[e].at = "create" /\ editor' = [editor EXCEPT ![e] = NoEditor]
    /\ SaveTiers([tiers EXCEPT ![editor[e].tier] = editor[e].wanted])
    /\ standard' = IF editor[e].wanted.isDefault THEN editor[e].tier ELSE standard
    /\ UNCHANGED <<undone, settings>>

\* Columns that differ from the tier as it was found are saved: the mark of a default tier
\* that a request makes the default again was found there, taken off, and is not written.
WriteUpdated(e) ==
    LET me == editor[e]
        row == [k \in DOMAIN NoTier |->
                  IF me.wanted[k] # me.read[k] THEN me.wanted[k] ELSE tiers[me.tier][k]]
    IN  /\ me.at = "update" /\ editor' = [editor EXCEPT ![e] = NoEditor]
        /\ SaveTiers(IF tiers[me.tier].there THEN [tiers EXCEPT ![me.tier] = row] ELSE tiers)
        /\ standard' = IF me.wanted.isDefault THEN me.tier ELSE standard
        /\ undone' = IF me.read.isDefault /\ ~me.wanted.isDefault THEN undone \cup {"unmarked"}
                     ELSE undone
        /\ UNCHANGED settings

\* Mutant of DeleteCommissionTier: the default tier can be deleted.
DeleteAnyTier(e) ==
    \E t \in Tiers :
        /\ tiers[t].there
        /\ Ask(e, [at |-> "destroy", tier |-> t, read |-> tiers[t], wanted |-> NoTier])
        /\ UNCHANGED <<tiers, standard, bill>>

DeleteCommissionTier(e) ==
    \E t \in Tiers :
        /\ tiers[t].there /\ ~tiers[t].isDefault
        /\ Ask(e, [at |-> "destroy", tier |-> t, read |-> tiers[t], wanted |-> NoTier])
        /\ UNCHANGED <<tiers, standard, bill>>

Destroy(e) ==
    /\ editor[e].at = "destroy" /\ editor' = [editor EXCEPT ![e] = NoEditor]
    /\ SaveTiers([tiers EXCEPT ![editor[e].tier] = NoTier])
    /\ UNCHANGED <<standard, undone, settings>>

\* The process is killed between two statements.
CutSetting(e) ==
    /\ editor[e].at # "idle" /\ editor' = [editor EXCEPT ![e] = NoEditor]
    /\ undone' = undone \cup {"cut"}
    /\ UNCHANGED <<tiers, standard, bill, settings>>

-----------------------------------------------------------------------------
(* What a campaign costs.  The queries of a breakdown are one step.        *)

\* Every view of the campaign shows its brand a breakdown with the brand's own rate.
PopulateBreakdown(b) ==
    /\ settings < MaxSettings /\ settings' = settings + 1
    /\ \E total \in calculateBreakdown(OwnTiers(b)) :
         bill' = [bill EXCEPT ![b] = [shown |-> total, charged |-> 0, same |-> TRUE]]
    /\ UNCHANGED <<tiers, editor, standard, undone>>

\* Mutant of SubmitCampaign: the commission is the one of an empty table.
SubmitAtFallback(b) ==
    /\ bill[b].shown # 0
    /\ bill' = [bill EXCEPT ![b].charged = TotalBudget + Rounded(TotalBudget * 15, 100)
                                + Rounded(Rounded(TotalBudget * 15, 100) * 75, 1000)]
    /\ UNCHANGED <<tiers, editor, standard, undone, settings>>

\* The first submission, and each retry of the checkout: for no brand in particular.
SubmitCampaign(b) ==
    /\ bill[b].shown # 0
    /\ \E total \in calculateBreakdown({}) : bill' = [bill EXCEPT ![b].charged = total]
    /\ UNCHANGED <<tiers, editor, standard, undone, settings>>

NextSettings ==
    \/ \E b \in Advertisers : PopulateBreakdown(b) \/ SubmitCampaign(b)
    \/ \E e \in Editors :
        \/ CreateCommissionTier(e) \/ UpdateCommissionTier(e) \/ DeleteCommissionTier(e)
        \/ UnsetDefault(e) \/ WriteCreated(e) \/ WriteUpdated(e) \/ Destroy(e) \/ CutSetting(e)

SpecSettings == InitSettings /\ [][NextSettings]_settingsVars

-----------------------------------------------------------------------------
(* Properties.                                                             *)

\* A brand without a tier of its own is told the rate of the tier that staff made the
\* default last, and no other (campaigns.service.ts:78-99), between requests, as long as
\* none was cut off or ran beside another, and none sent the default tier with its mark,
\* set or unset.
DefaultRules ==
    undone = {} /\ Busy = {} =>
        /\ Defaults = {standard} \ {"none"}
        /\ \A b \in Advertisers : OwnTiers(b) = {} =>
             CommissionRate({}) = IF standard = "none" THEN {15} ELSE {tiers[standard].rate}

\* A checkout asks for what its brand was shown, if no tier has changed since (campaigns
\* .service.ts:163-170 and 507).  A brand with a tier of its own is shown one total and
\* charged another, and among several default tiers each query may find another.
QuoteIsCharged ==
    \A b \in Advertisers :
        bill[b].charged # 0 /\ bill[b].same =>
            \/ bill[b].charged = bill[b].shown
            \/ OwnTiers(b) # {} \/ Cardinality(Defaults) > 1

\* A brand with a tier of its own is charged at its rate ("Create a custom commission tier
\* for specific brands", admin-settings.controller.ts:63).  It is not: submitCampaign asks
\* for a breakdown without saying whose (campaigns.service.ts:507).
OwnTierIsCharged ==
    \A b \in Advertisers :
        bill[b].charged # 0 /\ bill[b].same /\ Cardinality(OwnTiers(b)) = 1 =>
            bill[b].charged \in calculateBreakdown(OwnTiers(b))
=============================================================================
