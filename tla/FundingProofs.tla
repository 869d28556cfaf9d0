--------------------------- MODULE FundingProofs ---------------------------
(***************************************************************************)
(* Proofs about Funding, for any bounds and any number of handlers and     *)
(* instances: a campaign opens only after a charge; and, for a brand that  *)
(* makes one request at a time, every step is a step of FundingPromise.    *)
(***************************************************************************)
EXTENDS Funding, SequenceTheorems, TLAPS

-----------------------------------------------------------------------------
(* Type correctness.                                                       *)

\* What update() writes is a campaign again.
LEMMA MergeType ==
    ASSUME camp \in Camps, NEW copy \in Camps, NEW new,
           "status" \in DOMAIN new => new.status \in CampStatus,
           "pay" \in DOMAIN new => new.pay \in {"unpaid", "pending", "paid"},
           "budget" \in DOMAIN new => new.budget \in Nat
    PROVE  Merge(copy, new) \in Camps
  BY DEF Merge, Camps

LEMMA MergeStatus ==
    ASSUME NEW copy, NEW new
    PROVE  Merge(copy, new).status =
             IF "status" \in DOMAIN new THEN IF new.status = copy.status THEN camp.status ELSE new.status
                                        ELSE camp.status
  BY DEF Merge

LEMMA NewTypes == NewCamp \in Camps /\ Idle \in Reqs /\ IdleHook \in HookRecs
  <1>1. NewCamp \in Camps
    BY DEF NewCamp, Camps, CampStatus
  <1> QED
    BY <1>1 DEF Idle, Reqs, ReqPc, IdleHook, HookRecs, RowStatus

LEMMA InitType == Init => TypeOK
  <1> SUFFICES ASSUME Init PROVE TypeOK
    OBVIOUS
  <1>1. row \in Seq(Rows) /\ cron \in [Crons -> {"idle", "write"}]
    BY DEF Init
  <1>2. camp \in Camps /\ req \in [Requests -> Reqs] /\ hook \in [Hooks -> HookRecs]
    BY NewTypes DEF Init
  <1> QED
    BY <1>1, <1>2 DEF Init, TypeOK

LEMMA OpenType == ASSUME TypeOK, NEW copy \in Camps, OpenFrom(copy) PROVE camp' \in Camps
  <1> DEFINE new == [status |-> "live", pay |-> "paid"]
  <1>1. Merge(copy, new) \in Camps
    BY MergeType DEF TypeOK, CampStatus, Opened
  <1> QED
    BY <1>1 DEF OpenFrom

\* One payment row changes its status.
LEMMA SetRowType ==
    ASSUME TypeOK, NEW p, NEW st \in RowStatus, row' = [row EXCEPT ![p].status = st]
    PROVE  row' \in Seq(Rows) /\ Len(row') = Len(row) /\ DOMAIN row' = DOMAIN row
  <1>1. row \in Seq(Rows) /\ DOMAIN row = 1 .. Len(row)
    BY DEF TypeOK
  <1>2. CASE p \in DOMAIN row
    <2>1. [row[p] EXCEPT !.status = st] \in Rows
      <3>1. row[p] \in Rows
        BY <1>1, <1>2
      <3> QED
        BY <3>1 DEF Rows
    <2>2. row' = [row EXCEPT ![p] = [row[p] EXCEPT !.status = st]]
      OBVIOUS
    <2> QED
      BY <1>1, <1>2, <2>1, <2>2, ExceptSeq
  <1>3. CASE p \notin DOMAIN row
    <2>1. row' = row
      BY <1>1, <1>3
    <2> QED
      BY <1>1, <2>1
  <1> QED
    BY <1>2, <1>3

LEMMA BeginType == ASSUME TypeOK, NEW q \in Requests, Begin(q) PROVE TypeOK'
  <1>1. ASSUME NEW pc \in ReqPc, Read(q, pc) PROVE
          /\ UNCHANGED <<camp, row, expired, lost, reqOnly>>
          /\ req' \in [Requests -> Reqs]
    <2>1. [pc |-> pc, copy |-> camp, p |-> 0] \in Reqs
      BY DEF TypeOK, Reqs
    <2> QED
      BY <1>1, <2>1 DEF TypeOK, Read
  <1>2. /\ {"edit", "delete", "checkout", "look", "find", "activate"} \subseteq ReqPc
        /\ edits' \in Nat /\ submits' \in Nat
    BY DEF Begin, BeginEdit, BeginDelete, BeginSubmit, BeginVerify, BeginActivate, bounds,
           ReqPc, TypeOK
  <1>3. \E pc \in ReqPc : Read(q, pc)
    BY <1>2 DEF Begin, BeginEdit, BeginDelete, BeginSubmit, BeginVerify, BeginActivate
  <1> QED
    BY <1>1, <1>2, <1>3 DEF TypeOK, reqOnly

LEMMA GoOnType == ASSUME TypeOK, NEW q \in Requests, GoOn(q) PROVE TypeOK'
  <1> req[q] \in Reqs /\ req[q].copy \in Camps /\ req[q].p \in Nat /\ camp \in Camps
    BY DEF TypeOK, Reqs
  <1>1. req' \in [Requests -> Reqs]
    <2>1. \A pc \in ReqPc : [req EXCEPT ![q].pc = pc] \in [Requests -> Reqs]
      BY DEF TypeOK, Reqs
    <2>2. [req EXCEPT ![q] = Idle] \in [Requests -> Reqs]
      BY NewTypes DEF TypeOK
    <2>3. ASSUME NEW pc \in ReqPc, NEW p \in Nat, StepWith(q, pc, p)
          PROVE  req' \in [Requests -> Reqs]
      <3>1. [req[q] EXCEPT !.pc = pc, !.p = p] \in Reqs
        BY DEF Reqs
      <3> QED
        BY <2>3, <3>1 DEF StepWith, TypeOK
    <2>4. {"cancel", "checkout", "status", "row", "ask", "payment", "campaign"} \subseteq ReqPc
      BY DEF ReqPc
    <2>5. Len(row) \in Nat /\ \A p \in DOMAIN row : p \in Nat
      BY DEF TypeOK
    <2>6. ASSUME Done(q) PROVE req' \in [Requests -> Reqs]
      BY <2>2, <2>6 DEF Done
    <2>7. ASSUME NEW pc \in ReqPc, Step(q, pc) PROVE req' \in [Requests -> Reqs]
      BY <2>1, <2>7 DEF Step
    <2>8. ASSUME LookForPending(q) PROVE req' \in [Requests -> Reqs]
      BY <2>3, <2>4, <2>5, <2>8, <2>7 DEF LookForPending
    <2>9. ASSUME NEW p \in DOMAIN row, FindPayment(q, p) PROVE req' \in [Requests -> Reqs]
      BY <2>3, <2>4, <2>5, <2>9, <2>6 DEF FindPayment
    <2> QED
      BY <2>4, <2>6, <2>7, <2>8, <2>9
      DEF GoOn, SaveEdit, SaveDelete, SaveActive, CancelPayment, Checkout, SaveSubmitted,
          CreatePayment, NoPayment, AskGateway, SavePaid, SaveVerified
  <1>2. camp' \in Camps
    <2>1. ASSUME SaveEdit(q) PROVE camp' \in Camps
      <3>1. req[q].copy.budget + 1 \in Nat
        BY DEF Camps
      <3> QED
        BY <2>1, <3>1, MergeType DEF SaveEdit
    <2>2. ASSUME SaveDelete(q) PROVE camp' \in Camps
      BY <2>2 DEF SaveDelete, Camps, CampStatus
    <2>3. ASSUME SaveActive(q) PROVE camp' \in Camps
      BY <2>3, MergeType DEF SaveActive, CampStatus, Opened
    <2>4. ASSUME SaveSubmitted(q) PROVE camp' \in Camps
      BY <2>4, MergeType DEF SaveSubmitted, CampStatus
    <2>5. ASSUME SaveVerified(q) PROVE camp' \in Camps
      BY <2>5, OpenType DEF SaveVerified
    <2> QED
      BY <2>1, <2>2, <2>3, <2>4, <2>5
      DEF GoOn, LookForPending, CancelPayment, Checkout, CreatePayment, FindPayment, NoPayment,
          AskGateway, SavePaid
  <1>3. row' \in Seq(Rows) /\ DOMAIN row \subseteq DOMAIN row'
    <2>1. CASE CancelPayment(q)
      BY <2>1, SetRowType DEF CancelPayment, RowStatus
    <2>2. CASE SavePaid(q)
      BY <2>2, SetRowType DEF SavePaid, RowStatus
    <2>3. CASE CreatePayment(q)
      <3>1. [status |-> "pending", amount |-> req[q].copy.budget] \in Rows
        BY DEF Rows, RowStatus, Camps
      <3> QED
        BY <2>3, <3>1 DEF CreatePayment, TypeOK
    <2> QED
      BY <2>1, <2>2, <2>3
      DEF TypeOK, GoOn, SaveEdit, SaveDelete, SaveActive, LookForPending, Checkout,
          SaveSubmitted, FindPayment, NoPayment, AskGateway, SaveVerified
  <1>4. /\ UNCHANGED <<charged, acked, chosen, hook, cron, crashes, edits, submits>>
        /\ expired' \in BOOLEAN /\ lost' \in BOOLEAN
    BY DEF TypeOK, GoOn, SaveEdit, SaveDelete, SaveActive, LookForPending, CancelPayment,
           Checkout, SaveSubmitted, CreatePayment, FindPayment, NoPayment, AskGateway, SavePaid,
           SaveVerified, OpenFrom, reqOnly, bounds
  <1> QED
    BY <1>1, <1>2, <1>3, <1>4 DEF TypeOK

LEMMA HookType ==
    ASSUME TypeOK, NEW h \in Hooks, HookStep(h) \/ \E p \in charged : ReceivePayment(h, p)
    PROVE  TypeOK'
  <1> hook[h] \in HookRecs /\ hook[h].copy \in Camps /\ hook[h].p \in Nat /\ camp \in Camps
    BY DEF TypeOK, HookRecs
  <1>1. CASE HookSavesPayment(h)
    <2>1. row' \in Seq(Rows) /\ DOMAIN row' = DOMAIN row
      BY <1>1, SetRowType DEF HookSavesPayment, RowStatus, TypeOK
    <2>2. hook' \in [Hooks -> HookRecs]
      BY <1>1 DEF HookSavesPayment, TypeOK, HookRecs
    <2> QED
      BY <1>1, <2>1, <2>2 DEF HookSavesPayment, TypeOK, hookOnly, bounds
  <1>2. CASE HookReadsCampaign(h)
    <2>1. hook' \in [Hooks -> HookRecs]
      BY <1>2 DEF HookReadsCampaign, TypeOK, HookRecs
    <2> QED
      BY <1>2, <2>1 DEF HookReadsCampaign, TypeOK, hookOnly, bounds
  <1>3. CASE HookOpens(h)
    <2>1. camp' \in Camps /\ expired' = FALSE
      BY <1>3, OpenType DEF HookOpens, OpenFrom
    <2> QED
      BY <1>3, <2>1, NewTypes DEF HookOpens, TypeOK, hookOnly, bounds
  <1>4. ASSUME NEW p \in charged, ReceivePayment(h, p) PROVE TypeOK'
    <2> DEFINE seen == row[p].status
    <2>1. hook' = [hook EXCEPT ![h] = [pc |-> "payment", p |-> p, seen |-> seen, copy |-> NewCamp]]
      BY <1>4 DEF ReceivePayment
    <2>2. p \in Nat /\ row[p] \in Rows
      <3>1. row \in Seq(Rows) /\ p \in DOMAIN row
        BY DEF TypeOK
      <3> QED
        BY <3>1
    <2>3. [pc |-> "payment", p |-> p, seen |-> seen, copy |-> NewCamp] \in HookRecs
      BY <2>1, <2>2, NewTypes DEF Rows, HookRecs
    <2> QED
      BY <1>4, <2>1, <2>3 DEF ReceivePayment, TypeOK, hookOnly, bounds
  <1> QED
    BY <1>1, <1>2, <1>3, <1>4 DEF HookStep

LEMMA NextType == TypeOK /\ [Next]_vars => TypeOK'
  <1> SUFFICES ASSUME TypeOK, [Next]_vars PROVE TypeOK'
    OBVIOUS
  <1>1. CASE UNCHANGED vars
    BY <1>1 DEF TypeOK, vars
  <1>2. ASSUME NEW p \in 1 .. MaxSubmits, Pay(p) PROVE TypeOK'
    BY <1>2 DEF TypeOK, Pay, bounds
  <1>3. CASE SelectCreator \/ WindowPasses
    BY <1>3 DEF TypeOK, SelectCreator, WindowPasses, clockOnly, bounds
  <1>4. ASSUME NEW c \in Crons, CronStep(c) PROVE TypeOK'
    <2>1. camp' \in Camps
      BY <1>4 DEF TypeOK, CronStep, ListLive, SaveReviewing, Camps, CampStatus, Opened
    <2> QED
      BY <1>4, <2>1 DEF TypeOK, CronStep, ListLive, SaveReviewing, clockOnly, bounds
  <1>5. CASE Crash
    <2>1. /\ req' \in [Requests -> Reqs] /\ hook' \in [Hooks -> HookRecs]
          /\ cron' \in [Crons -> {"idle", "write"}]
      BY <1>5, NewTypes DEF TypeOK, Crash, Done
    <2> QED
      BY <1>5, <2>1 DEF TypeOK, Crash, bounds
  <1> QED
    BY <1>1, <1>2, <1>3, <1>4, <1>5, BeginType, GoOnType, HookType DEF Next

\* Every reachable state of the funding has the declared shape.
THEOREM FundingTypeCorrect == Spec => []TypeOK
  BY InitType, NextType, PTL DEF Spec

-----------------------------------------------------------------------------
(* Nothing opens before a charge.                                          *)

\* Whoever is about to open the campaign has seen a charge.
Justified ==
    /\ OpenIsCharged
    /\ chosen => charged # {}
    /\ \A q \in Requests :
         /\ req[q].pc \in {"payment", "campaign"} => req[q].p \in charged
         /\ req[q].pc = "activate" => charged # {}
    /\ \A h \in Hooks : hook[h].pc # "idle" => hook[h].p \in charged
    /\ \A c \in Crons : cron[c] = "write" => charged # {}

LEMMA InitJustified == Init => Justified
  BY DEF Init, Justified, OpenIsCharged, Opened, NewCamp, Idle, IdleHook

LEMMA BeginJustified ==
    ASSUME TypeOK, Justified, NEW q \in Requests, Begin(q) PROVE Justified'
  <1>1. PICK pc \in {"edit", "delete", "checkout", "look", "find", "activate"} :
          Read(q, pc) /\ (pc = "activate" => chosen)
    BY DEF Begin, BeginEdit, BeginDelete, BeginSubmit, BeginVerify, BeginActivate
  <1>2. UNCHANGED <<camp, chosen, charged, hook, cron>>
    BY <1>1 DEF Read, reqOnly
  <1>3. req'[q].pc = pc /\ \A r \in Requests \ {q} : req'[r] = req[r]
    BY <1>1 DEF Read, TypeOK
  <1> QED
    BY <1>1, <1>2, <1>3 DEF Justified, OpenIsCharged

LEMMA GoOnJustified ==
    ASSUME TypeOK, Justified, NEW q \in Requests, GoOn(q) PROVE Justified'
  <1>1. UNCHANGED <<charged, chosen, hook, cron>>
    BY DEF GoOn, SaveEdit, SaveDelete, SaveActive, LookForPending, CancelPayment,
           Checkout, SaveSubmitted, CreatePayment, FindPayment, NoPayment, AskGateway, SavePaid,
           SaveVerified, reqOnly
  <1>2. ASSUME NEW pc, Step(q, pc) PROVE req'[q].pc = pc /\ req'[q].p = req[q].p
    BY <1>2 DEF Step, TypeOK, Reqs
  <1>3. ASSUME NEW pc, NEW p, StepWith(q, pc, p) PROVE req'[q].pc = pc
    BY <1>3 DEF StepWith, TypeOK, Reqs
  <1>4. ASSUME Done(q) PROVE req'[q].pc = "idle"
    BY <1>4 DEF Done, TypeOK, Idle
  <1>5. /\ req'[q].pc \in {"payment", "campaign"} => req'[q].p \in charged
        /\ req'[q].pc # "activate"
    <2>1. CASE LookForPending(q) \/ \E p \in DOMAIN row : FindPayment(q, p)
      BY <1>2, <1>3, <1>4, <2>1 DEF LookForPending, FindPayment
    <2>2. CASE AskGateway(q) \/ SavePaid(q)
      BY <1>2, <1>4, <2>2 DEF AskGateway, SavePaid, Justified
    <2> QED
      BY <1>2, <1>4, <2>1, <2>2
      DEF GoOn, SaveEdit, SaveDelete, SaveActive, CancelPayment, Checkout, SaveSubmitted,
          CreatePayment, NoPayment, SaveVerified
  <1>6. \A r \in Requests \ {q} : req'[r] = req[r]
    BY DEF TypeOK, GoOn, SaveEdit, SaveDelete, SaveActive, LookForPending, CancelPayment,
           Checkout, SaveSubmitted, CreatePayment, FindPayment, NoPayment, AskGateway, SavePaid,
           SaveVerified, Step, StepWith, Done
  <1>7. OpenIsCharged'
    <2>1. CASE SaveEdit(q)
      BY <1>1, <2>1, MergeStatus DEF SaveEdit, Justified, OpenIsCharged
    <2>2. CASE SaveDelete(q)
      BY <1>1, <2>2 DEF SaveDelete, Justified, OpenIsCharged, TypeOK, Camps, Opened
    <2>3. CASE SaveActive(q)
      BY <1>1, <2>3 DEF SaveActive, Justified, OpenIsCharged
    <2>4. CASE SaveSubmitted(q)
      BY <1>1, <2>4, MergeStatus DEF SaveSubmitted, Justified, OpenIsCharged, Opened
    <2>5. CASE SaveVerified(q)
      BY <1>1, <2>5 DEF SaveVerified, Justified, OpenIsCharged
    <2>6. CASE UNCHANGED camp
      BY <1>1, <2>6 DEF Justified, OpenIsCharged
    <2> QED
      BY <2>1, <2>2, <2>3, <2>4, <2>5, <2>6
      DEF GoOn, LookForPending, CancelPayment, Checkout, CreatePayment, FindPayment, NoPayment,
          AskGateway, SavePaid
  <1> QED
    BY <1>1, <1>5, <1>6, <1>7 DEF Justified

LEMMA HookJustified ==
    ASSUME TypeOK, Justified, NEW h \in Hooks,
           HookStep(h) \/ \E p \in charged : ReceivePayment(h, p)
    PROVE  Justified'
  <1>1. UNCHANGED <<charged, chosen, req, cron>>
    BY DEF HookStep, HookSavesPayment, HookReadsCampaign, HookOpens, ReceivePayment, hookOnly
  <1>2. \A g \in Hooks \ {h} : hook'[g] = hook[g]
    BY DEF TypeOK, HookStep, HookSavesPayment, HookReadsCampaign, HookOpens, ReceivePayment
  <1>3. hook'[h].pc # "idle" => hook'[h].p \in charged
    BY DEF TypeOK, HookRecs, HookStep, HookSavesPayment, HookReadsCampaign, HookOpens,
           ReceivePayment, IdleHook, Justified
  <1>4. OpenIsCharged'
    <2>1. CASE HookOpens(h)
      BY <1>1, <2>1 DEF HookOpens, Justified, OpenIsCharged
    <2> QED
      BY <1>1, <2>1 DEF HookStep, HookSavesPayment, HookReadsCampaign, ReceivePayment, Justified,
                         OpenIsCharged
  <1> QED
    BY <1>1, <1>2, <1>3, <1>4 DEF Justified

LEMMA NextJustified == TypeOK /\ Justified /\ [Next]_vars => Justified'
  <1> SUFFICES ASSUME TypeOK, Justified, [Next]_vars PROVE Justified'
    OBVIOUS
  <1>1. CASE UNCHANGED vars
    BY <1>1 DEF Justified, OpenIsCharged, vars
  <1>2. ASSUME NEW p \in 1 .. MaxSubmits, Pay(p) PROVE Justified'
    BY <1>2 DEF Justified, OpenIsCharged, Pay
  <1>3. CASE SelectCreator \/ WindowPasses
    BY <1>3 DEF Justified, OpenIsCharged, SelectCreator, WindowPasses, clockOnly, Opened
  <1>4. ASSUME NEW c \in Crons, CronStep(c) PROVE Justified'
    <2>1. UNCHANGED <<chosen, charged, req, hook>>
      BY <1>4 DEF CronStep, ListLive, SaveReviewing, clockOnly
    <2>2. charged # {}
      BY <1>4 DEF CronStep, ListLive, SaveReviewing, Justified, OpenIsCharged, Opened
    <2> QED
      BY <2>1, <2>2 DEF Justified, OpenIsCharged
  <1>5. CASE Crash
    <2>1. UNCHANGED <<camp, chosen, charged>>
      BY <1>5 DEF Crash
    <2>2. \A q \in Requests : req'[q] = req[q] \/ req'[q].pc = "idle"
      BY <1>5 DEF Crash, Done, Idle, TypeOK
    <2>3. \A h \in Hooks : hook'[h] = hook[h] \/ hook'[h].pc = "idle"
      BY <1>5 DEF Crash, IdleHook, TypeOK
    <2>4. \A c \in Crons : cron'[c] = cron[c] \/ cron'[c] = "idle"
      BY <1>5 DEF Crash, TypeOK
    <2> QED
      BY <2>1, <2>2, <2>3, <2>4 DEF Justified, OpenIsCharged
  <1> QED
    BY <1>1, <1>2, <1>3, <1>4, <1>5, BeginJustified, GoOnJustified, HookJustified DEF Next

\* No interleaving of requests, webhooks and cron runs opens an unpaid campaign.
THEOREM OpensOnlyOnCharge == Spec => []OpenIsCharged
  <1>1. Init => TypeOK /\ Justified
    BY InitType, InitJustified
  <1>2. (TypeOK /\ Justified) /\ [Next]_vars => (TypeOK /\ Justified)'
    BY NextType, NextJustified
  <1>3. TypeOK /\ Justified => OpenIsCharged
    BY DEF Justified
  <1> QED
    BY <1>1, <1>2, <1>3, PTL DEF Spec

-----------------------------------------------------------------------------
(* An open campaign has the paid row that payouts look for.                *)

Kept == PaidRows # {} \/ lost

\* Whoever is about to open the campaign has seen a paid row, or marked one.
Backed ==
    /\ camp.status \in Opened \/ chosen => Kept
    /\ \A q \in Requests : req[q].pc \in {"campaign", "activate"} => Kept
    /\ \A h \in Hooks :
         hook[h].pc \in {"read", "campaign"} \/ (hook[h].pc = "payment" /\ hook[h].seen = "paid")
            => Kept
    /\ \A c \in Crons : cron[c] = "write" => Kept

LEMMA InitBacked == Init => Backed
  BY DEF Init, Backed, Opened, NewCamp, Idle, IdleHook

\* A row that a handler marks is paid from then on.
LEMMA MarkPaid ==
    ASSUME TypeOK, NEW p \in DOMAIN row, row' = [row EXCEPT ![p].status = "paid"]
    PROVE  Kept'
  <1>1. DOMAIN row' = DOMAIN row
    BY SetRowType DEF RowStatus
  <1>2. row[p] \in Rows
    BY DEF TypeOK
  <1>3. row'[p].status = "paid"
    BY <1>2 DEF Rows
  <1> QED
    BY <1>1, <1>3 DEF Kept, PaidRows

\* No step loses a paid row without leaving its mark.
LEMMA StepKeeps ==
    ASSUME TypeOK, Justified, Next, Kept
    PROVE  Kept'
  <1>1. CASE UNCHANGED <<row, lost>>
    BY <1>1 DEF Kept, PaidRows
  <1>2. ASSUME NEW q \in Requests, GoOn(q) PROVE Kept'
    <2>1. CASE CancelPayment(q)
      <3>1. lost' = (lost \/ row[req[q].p].status = "paid")
        BY <2>1 DEF CancelPayment
      <3>2. CASE lost'
        BY <3>2 DEF Kept
      <3>3. CASE ~lost'
        <4>1. PICK i \in DOMAIN row : row[i].status = "paid"
          BY <3>1, <3>3 DEF Kept, PaidRows
        <4>2. i # req[q].p
          BY <3>1, <3>3, <4>1
        <4>3. row'[i] = row[i] /\ DOMAIN row' = DOMAIN row
          BY <2>1, <4>2, SetRowType DEF CancelPayment, RowStatus, TypeOK
        <4> QED
          BY <4>1, <4>3 DEF Kept, PaidRows
      <3> QED
        BY <3>2, <3>3
    <2>2. CASE SavePaid(q)
      <3>1. req[q].p \in DOMAIN row
        BY <2>2 DEF SavePaid, Justified, TypeOK
      <3> QED
        BY <2>2, <3>1, MarkPaid DEF SavePaid
    <2>3. CASE CreatePayment(q)
      <3>1. PICK new : row' = Append(row, new) /\ lost' = lost
        BY <2>3 DEF CreatePayment
      <3>2. ASSUME NEW i \in DOMAIN row PROVE i \in DOMAIN row' /\ row'[i] = row[i]
        BY <3>1 DEF TypeOK
      <3> QED
        BY <3>1, <3>2 DEF Kept, PaidRows
    <2> QED
      BY <1>1, <1>2, <2>1, <2>2, <2>3
      DEF GoOn, SaveEdit, SaveDelete, SaveActive, LookForPending, Checkout,
          SaveSubmitted, FindPayment, NoPayment, AskGateway, SaveVerified
  <1>3. ASSUME NEW h \in Hooks, HookStep(h) PROVE Kept'
    <2>1. CASE HookSavesPayment(h)
      <3>1. hook[h].p \in DOMAIN row
        BY <2>1 DEF HookSavesPayment, Justified, TypeOK
      <3>2. CASE UNCHANGED row
        BY <2>1, <3>2, <1>1 DEF HookSavesPayment
      <3> QED
        BY <2>1, <3>1, <3>2, MarkPaid DEF HookSavesPayment
    <2> QED
      BY <1>1, <1>3, <2>1 DEF HookStep, HookReadsCampaign, HookOpens
  <1>4. ASSUME NEW q \in Requests, Begin(q) PROVE UNCHANGED <<row, lost>>
    BY <1>4 DEF Begin, BeginEdit, BeginDelete, BeginSubmit, BeginVerify, BeginActivate, Read
  <1>5. ASSUME \/ \E p \in 1 .. MaxSubmits : Pay(p)
               \/ \E h \in Hooks : \E p \in charged : ReceivePayment(h, p)
               \/ \E c \in Crons : CronStep(c)
               \/ SelectCreator \/ WindowPasses \/ Crash
        PROVE  UNCHANGED <<row, lost>>
    BY <1>5 DEF Pay, ReceivePayment, CronStep, ListLive, SaveReviewing, SelectCreator,
                WindowPasses, Crash, clockOnly
  <1> QED
    BY <1>1, <1>2, <1>3, <1>4, <1>5 DEF Next

LEMMA RequestBacked ==
    ASSUME TypeOK, Justified, Backed, Next, NEW q \in Requests, Begin(q) \/ GoOn(q)
    PROVE  Backed'
  <1>1. UNCHANGED <<chosen, hook, cron>>
    BY DEF Begin, BeginEdit, BeginDelete, BeginSubmit, BeginVerify, BeginActivate, Read,
           GoOn, SaveEdit, SaveDelete, SaveActive, LookForPending, CancelPayment, Checkout,
           SaveSubmitted, CreatePayment, FindPayment, NoPayment, AskGateway, SavePaid,
           SaveVerified, reqOnly
  <1>2. ASSUME NEW pc, Step(q, pc) \/ Read(q, pc) PROVE req'[q].pc = pc
    BY <1>2 DEF Step, Read, TypeOK, Reqs
  <1>3. ASSUME NEW pc, NEW p, StepWith(q, pc, p) PROVE req'[q].pc = pc
    BY <1>3 DEF StepWith, TypeOK, Reqs
  <1>4. ASSUME Done(q) PROVE req'[q].pc = "idle"
    BY <1>4 DEF Done, TypeOK, Idle
  <1>5. \A r \in Requests \ {q} : req'[r] = req[r]
    BY DEF TypeOK, Begin, BeginEdit, BeginDelete, BeginSubmit, BeginVerify, BeginActivate, Read,
           GoOn, SaveEdit, SaveDelete, SaveActive, LookForPending, CancelPayment,
           Checkout, SaveSubmitted, CreatePayment, FindPayment, NoPayment, AskGateway, SavePaid,
           SaveVerified, Step, StepWith, Done
  <1>6. req'[q].pc \in {"campaign", "activate"} => Kept'
    <2>1. CASE SavePaid(q)
      <3>1. req[q].p \in DOMAIN row
        BY <2>1 DEF SavePaid, Justified, TypeOK
      <3> QED
        BY <2>1, <3>1, MarkPaid DEF SavePaid
    <2>2. CASE BeginActivate(q)
      BY <2>2, StepKeeps DEF BeginActivate, Backed
    <2>3. CASE Begin(q) /\ ~BeginActivate(q)
      BY <1>2, <2>3 DEF Begin, BeginEdit, BeginDelete, BeginSubmit, BeginVerify
    <2>4. CASE LookForPending(q) \/ \E p \in DOMAIN row : FindPayment(q, p)
      BY <1>2, <1>4, <1>3, <2>4 DEF LookForPending, FindPayment
    <2> QED
      BY <1>2, <1>4, <2>1, <2>2, <2>3, <2>4
      DEF GoOn, SaveEdit, SaveDelete, SaveActive, CancelPayment, Checkout, SaveSubmitted,
          CreatePayment, NoPayment, AskGateway, SaveVerified
  <1>7. camp'.status \in Opened => Kept'
    <2>1. CASE SaveEdit(q)
      BY <2>1, StepKeeps, MergeStatus DEF SaveEdit, Backed
    <2>2. CASE SaveDelete(q)
      BY <2>2 DEF SaveDelete, TypeOK, Camps, Opened
    <2>3. CASE SaveActive(q) \/ SaveVerified(q)
      BY <2>3, StepKeeps DEF SaveActive, SaveVerified, Backed
    <2>4. CASE SaveSubmitted(q)
      BY <2>4, StepKeeps, MergeStatus DEF SaveSubmitted, Backed, Opened
    <2>5. CASE UNCHANGED camp
      BY <2>5, StepKeeps DEF Backed
    <2> QED
      BY <2>1, <2>2, <2>3, <2>4, <2>5
      DEF Begin, BeginEdit, BeginDelete, BeginSubmit, BeginVerify, BeginActivate, Read,
          GoOn, LookForPending, CancelPayment, Checkout, CreatePayment, FindPayment, NoPayment,
          AskGateway, SavePaid
  <1> QED
    BY <1>1, <1>5, <1>6, <1>7, StepKeeps DEF Backed

LEMMA HookBacked ==
    ASSUME TypeOK, Justified, Backed, Next, NEW h \in Hooks,
           HookStep(h) \/ \E p \in charged : ReceivePayment(h, p)
    PROVE  Backed'
  <1>1. UNCHANGED <<chosen, req, cron>>
    BY DEF HookStep, HookSavesPayment, HookReadsCampaign, HookOpens, ReceivePayment, hookOnly
  <1>2. \A g \in Hooks \ {h} : hook'[g] = hook[g]
    BY DEF TypeOK, HookStep, HookSavesPayment, HookReadsCampaign, HookOpens, ReceivePayment
  <1>3. CASE HookSavesPayment(h)
    <2>1. Kept'
      <3>1. hook[h].p \in DOMAIN row
        BY <1>3 DEF HookSavesPayment, Justified, TypeOK
      <3>2. CASE hook[h].seen = "paid"
        BY <1>3, <3>2, StepKeeps DEF HookSavesPayment, Backed
      <3>3. CASE hook[h].seen # "paid"
        BY <1>3, <3>1, <3>3, MarkPaid DEF HookSavesPayment
      <3> QED
        BY <3>2, <3>3
    <2> QED
      BY <2>1 DEF Backed
  <1>4. CASE HookReadsCampaign(h) \/ HookOpens(h)
    <2>1. Kept'
      BY <1>4, StepKeeps DEF HookReadsCampaign, HookOpens, Backed
    <2> QED
      BY <2>1 DEF Backed
  <1>5. ASSUME NEW p \in charged, ReceivePayment(h, p) PROVE Backed'
    <2>1. p \in DOMAIN row /\ UNCHANGED camp
      BY <1>5 DEF ReceivePayment, TypeOK
    <2>2. hook'[h].pc = "payment" /\ hook'[h].seen = row[p].status
      BY <1>5 DEF ReceivePayment, TypeOK
    <2>3. hook'[h].seen = "paid" => Kept
      BY <2>1, <2>2 DEF Kept, PaidRows
    <2> QED
      BY <1>1, <1>2, <2>1, <2>2, <2>3, StepKeeps DEF Backed
  <1> QED
    BY <1>3, <1>4, <1>5 DEF HookStep

LEMMA NextBacked == TypeOK /\ Justified /\ Backed /\ [Next]_vars => Backed'
  <1> SUFFICES ASSUME TypeOK, Justified, Backed, [Next]_vars PROVE Backed'
    OBVIOUS
  <1>1. CASE UNCHANGED vars
    BY <1>1 DEF Backed, Kept, PaidRows, vars
  <1>2. ASSUME Next, \E p \in 1 .. MaxSubmits : Pay(p) PROVE Backed'
    BY <1>2, StepKeeps DEF Backed, Pay
  <1>3. ASSUME Next, SelectCreator \/ WindowPasses PROVE Backed'
    BY <1>3, StepKeeps DEF Backed, SelectCreator, WindowPasses, clockOnly, Opened
  <1>4. ASSUME Next, NEW c \in Crons, CronStep(c) PROVE Backed'
    <2>1. UNCHANGED <<chosen, req, hook>>
      BY <1>4 DEF CronStep, ListLive, SaveReviewing, clockOnly
    <2>2. Kept
      BY <1>4 DEF CronStep, ListLive, SaveReviewing, Backed, Opened
    <2> QED
      BY <1>4, <2>1, <2>2, StepKeeps DEF Backed
  <1>5. ASSUME Next, Crash PROVE Backed'
    <2>1. UNCHANGED <<camp, chosen>>
      BY <1>5 DEF Crash
    <2>2. \A q \in Requests : req'[q] = req[q] \/ req'[q].pc = "idle"
      BY <1>5 DEF Crash, Done, Idle, TypeOK
    <2>3. \A h \in Hooks : hook'[h] = hook[h] \/ hook'[h].pc = "idle"
      BY <1>5 DEF Crash, IdleHook, TypeOK
    <2>4. \A c \in Crons : cron'[c] = cron[c] \/ cron'[c] = "idle"
      BY <1>5 DEF Crash, TypeOK
    <2> QED
      BY <1>5, <2>1, <2>2, <2>3, <2>4, StepKeeps DEF Backed
  <1> QED
    BY <1>1, <1>2, <1>3, <1>4, <1>5, RequestBacked, HookBacked DEF Next

\* However many requests and webhooks interleave, an open campaign has a paid
\* row, or a retry has cancelled one that was.
THEOREM OpenCampaignsHavePaidRow == Spec => []OpenHasPaidRow
  <1>1. Init => TypeOK /\ Justified /\ Backed
    BY InitType, InitJustified, InitBacked
  <1>2. (TypeOK /\ Justified /\ Backed) /\ [Next]_vars => (TypeOK /\ Justified /\ Backed)'
    BY NextType, NextJustified, NextBacked
  <1>3. TypeOK /\ Justified /\ Backed => OpenHasPaidRow
    BY DEF Backed, Kept, OpenHasPaidRow
  <1> QED
    BY <1>1, <1>2, <1>3, PTL DEF Spec

-----------------------------------------------------------------------------
(* A brand that makes one request at a time.                               *)

OneAtATime == \A q, r \in Requests : q = r

Unsubmitted == {"draft", "deleted"}

\* No checkout exists before the campaign has left the draft, and a request
\* that still believes in the draft is alone with it.
Orderly ==
    /\ camp.status \in Unsubmitted => row = <<>>
    /\ \A q \in Requests :
         /\ req[q].pc = "delete" => row = <<>>
         /\ req[q].pc \in {"look", "cancel", "checkout", "status"} =>
              \/ req[q].copy.status = "draft" /\ row = <<>>
              \/ req[q].copy.status = "pending_payment" /\ camp.status \notin Unsubmitted
         /\ req[q].pc \in {"look", "cancel"} => req[q].copy.status = "pending_payment"
         /\ req[q].pc = "row" => camp.status \notin Unsubmitted

LEMMA InitOrderly == Init => Orderly
  BY DEF Init, Orderly, Idle

\* What a step that is no request's leaves of it.
LEMMA OthersOrderly ==
    ASSUME Orderly, UNCHANGED req, row' = <<>> <=> row = <<>>,
           camp'.status = camp.status \/ camp'.status \in Opened
    PROVE  Orderly'
  BY DEF Orderly, Unsubmitted, Opened

LEMMA BeginOrderly ==
    ASSUME OneAtATime, TypeOK, Orderly, NEW q \in Requests, Begin(q) PROVE Orderly'
  <1>1. PICK pc \in {"edit", "delete", "checkout", "look", "find", "activate"} :
          /\ Read(q, pc)
          /\ pc \in {"delete", "checkout"} => camp.status = "draft"
          /\ pc = "look" => camp.status = "pending_payment"
    BY DEF Begin, BeginEdit, BeginDelete, BeginSubmit, BeginVerify, BeginActivate
  <1>2. UNCHANGED <<camp, row>>
    BY <1>1 DEF Read
  <1>3. req'[q].pc = pc /\ req'[q].copy = camp /\ \A r \in Requests : r = q
    BY <1>1 DEF Read, TypeOK, OneAtATime
  <1> QED
    BY <1>1, <1>2, <1>3 DEF Orderly, Unsubmitted

\* A request of such a brand never takes an open campaign back.
LEMMA GoOnOrderly ==
    ASSUME OneAtATime, TypeOK, Justified, Orderly, NEW q \in Requests, GoOn(q)
    PROVE  Orderly' /\ (camp.status \in Opened => camp'.status \in Opened)
  <1> req[q] \in Reqs /\ camp \in Camps /\ row \in Seq(Rows) /\ charged \subseteq DOMAIN row
    BY DEF TypeOK
  <1>1. \A r \in Requests : r = q
    BY DEF OneAtATime
  <1>2. ASSUME NEW pc, Step(q, pc) PROVE req'[q].pc = pc /\ req'[q].copy = req[q].copy
    BY <1>2 DEF Step, TypeOK, Reqs
  <1>3. ASSUME NEW pc, NEW p, StepWith(q, pc, p)
        PROVE  req'[q].pc = pc /\ req'[q].copy = req[q].copy
    BY <1>3 DEF StepWith, TypeOK, Reqs
  <1>4. ASSUME Done(q) PROVE req'[q].pc = "idle"
    BY <1>4 DEF Done, TypeOK, Idle
  <1>5. row = <<>> => camp.status \notin Opened
    BY DEF Justified, OpenIsCharged
  <1>6. CASE SaveEdit(q)
    BY <1>1, <1>4, <1>6, MergeStatus DEF SaveEdit, Orderly
  <1>7. CASE SaveDelete(q)
    BY <1>1, <1>4, <1>5, <1>7 DEF SaveDelete, Orderly
  <1>8. CASE SaveActive(q)
    BY <1>1, <1>4, <1>8, MergeStatus DEF SaveActive, Orderly, Unsubmitted, Opened
  <1>9. CASE LookForPending(q)
    BY <1>1, <1>2, <1>3, <1>9 DEF LookForPending, Orderly
  <1>10. CASE CancelPayment(q)
    <2>1. Len(row') = Len(row) /\ row' \in Seq(Rows)
      BY <1>10, SetRowType DEF CancelPayment, RowStatus
    <2>2. row' = <<>> <=> row = <<>>
      BY <2>1
    <2> QED
      BY <1>1, <1>2, <1>10, <2>2 DEF CancelPayment, Orderly
  <1>11. CASE Checkout(q)
    BY <1>1, <1>2, <1>4, <1>11 DEF Checkout, Orderly
  <1>12. CASE SaveSubmitted(q)
    BY <1>1, <1>2, <1>5, <1>12, MergeStatus DEF SaveSubmitted, Orderly, Unsubmitted
  <1>13. CASE CreatePayment(q)
    BY <1>1, <1>4, <1>13 DEF CreatePayment, Orderly
  <1>14. CASE NoPayment(q) \/ \E p \in DOMAIN row : FindPayment(q, p)
    BY <1>1, <1>3, <1>4, <1>14 DEF NoPayment, FindPayment, Orderly
  <1>15. CASE AskGateway(q)
    BY <1>1, <1>2, <1>4, <1>15 DEF AskGateway, Orderly
  <1>16. CASE SavePaid(q)
    <2>1. Len(row') = Len(row) /\ row' \in Seq(Rows)
      BY <1>16, SetRowType DEF SavePaid, RowStatus
    <2>2. row' = <<>> <=> row = <<>>
      BY <2>1
    <2> QED
      BY <1>1, <1>2, <1>16, <2>2 DEF SavePaid, Orderly
  <1>17. CASE SaveVerified(q)
    BY <1>1, <1>4, <1>17, MergeStatus DEF SaveVerified, OpenFrom, Orderly, Unsubmitted, Opened
  <1> QED
    BY <1>6, <1>7, <1>8, <1>9, <1>10, <1>11, <1>12, <1>13, <1>14, <1>15, <1>16, <1>17 DEF GoOn

\* Nor does a webhook handler.
LEMMA HookOrderly ==
    ASSUME TypeOK, Orderly, NEW h \in Hooks,
           HookStep(h) \/ \E p \in charged : ReceivePayment(h, p)
    PROVE  Orderly' /\ (camp.status \in Opened => camp'.status \in Opened)
  <1>1. UNCHANGED req
    BY DEF HookStep, HookSavesPayment, HookReadsCampaign, HookOpens, ReceivePayment, hookOnly
  <1>2. camp'.status = camp.status \/ camp'.status \in Opened
    BY MergeStatus DEF HookStep, HookSavesPayment, HookReadsCampaign, HookOpens, OpenFrom,
                       ReceivePayment, Opened
  <1>3. row' = <<>> <=> row = <<>>
    <2>1. CASE UNCHANGED row
      BY <2>1
    <2>2. CASE row' = [row EXCEPT ![hook[h].p].status = "paid"]
      <3>1. Len(row') = Len(row) /\ row' \in Seq(Rows) /\ row \in Seq(Rows)
        BY <2>2, SetRowType DEF RowStatus, TypeOK
      <3> QED
        BY <3>1
    <2> QED
      BY <2>1, <2>2 DEF HookStep, HookSavesPayment, HookReadsCampaign, HookOpens, ReceivePayment
  <1> QED
    BY <1>1, <1>2, <1>3, OthersOrderly

LEMMA NextOrderly ==
    ASSUME OneAtATime
    PROVE  TypeOK /\ Justified /\ Orderly /\ [Next]_vars =>
             Orderly' /\ (camp.status \in Opened => camp'.status \in Opened)
  <1> SUFFICES ASSUME TypeOK, Justified, Orderly, [Next]_vars
               PROVE  Orderly' /\ (camp.status \in Opened => camp'.status \in Opened)
    OBVIOUS
  <1>1. CASE UNCHANGED vars
    BY <1>1, OthersOrderly DEF vars
  <1>2. ASSUME NEW p \in 1 .. MaxSubmits, Pay(p) PROVE Orderly' /\ UNCHANGED camp
    BY <1>2, OthersOrderly DEF Pay
  <1>3. CASE SelectCreator \/ WindowPasses
    BY <1>3, OthersOrderly DEF SelectCreator, WindowPasses, clockOnly
  <1>4. ASSUME NEW c \in Crons, CronStep(c)
        PROVE  Orderly' /\ (camp.status \in Opened => camp'.status \in Opened)
    <2>1. camp'.status = camp.status \/ camp'.status \in Opened
      BY <1>4 DEF CronStep, ListLive, SaveReviewing, Opened, TypeOK, Camps
    <2>2. UNCHANGED <<row, req>>
      BY <1>4 DEF CronStep, ListLive, SaveReviewing, clockOnly
    <2> QED
      BY <2>1, <2>2, OthersOrderly
  <1>5. CASE Crash
    <2>1. UNCHANGED <<camp, row>>
      BY <1>5 DEF Crash
    <2>2. \A q \in Requests : req'[q] = req[q] \/ req'[q].pc = "idle"
      BY <1>5 DEF Crash, Done, Idle, TypeOK
    <2> QED
      BY <2>1, <2>2 DEF Orderly
  <1>6. ASSUME NEW q \in Requests, Begin(q) PROVE UNCHANGED camp
    BY <1>6 DEF Begin, BeginEdit, BeginDelete, BeginSubmit, BeginVerify, BeginActivate, Read
  <1> QED
    BY <1>1, <1>2, <1>3, <1>4, <1>5, <1>6, BeginOrderly, GoOnOrderly, HookOrderly DEF Next

\* Only the gateway's charges change the set of charges.
LEMMA Charges ==
    ASSUME TypeOK, Next
    PROVE  UNCHANGED charged \/ \E p \in 1 .. MaxSubmits : Pay(p)
  <1>1. ASSUME NEW q \in Requests, Begin(q) \/ GoOn(q) PROVE UNCHANGED charged
    BY <1>1 DEF Begin, BeginEdit, BeginDelete, BeginSubmit, BeginVerify, BeginActivate, Read,
      GoOn, SaveEdit, SaveDelete, SaveActive, LookForPending, CancelPayment, Checkout,
      SaveSubmitted, CreatePayment, FindPayment, NoPayment, AskGateway, SavePaid, SaveVerified,
      reqOnly
  <1>2. ASSUME NEW h \in Hooks, HookStep(h) \/ \E p \in charged : ReceivePayment(h, p)
        PROVE  UNCHANGED charged
    BY <1>2 DEF HookStep, HookSavesPayment, HookReadsCampaign, HookOpens, ReceivePayment, hookOnly
  <1>3. ASSUME \/ \E c \in Crons : CronStep(c)
               \/ SelectCreator \/ WindowPasses \/ Crash
        PROVE  UNCHANGED charged
    BY <1>3 DEF CronStep, ListLive, SaveReviewing, SelectCreator, WindowPasses, Crash, clockOnly
  <1> QED
    BY <1>1, <1>2, <1>3 DEF Next

\* With one request of the brand at a time, funding implements its promise:
\* a campaign opens after a charge only, and is never taken back.
THEOREM FundingImplementsPromise ==
    ASSUME OneAtATime PROVE Spec => Promise!PromiseSafety
  <1> DEFINE I == TypeOK /\ Justified /\ Orderly
  <1>1. Init => I /\ Promise!PromiseInit
    BY InitType, InitJustified, InitOrderly DEF Promise!PromiseInit, Init, NewCamp, Opened
  <1>2. I /\ [Next]_vars => I'
    BY NextType, NextJustified, NextOrderly
  <1>3. I /\ I' /\ [Next]_vars => [Promise!PromiseNext]_(Promise!promiseVars)
    <2> SUFFICES ASSUME I, I', [Next]_vars
                 PROVE  [Promise!PromiseNext]_(Promise!promiseVars)
      OBVIOUS
    <2>1. camp.status \in Opened => camp'.status \in Opened
      BY NextOrderly
    <2>2. camp'.status \in Opened => charged' # {}
      BY DEF Justified, OpenIsCharged
    <2>3. CASE UNCHANGED charged
      BY <2>1, <2>2, <2>3
      DEF Promise!PromiseNext, Promise!Open, Promise!promiseVars
    <2>4. ASSUME NEW p \in 1 .. MaxSubmits, Pay(p)
          PROVE  Promise!PromiseNext
      BY <2>4 DEF Pay, Promise!PromiseNext, Promise!Charge
    <2>5. CASE UNCHANGED vars
      BY <2>3, <2>5 DEF vars
    <2> QED
      BY <2>3, <2>4, <2>5, Charges
  <1> QED
    BY <1>1, <1>2, <1>3, PTL DEF Spec, Promise!PromiseSafety

-----------------------------------------------------------------------------
(* What a retry of such a brand leaves to be paid.                         *)

Waiting == {i \in DOMAIN row : row[i].status = "pending"}

\* The checkout that waits is the latest, and a retry goes on with none that waits.
Replacing ==
    /\ PaidRows = {} => Waiting \subseteq {Len(row)}
    /\ \A q \in Requests :
         /\ req[q].pc = "cancel" => Waiting \subseteq {req[q].p}
         /\ req[q].pc \in {"checkout", "status", "row"} => PaidRows # {} \/ Waiting = {}

LEMMA InitReplacing == Init => Replacing
  BY DEF Init, Replacing, Waiting, Idle

\* What a row's new status does to those that wait.
LEMMA SetRowWaits ==
    ASSUME TypeOK, NEW p \in DOMAIN row, NEW st \in {"paid", "cancelled"},
           row' = [row EXCEPT ![p].status = st]
    PROVE  /\ Waiting' = Waiting \ {p} /\ Len(row') = Len(row)
           /\ st = "paid" => PaidRows' # {}
  <1>1. DOMAIN row' = DOMAIN row /\ Len(row') = Len(row)
    BY SetRowType DEF RowStatus
  <1>2. row[p] \in Rows
    BY DEF TypeOK
  <1>3. row'[p].status = st /\ \A i \in DOMAIN row : i # p => row'[i] = row[i]
    BY <1>2 DEF Rows
  <1> QED
    BY <1>1, <1>3 DEF Waiting, PaidRows

\* A step that leaves the rows alone, and brings no request to a point of a retry.
LEMMA OthersReplacing ==
    ASSUME Replacing, UNCHANGED row,
           \A q \in Requests :
             \/ req'[q].pc \notin {"cancel", "checkout", "status", "row"}
             \/ req'[q].pc = req[q].pc /\ req'[q].p = req[q].p
    PROVE  Replacing'
  BY DEF Replacing, Waiting, PaidRows

LEMMA BeginReplacing ==
    ASSUME OneAtATime, TypeOK, Orderly, Replacing, NEW q \in Requests, Begin(q)
    PROVE  Replacing'
  <1>1. PICK pc \in {"edit", "delete", "checkout", "look", "find", "activate"} :
          /\ Read(q, pc)
          /\ pc = "checkout" => camp.status = "draft"
    BY DEF Begin, BeginEdit, BeginDelete, BeginSubmit, BeginVerify, BeginActivate
  <1>2. UNCHANGED row /\ req'[q].pc = pc /\ \A r \in Requests : r = q
    BY <1>1 DEF Read, TypeOK, OneAtATime
  <1>3. pc = "checkout" => Waiting' = {}
    BY <1>1, <1>2 DEF Orderly, Unsubmitted, Waiting
  <1>4. Waiting' = Waiting /\ PaidRows' = PaidRows
    BY <1>2 DEF Waiting, PaidRows
  <1> QED
    BY <1>1, <1>2, <1>3, <1>4 DEF Replacing

LEMMA GoOnReplacing ==
    ASSUME OneAtATime, TypeOK, Justified, Replacing, NEW q \in Requests, GoOn(q)
    PROVE  Replacing'
  <1> req[q] \in Reqs /\ row \in Seq(Rows) /\ charged \subseteq DOMAIN row
    BY DEF TypeOK
  <1>1. \A r \in Requests : r = q
    BY DEF OneAtATime
  <1>2. ASSUME NEW pc, Step(q, pc) PROVE req'[q].pc = pc /\ req'[q].p = req[q].p
    BY <1>2 DEF Step, TypeOK, Reqs
  <1>3. ASSUME NEW pc, NEW p, StepWith(q, pc, p) PROVE req'[q].pc = pc /\ req'[q].p = p
    BY <1>3 DEF StepWith, TypeOK, Reqs
  <1>4. ASSUME Done(q) PROVE req'[q].pc = "idle"
    BY <1>4 DEF Done, TypeOK, Idle
  <1>5. ASSUME UNCHANGED row PROVE Waiting' = Waiting /\ PaidRows' = PaidRows
    BY <1>5 DEF Waiting, PaidRows
  <1>6. CASE SaveEdit(q) \/ SaveDelete(q) \/ SaveActive(q) \/ SaveVerified(q)
    BY <1>1, <1>4, <1>6, OthersReplacing DEF SaveEdit, SaveDelete, SaveActive, SaveVerified
  <1>7. CASE NoPayment(q) \/ (\E p \in DOMAIN row : FindPayment(q, p)) \/ AskGateway(q)
    BY <1>1, <1>2, <1>3, <1>4, <1>7, OthersReplacing DEF NoPayment, FindPayment, AskGateway
  <1>8. CASE LookForPending(q)
    <2>1. UNCHANGED row
      BY <1>8 DEF LookForPending
    <2>2. CASE PaidRows = {} /\ row # <<>> /\ row[Len(row)].status = "pending"
      <3>1. StepWith(q, "cancel", Len(row))
        BY <1>8, <2>2 DEF LookForPending
      <3> QED
        BY <1>1, <1>3, <1>5, <2>1, <2>2, <3>1 DEF Replacing
    <2>3. CASE ~(PaidRows = {} /\ row # <<>> /\ row[Len(row)].status = "pending")
      <3>1. Step(q, "checkout")
        BY <1>8, <2>3 DEF LookForPending
      <3>2. PaidRows = {} => Waiting = {}
        BY <2>3 DEF Replacing, Waiting
      <3> QED
        BY <1>1, <1>2, <1>5, <2>1, <3>1, <3>2 DEF Replacing
    <2> QED
      BY <2>2, <2>3
  <1>9. CASE CancelPayment(q)
    <2>1. /\ req[q].pc = "cancel" /\ row' = [row EXCEPT ![req[q].p].status = "cancelled"]
          /\ Step(q, "checkout")
      BY <1>9 DEF CancelPayment
    <2>2. Waiting' = {}
      <3>1. CASE req[q].p \in DOMAIN row
        BY <2>1, <3>1, SetRowWaits DEF Replacing
      <3>2. CASE req[q].p \notin DOMAIN row
        BY <2>1, <3>2, <1>5 DEF Replacing, Waiting
      <3> QED
        BY <3>1, <3>2
    <2> QED
      BY <1>1, <1>2, <2>1, <2>2 DEF Replacing
  <1>10. CASE Checkout(q) \/ SaveSubmitted(q)
    <2>1. /\ req[q].pc \in {"checkout", "status"} /\ UNCHANGED row
          /\ Step(q, "status") \/ Step(q, "row") \/ Done(q)
      BY <1>10 DEF Checkout, SaveSubmitted
    <2> QED
      BY <1>1, <1>2, <1>4, <1>5, <2>1 DEF Replacing
  <1>11. CASE CreatePayment(q)
    <2>1. PICK new : row' = Append(row, new) /\ Done(q) /\ req[q].pc = "row"
      BY <1>11 DEF CreatePayment
    <2>2. \A i \in DOMAIN row : i \in DOMAIN row' /\ row'[i] = row[i]
      BY <2>1
    <2>3. DOMAIN row' = DOMAIN row \cup {Len(row')}
      BY <2>1
    <2>4. PaidRows' = {} => PaidRows = {}
      BY <2>2 DEF PaidRows
    <2>5. Waiting' \subseteq Waiting \cup {Len(row')}
      BY <2>2, <2>3 DEF Waiting
    <2> QED
      BY <1>1, <1>4, <2>1, <2>4, <2>5 DEF Replacing
  <1>12. CASE SavePaid(q)
    <2>1. req[q].p \in DOMAIN row
      BY <1>12 DEF SavePaid, Justified, TypeOK
    <2>2. row' = [row EXCEPT ![req[q].p].status = "paid"] /\ Step(q, "campaign")
      BY <1>12 DEF SavePaid
    <2>3. PaidRows' # {}
      BY <2>1, <2>2, SetRowWaits
    <2> QED
      BY <1>1, <1>2, <2>2, <2>3 DEF Replacing
  <1> QED
    BY <1>6, <1>7, <1>8, <1>9, <1>10, <1>11, <1>12 DEF GoOn

LEMMA HookReplacing ==
    ASSUME TypeOK, Justified, Replacing, NEW h \in Hooks,
           HookStep(h) \/ \E p \in charged : ReceivePayment(h, p)
    PROVE  Replacing'
  <1>1. UNCHANGED req
    BY DEF HookStep, HookSavesPayment, HookReadsCampaign, HookOpens, ReceivePayment, hookOnly
  <1>2. CASE UNCHANGED row
    BY <1>1, <1>2, OthersReplacing
  <1>3. CASE HookSavesPayment(h) /\ row' # row
    <2>1. hook[h].p \in DOMAIN row
      BY <1>3 DEF HookSavesPayment, Justified, TypeOK
    <2>2. row' = [row EXCEPT ![hook[h].p].status = "paid"]
      BY <1>3 DEF HookSavesPayment
    <2>3. Waiting' \subseteq Waiting /\ PaidRows' # {}
      BY <2>1, <2>2, SetRowWaits
    <2> QED
      BY <1>1, <2>3 DEF Replacing
  <1> QED
    BY <1>2, <1>3 DEF HookStep, HookReadsCampaign, HookOpens, ReceivePayment

LEMMA NextReplacing ==
    ASSUME OneAtATime
    PROVE  TypeOK /\ Justified /\ Orderly /\ Replacing /\ [Next]_vars => Replacing'
  <1> SUFFICES ASSUME TypeOK, Justified, Orderly, Replacing, [Next]_vars PROVE Replacing'
    OBVIOUS
  <1>1. CASE UNCHANGED vars \/ (\E p \in 1 .. MaxSubmits : Pay(p)) \/ SelectCreator
             \/ WindowPasses \/ \E c \in Crons : CronStep(c)
    <2>1. UNCHANGED <<row, req>>
      BY <1>1 DEF vars, Pay, SelectCreator, WindowPasses, CronStep, ListLive, SaveReviewing,
                  clockOnly
    <2> QED
      BY <2>1, OthersReplacing
  <1>2. CASE Crash
    <2>1. UNCHANGED row /\ \A q \in Requests : req'[q] = req[q] \/ req'[q].pc = "idle"
      BY <1>2 DEF Crash, Done, Idle, TypeOK
    <2> QED
      BY <2>1, OthersReplacing
  <1> QED
    BY <1>1, <1>2, BeginReplacing, GoOnReplacing, HookReplacing DEF Next

\* With one request of the brand at a time, a retry leaves no second checkout waiting to be
\* paid, as long as no row is marked paid, for any number of submissions, webhooks, instances
\* and crashes (submitCampaign's retry, campaigns.service.ts:497-505).
THEOREM RetriesReplace ==
    ASSUME OneAtATime PROVE Spec => []OnePendingUntilPaid
  <1> DEFINE I == TypeOK /\ Justified /\ Orderly /\ Replacing
  <1>1. Init => I
    BY InitType, InitJustified, InitOrderly, InitReplacing
  <1>2. I /\ [Next]_vars => I'
    BY NextType, NextJustified, NextOrderly, NextReplacing
  <1>3. I => OnePendingUntilPaid
    BY DEF Replacing, Waiting, OnePendingUntilPaid, OnePending
  <1> QED
    BY <1>1, <1>2, <1>3, PTL DEF Spec
=============================================================================
