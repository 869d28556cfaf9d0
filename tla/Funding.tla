------------------------------ MODULE Funding ------------------------------
(***************************************************************************)
(* How a campaign is paid for and opened: the brand's requests             *)
(* (updateDraft, deleteDraft, submit, verifyPayment, activateCampaign),    *)
(* the collection webhooks, and the hourly timeline cron.  As in Payouts,  *)
(* each awaited read, write and gateway call is a step, requests           *)
(* interleave, and an update() of a row read earlier writes only the       *)
(* columns that differ from that copy (operator Merge).                    *)
(***************************************************************************)
EXTENDS Naturals, Sequences

CONSTANTS
    Requests,     \* requests of the brand handled at one time
    Hooks,        \* webhook requests handled at one time
    Crons,        \* PM2 instances, each of which fires the hourly cron
    MaxSubmits,   \* bound: submissions, hence checkouts, of one campaign
    MaxEdits,     \* bound: edits of the budget
    MaxCrashes    \* bound: processes killed half-way

ASSUME FundingBounds == MaxSubmits \in Nat /\ MaxEdits \in Nat /\ MaxCrashes \in Nat

VARIABLES
    camp,       \* the campaign row: status, paymentStatus (pay), totalBudget
    row,        \* the payment rows, oldest first: paymentStatus, amount
    charged,    \* checkouts the gateway has charged, by number of their row
    acked,      \* charges whose webhook was answered with 200
    chosen,     \* an application is selected, so the campaign can be activated
    expired,    \* the 48 hours since approvedAt are over
    req, hook, cron,
    lost,       \* history: a row was cancelled after it had been paid
    edits, submits, crashes

vars == <<camp, row, charged, acked, chosen, expired, req, hook, cron, lost,
          edits, submits, crashes>>

\* The statuses in which the campaign is open to creators.
Opened == {"live", "reviewing_applicant", "active"}
CampStatus == Opened \cup {"draft", "pending_payment", "deleted"}
Camps == [status : CampStatus, pay : {"unpaid", "pending", "paid"}, budget : Nat]

RowStatus == {"pending", "cancelled", "paid"}
Rows == [status : RowStatus, amount : Nat]

NewCamp == [status |-> "draft", pay |-> "unpaid", budget |-> 0]

ReqPc == {"idle", "edit", "delete", "activate",
          "look", "cancel", "checkout", "status", "row",
          "find", "ask", "payment", "campaign"}
Reqs == [pc : ReqPc, copy : Camps, p : Nat]
HookRecs == [pc : {"idle", "payment", "read", "campaign"}, p : Nat,
             seen : RowStatus, copy : Camps]

Idle == [pc |-> "idle", copy |-> NewCamp, p |-> 0]
IdleHook == [pc |-> "idle", p |-> 0, seen |-> "pending", copy |-> NewCamp]

\* create has saved the draft.
Init ==
    /\ camp = NewCamp
    /\ row = <<>>
    /\ charged = {} /\ acked = {}
    /\ chosen = FALSE /\ expired = FALSE
    /\ req = [q \in Requests |-> Idle]
    /\ hook = [h \in Hooks |-> IdleHook]
    /\ cron = [c \in Crons |-> "idle"]
    /\ lost = FALSE
    /\ edits = 0 /\ submits = 0 /\ crashes = 0

\* The row after copy.update(new).
Merge(copy, new) ==
    [f \in {"status", "pay", "budget"} |->
        IF f \in DOMAIN new THEN IF new[f] = copy[f] THEN camp[f] ELSE new[f]
                            ELSE camp[f]]

\* campaign.update of the handlers that open it: approvedAt starts the 48 hours.
OpenFrom(copy) ==
    /\ camp' = Merge(copy, [status |-> "live", pay |-> "paid"])
    /\ expired' = FALSE

-----------------------------------------------------------------------------
(* The requests of the brand.                                              *)

reqOnly == <<charged, acked, chosen, hook, cron, crashes>>
bounds == <<edits, submits>>

Step(q, pc) == req' = [req EXCEPT ![q].pc = pc]
StepWith(q, pc, p) == req' = [req EXCEPT ![q] = [@ EXCEPT !.pc = pc, !.p = p]]
Done(q) == req' = [req EXCEPT ![q] = Idle]

\* A handler reads the campaign and goes on only if its guard allows.
Read(q, pc) ==
    /\ req[q].pc = "idle"
    /\ req' = [req EXCEPT ![q] = [pc |-> pc, copy |-> camp, p |-> 0]]
    /\ UNCHANGED <<camp, row, expired, lost, reqOnly>>

BeginEdit(q) ==
    /\ camp.status = "draft" /\ edits < MaxEdits
    /\ edits' = edits + 1
    /\ Read(q, "edit") /\ UNCHANGED submits

\* updateDraft saves the budget, after the uploads to S3.
SaveEdit(q) ==
    /\ req[q].pc = "edit"
    /\ camp' = Merge(req[q].copy, [budget |-> req[q].copy.budget + 1])
    /\ Done(q)
    /\ UNCHANGED <<row, expired, lost, bounds, reqOnly>>

BeginDelete(q) == camp.status = "draft" /\ Read(q, "delete") /\ UNCHANGED bounds

\* deleteDraftById: by id and owner, whatever the status is by now.
SaveDelete(q) ==
    /\ req[q].pc = "delete"
    /\ camp' = [camp EXCEPT !.status = "deleted"]
    /\ Done(q)
    /\ UNCHANGED <<row, expired, lost, bounds, reqOnly>>

BeginSubmit(q) ==
    /\ submits < MaxSubmits
    /\ submits' = submits + 1
    /\ UNCHANGED edits
    /\ \/ camp.status = "draft" /\ Read(q, "checkout")
       \/ camp.status = "pending_payment" /\ camp.pay = "pending" /\ Read(q, "look")

PaidRows == {i \in DOMAIN row : row[i].status = "paid"}

\* A retry looks for the checkout it replaces (findPaymentByCampaignId: a paid
\* row if there is one, else the latest) ...
LookForPending(q) ==
    /\ req[q].pc = "look"
    /\ IF PaidRows = {} /\ row # <<>> /\ row[Len(row)].status = "pending"
       THEN StepWith(q, "cancel", Len(row)) ELSE Step(q, "checkout")
    /\ UNCHANGED <<camp, row, expired, lost, bounds, reqOnly>>

\* Mutant of CancelPayment: the checkout being replaced is left as it is.
KeepPayment(q) ==
    /\ req[q].pc = "cancel"
    /\ Step(q, "checkout")
    /\ UNCHANGED <<camp, row, lost, expired, bounds, reqOnly>>

\* ... and cancels it, by id; the gateway is not told.
CancelPayment(q) ==
    /\ req[q].pc = "cancel"
    /\ row' = [row EXCEPT ![req[q].p].status = "cancelled"]
    /\ lost' = (lost \/ row[req[q].p].status = "paid")
    /\ Step(q, "checkout")
    /\ UNCHANGED <<camp, expired, bounds, reqOnly>>

\* initializePayment returns a checkout, or throws.
Checkout(q) ==
    /\ req[q].pc = "checkout"
    /\ Step(q, "status") \/ Done(q)
    /\ UNCHANGED <<camp, row, expired, lost, bounds, reqOnly>>

SaveSubmitted(q) ==
    /\ req[q].pc = "status"
    /\ camp' = Merge(req[q].copy, [status |-> "pending_payment", pay |-> "pending"])
    /\ Step(q, "row")
    /\ UNCHANGED <<row, expired, lost, bounds, reqOnly>>

\* createPayment; the brand gets the checkout URL with the answer.
CreatePayment(q) ==
    /\ req[q].pc = "row"
    /\ row' = Append(row, [status |-> "pending", amount |-> req[q].copy.budget])
    /\ Done(q)
    /\ UNCHANGED <<camp, expired, lost, bounds, reqOnly>>

BeginVerify(q) == Read(q, "find") /\ UNCHANGED bounds

\* verifyPayment looks at the row of an escrowId, or at the current one, and
\* returns at once when the campaign was live or the row is paid.
FindPayment(q, p) ==
    /\ req[q].pc = "find" /\ p \in DOMAIN row
    /\ IF req[q].copy.status = "live" \/ row[p].status = "paid"
       THEN Done(q) ELSE StepWith(q, "ask", p)
    /\ UNCHANGED <<camp, row, expired, lost, bounds, reqOnly>>

\* There is no row yet.
NoPayment(q) ==
    /\ req[q].pc = "find" /\ row = <<>>
    /\ Done(q)
    /\ UNCHANGED <<camp, row, expired, lost, bounds, reqOnly>>

\* Mutant of AskGateway: a status lookup that fails is taken for a success.
AskNobody(q) ==
    /\ req[q].pc = "ask"
    /\ Step(q, "payment") \/ Done(q)
    /\ UNCHANGED <<camp, row, expired, lost, bounds, reqOnly>>

\* verifyTransaction, which may fail for a charged checkout too.
AskGateway(q) ==
    /\ req[q].pc = "ask"
    /\ \/ req[q].p \in charged /\ Step(q, "payment")
       \/ Done(q)
    /\ UNCHANGED <<camp, row, expired, lost, bounds, reqOnly>>

SavePaid(q) ==
    /\ req[q].pc = "payment"
    /\ row' = [row EXCEPT ![req[q].p].status = "paid"]
    /\ Step(q, "campaign")
    /\ UNCHANGED <<camp, expired, lost, bounds, reqOnly>>

SaveVerified(q) ==
    /\ req[q].pc = "campaign"
    /\ OpenFrom(req[q].copy)
    /\ Done(q)
    /\ UNCHANGED <<row, lost, bounds, reqOnly>>

\* activateCampaign asks for selected applications, not for a payment.
BeginActivate(q) == camp.status # "active" /\ chosen /\ Read(q, "activate") /\ UNCHANGED bounds

SaveActive(q) ==
    /\ req[q].pc = "activate"
    /\ camp' = Merge(req[q].copy, [status |-> "active"])
    /\ Done(q)
    /\ UNCHANGED <<row, expired, lost, bounds, reqOnly>>

-----------------------------------------------------------------------------
(* The gateway and its webhooks.                                           *)

hookOnly == <<charged, chosen, req, cron, bounds>>

\* The brand pays an open checkout; a cancelled row does not close it.
Pay(p) ==
    /\ p \in DOMAIN row \ charged
    /\ charged' = charged \cup {p}
    /\ UNCHANGED <<camp, row, acked, chosen, expired, req, hook, cron, lost,
                   bounds, crashes>>

\* handlePaymentSuccess finds the row by its reference; the gateway may send
\* an event again even though it was answered.
ReceivePayment(h, p) ==
    /\ hook[h].pc = "idle" /\ p \in charged
    /\ hook' = [hook EXCEPT ![h] = [pc |-> "payment", p |-> p, seen |-> row[p].status,
                                     copy |-> NewCamp]]
    /\ UNCHANGED <<camp, row, acked, expired, lost, crashes, hookOnly>>

\* Mutant of HookSavesPayment: the handler stops at a row that is not pending.
HookSkipsPayment(h) ==
    /\ hook[h].pc = "payment"
    /\ row' = IF hook[h].seen # "pending" THEN row
              ELSE [row EXCEPT ![hook[h].p].status = "paid"]
    /\ hook' = [hook EXCEPT ![h].pc = "read"]
    /\ UNCHANGED <<camp, acked, expired, lost, crashes, hookOnly>>

HookSavesPayment(h) ==
    /\ hook[h].pc = "payment"
    /\ row' = IF hook[h].seen = "paid" THEN row
              ELSE [row EXCEPT ![hook[h].p].status = "paid"]
    /\ hook' = [hook EXCEPT ![h].pc = "read"]
    /\ UNCHANGED <<camp, acked, expired, lost, crashes, hookOnly>>

HookReadsCampaign(h) ==
    /\ hook[h].pc = "read"
    /\ hook' = [hook EXCEPT ![h].pc = "campaign", ![h].copy = camp]
    /\ UNCHANGED <<camp, row, acked, expired, lost, crashes, hookOnly>>

\* "Proceeding to set live anyway", whatever the status was.
HookOpens(h) ==
    /\ hook[h].pc = "campaign"
    /\ OpenFrom(hook[h].copy)
    /\ acked' = acked \cup {hook[h].p}
    /\ hook' = [hook EXCEPT ![h] = IdleHook]
    /\ UNCHANGED <<row, lost, crashes, hookOnly>>

-----------------------------------------------------------------------------
(* The creators, the clock and the hourly cron.                            *)

clockOnly == <<row, charged, acked, req, hook, lost, bounds, crashes>>

\* A creator applied while the campaign was live and was selected.
SelectCreator ==
    /\ camp.status = "live" /\ ~chosen
    /\ chosen' = TRUE
    /\ UNCHANGED <<camp, expired, cron, clockOnly>>

WindowPasses ==
    /\ camp.status = "live" /\ ~expired
    /\ expired' = TRUE
    /\ UNCHANGED <<camp, chosen, cron, clockOnly>>

\* findLiveCampaigns ...
ListLive(c) ==
    /\ cron[c] = "idle" /\ camp.status = "live" /\ expired
    /\ cron' = [cron EXCEPT ![c] = "write"]
    /\ UNCHANGED <<camp, chosen, expired, clockOnly>>

\* ... and, after the campaigns listed before it, this one is closed to
\* applications, even if it is not live any more.
SaveReviewing(c) ==
    /\ cron[c] = "write"
    /\ camp' = [camp EXCEPT !.status = "reviewing_applicant"]
    /\ cron' = [cron EXCEPT ![c] = "idle"]
    /\ UNCHANGED <<chosen, expired, clockOnly>>

-----------------------------------------------------------------------------
\* A process is killed between two of its writes.
Crash ==
    /\ crashes < MaxCrashes
    /\ crashes' = crashes + 1
    /\ \/ \E q \in Requests : req[q].pc # "idle" /\ Done(q) /\ UNCHANGED <<hook, cron>>
       \/ \E h \in Hooks : /\ hook[h].pc # "idle"
                           /\ hook' = [hook EXCEPT ![h] = IdleHook]
                           /\ UNCHANGED <<req, cron>>
       \/ \E c \in Crons : /\ cron[c] # "idle"
                           /\ cron' = [cron EXCEPT ![c] = "idle"]
                           /\ UNCHANGED <<req, hook>>
    /\ UNCHANGED <<camp, row, charged, acked, chosen, expired, lost, bounds>>

Begin(q) ==
    BeginEdit(q) \/ BeginDelete(q) \/ BeginSubmit(q) \/ BeginVerify(q) \/ BeginActivate(q)

GoOn(q) ==
    \/ SaveEdit(q) \/ SaveDelete(q) \/ SaveActive(q)
    \/ LookForPending(q) \/ CancelPayment(q) \/ Checkout(q)
    \/ SaveSubmitted(q) \/ CreatePayment(q)
    \/ NoPayment(q) \/ \E p \in DOMAIN row : FindPayment(q, p)
    \/ AskGateway(q) \/ SavePaid(q) \/ SaveVerified(q)

HookStep(h) == HookSavesPayment(h) \/ HookReadsCampaign(h) \/ HookOpens(h)

CronStep(c) == ListLive(c) \/ SaveReviewing(c)

Next ==
    \/ \E q \in Requests : Begin(q) \/ GoOn(q)
    \/ \E p \in 1 .. MaxSubmits : Pay(p)
    \/ \E h \in Hooks : HookStep(h) \/ \E p \in charged : ReceivePayment(h, p)
    \/ \E c \in Crons : CronStep(c)
    \/ SelectCreator \/ WindowPasses \/ Crash

Spec == Init /\ [][Next]_vars

(***************************************************************************)
(* Fairness: requests and handlers that have begun go on; the gateway      *)
(* sends a charge again until it is answered, and is not shut out for good.*)
(***************************************************************************)
Redeliver(p) == p \in charged \ acked /\ \E h \in Hooks : ReceivePayment(h, p)

Fairness ==
    /\ \A q \in Requests : WF_vars(GoOn(q))
    /\ \A h \in Hooks : WF_vars(HookStep(h))
    /\ \A p \in 1 .. MaxSubmits : SF_vars(Redeliver(p))

FairSpec == Spec /\ Fairness

-----------------------------------------------------------------------------
(* Properties.                                                             *)

\* The shape of every variable.
TypeOK ==
    /\ camp \in Camps
    /\ row \in Seq(Rows)
    /\ charged \in SUBSET (DOMAIN row)
    /\ acked \in SUBSET Nat
    /\ chosen \in BOOLEAN
    /\ expired \in BOOLEAN
    /\ req \in [Requests -> Reqs]
    /\ hook \in [Hooks -> HookRecs]
    /\ cron \in [Crons -> {"idle", "write"}]
    /\ lost \in BOOLEAN
    /\ edits \in Nat /\ submits \in Nat /\ crashes \in Nat

\* However the requests of the brand, the webhooks and the cron interleave, a
\* campaign is open to creators only if the gateway has charged a checkout of it.
OpenIsCharged == camp.status \in Opened => charged # {}

\* Payouts look for a paid row of the campaign: an open campaign has one, unless
\* a retry cancelled a row by id after a webhook had marked it paid.
OpenHasPaidRow == camp.status \in Opened /\ ~lost => PaidRows # {}

\* "cancel the existing stale pending payment so we get a clean slate" (campaigns.service
\* .ts:497): no two checkouts of a campaign wait to be paid.
OnePending ==
    \A i, j \in DOMAIN row : row[i].status = "pending" /\ row[j].status = "pending" => i = j

\* With one request of the brand at a time, a retry leaves no second checkout waiting to be
\* paid, whatever crashes and webhooks come between its steps, as long as no row is marked
\* paid: from then on a retry finds the paid row, not the checkout it replaces.
OnePendingUntilPaid == PaidRows = {} => OnePending

\* With one request at a time, funding keeps its promise: nothing opens before a
\* charge, an open campaign is not taken back, and a charge does open it.
Promise == INSTANCE FundingPromise WITH
    Payments <- 1 .. MaxSubmits,
    standing <- IF camp.status \in Opened THEN "open" ELSE "closed"

KeepsPromise == Promise!PromiseSpec
=============================================================================
