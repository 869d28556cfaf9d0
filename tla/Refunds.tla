------------------------------ MODULE Refunds ------------------------------
(***************************************************************************)
(* How the refund rows of one campaign are paid back to the brand: the     *)
(* nightly processPendingRefunds on every PM2 instance, which tries a      *)
(* reversal at the gateway, then a bank payout, then parks the row; and    *)
(* the refund webhooks.  Each awaited read, write and gateway call is a    *)
(* step.  Which rows there are and what they amount to is Settlement.      *)
(***************************************************************************)
EXTENDS Naturals

CONSTANTS
    MaxRefunds,     \* bound: rows of the campaign (one, unless disputes add some)
    Crons,          \* PM2 instances, each of which fires the midnight cron
    Hooks,          \* webhook requests handled at one time
    MaxCrashes      \* bound: processes killed half-way

ASSUME RefundBounds == MaxRefunds \in Nat /\ MaxCrashes \in Nat

VARIABLES
    rows,       \* number of rows so far; rows 1 .. rows exist, the last is the latest
    status,     \* of each row; "parked" is pending_bank_details
    due,        \* rows whose releaseDate has passed
    funded,     \* escrowStatus of the campaign's payment is funded or completed
    bank,       \* the brand has bank details on file
    asked,      \* requests for the row the gateway has accepted
    reversals,  \* of these, reversals of the brand's payment
    outcome,    \* results the gateway has for reversals of the row
    told,       \* results whose webhook has been answered
    cron, hook,
    cause,      \* history: why a row may have gone wrong
    crashes

vars == <<rows, status, due, funded, bank, asked, reversals, outcome, told, cron, hook,
          cause, crashes>>

Refunds == 1 .. MaxRefunds
Existing == 1 .. rows
Status == {"pending", "completed", "failed", "parked"}
Results == {"success", "failed"}
Causes == {"stale", "lost", "crash", "mistaken", "overtaken"}

\* What an instance has in hand: the row r, and what it saves in the end (to).
Idle == [pc |-> "idle", todo |-> {}, r |-> 0, hasBank |-> FALSE, to |-> "pending"]
CronRecs == [pc : {"idle", "next", "reverse", "payout", "save"}, todo : SUBSET Refunds,
             r : Nat, hasBank : BOOLEAN, to : Status]

IdleHook == [pc |-> "idle", r |-> 0, t |-> 0, kind |-> "success"]
HookRecs == [pc : {"idle", "write"}, r : Nat, t : Nat, kind : Results]

Init ==
    /\ rows = 0
    /\ status = [r \in Refunds |-> "pending"]
    /\ due = {}
    /\ funded = FALSE /\ bank \in BOOLEAN
    /\ asked = [r \in Refunds |-> 0]
    /\ reversals = [r \in Refunds |-> 0]
    /\ outcome = [r \in Refunds |-> {}]
    /\ told = [r \in Refunds |-> {}]
    /\ cron = [c \in Crons |-> Idle]
    /\ hook = [h \in Hooks |-> IdleHook]
    /\ cause = [r \in Refunds |-> {}]
    /\ crashes = 0

Working(c, r) == cron[c].r = r /\ cron[c].pc \in {"reverse", "payout", "save"}

Blame(r, why, condition) ==
    cause' = IF condition THEN [cause EXCEPT ![r] = @ \cup {why}] ELSE cause

-----------------------------------------------------------------------------
(* The world around: new rows, dates, the escrow, the brand's profile.     *)

world == <<status, asked, reversals, outcome, told, cron, hook, cause, crashes>>

\* createRefund of a dispute or of the leftover.
QueueRefund ==
    /\ rows < MaxRefunds
    /\ rows' = rows + 1
    /\ UNCHANGED <<due, funded, bank, world>>

DatePasses(r) ==
    /\ r \in Existing \ due
    /\ due' = due \cup {r}
    /\ UNCHANGED <<rows, funded, bank, world>>

FundEscrow ==
    /\ ~funded /\ funded' = TRUE
    /\ UNCHANGED <<rows, due, bank, world>>

GiveBankDetails ==
    /\ ~bank /\ bank' = TRUE
    /\ UNCHANGED <<rows, due, funded, world>>

-----------------------------------------------------------------------------
(* processPendingRefunds on instance c.                                    *)

cronOnly == <<rows, due, funded, bank, outcome, told, hook, crashes>>

\* Mutant of Listed: refunds that failed are tried again, as payouts are.
ListedWithFailed == {r \in Existing \cap due : status[r] \in {"pending", "failed"}}

Listed == {r \in Existing \cap due : status[r] = "pending"}

Between(todo) == [pc |-> "next", todo |-> todo, r |-> 0, hasBank |-> FALSE, to |-> "pending"]

ListPending(c) ==
    /\ cron[c].pc = "idle" /\ Listed # {}
    /\ cron' = [cron EXCEPT ![c] = Between(Listed)]
    /\ UNCHANGED <<status, asked, reversals, cause, cronOnly>>

\* The next row of the list, with the brand's profile as it is now.  Without a
\* funded escrow the row is passed over.
TakeNext(c, r) ==
    /\ cron[c].pc = "next" /\ r \in cron[c].todo
    /\ cron' = [cron EXCEPT ![c] =
            IF funded THEN [pc |-> "reverse", todo |-> cron[c].todo \ {r}, r |-> r,
                            hasBank |-> bank, to |-> "pending"]
                      ELSE Between(cron[c].todo \ {r})]
    /\ Blame(r, "stale", funded /\ (r \notin Listed \/ \E d \in Crons : Working(d, r)))
    /\ UNCHANGED <<status, asked, reversals, cronOnly>>

EndRun(c) ==
    /\ cron[c].pc = "next" /\ cron[c].todo = {}
    /\ cron' = [cron EXCEPT ![c] = Idle]
    /\ UNCHANGED <<status, asked, reversals, cause, cronOnly>>

InHand(c, pc, to) ==
    cron' = [cron EXCEPT ![c] = [pc |-> pc, todo |-> cron[c].todo, r |-> cron[c].r,
                                 hasBank |-> cron[c].hasBank, to |-> to]]

\* The gateway accepts a request of c for its row.
Accept(c) == asked' = [asked EXCEPT ![cron[c].r] = @ + 1]

\* initiateRefund is accepted, refused, or accepted with the reply lost; an error
\* of either kind leads on to the bank, or to a parked row.
Reverse(c) ==
    LET r == cron[c].r
        fallback == IF cron[c].hasBank THEN InHand(c, "payout", "pending")
                                       ELSE InHand(c, "save", "parked")
    IN  /\ cron[c].pc = "reverse"
        /\ \/ /\ Accept(c)
              /\ reversals' = [reversals EXCEPT ![r] = @ + 1]
              /\ \/ InHand(c, "save", "completed") /\ UNCHANGED cause
                 \/ fallback /\ Blame(r, "lost", TRUE)
           \/ fallback /\ UNCHANGED <<asked, reversals, cause>>
        /\ UNCHANGED <<status, cronOnly>>

\* requestPayout to the brand's account likewise; an error makes the row fail.
PayOut(c) ==
    /\ cron[c].pc = "payout"
    /\ \/ /\ Accept(c)
          /\ \/ InHand(c, "save", "completed") /\ UNCHANGED cause
             \/ InHand(c, "save", "failed") /\ Blame(cron[c].r, "lost", TRUE)
       \/ InHand(c, "save", "failed") /\ UNCHANGED <<asked, cause>>
    /\ UNCHANGED <<status, reversals, cronOnly>>

\* Mutant of Save: the row is left pending for the webhook to complete.
SaveLater(c) ==
    /\ cron[c].pc = "save"
    /\ UNCHANGED status
    /\ Blame(cron[c].r, "overtaken", status[cron[c].r] # "pending")
    /\ cron' = [cron EXCEPT ![c] = Between(cron[c].todo)]
    /\ UNCHANGED <<asked, reversals, cronOnly>>

\* refund.update by id, whatever a webhook or another instance has written since.
Save(c) ==
    /\ cron[c].pc = "save"
    /\ status' = [status EXCEPT ![cron[c].r] = cron[c].to]
    /\ Blame(cron[c].r, "overtaken", status[cron[c].r] # "pending")
    /\ cron' = [cron EXCEPT ![c] = Between(cron[c].todo)]
    /\ UNCHANGED <<asked, reversals, cronOnly>>

\* The instance dies; a row it had a request out for is still pending.
CrashCron(c) ==
    /\ cron[c].pc # "idle" /\ crashes < MaxCrashes
    /\ crashes' = crashes + 1
    /\ cron' = [cron EXCEPT ![c] = Idle]
    /\ IF cron[c].pc = "save" THEN Blame(cron[c].r, "crash", TRUE) ELSE UNCHANGED cause
    /\ UNCHANGED <<status, asked, reversals, rows, due, funded, bank, outcome, told, hook>>

-----------------------------------------------------------------------------
(* The gateway and the refund webhooks.                                    *)

hookOnly == <<rows, due, funded, bank, asked, reversals, cron>>

\* A reversal succeeds or fails in the end.
Settle(r, kind) ==
    /\ reversals[r] > 0 /\ kind \notin outcome[r]
    /\ outcome[r] = {} \/ reversals[r] > 1
    /\ outcome' = [outcome EXCEPT ![r] = @ \cup {kind}]
    /\ UNCHANGED <<status, told, hook, cause, crashes, hookOnly>>

StatusOf(kind) == IF kind = "success" THEN "completed" ELSE "failed"

\* The event carries the reference of the brand's payment, so the row is looked
\* up through the campaign: the latest one, which need not be the row reversed.
\* The handler stops at once when that row has the status of the event already.
Receive(h, r, kind) ==
    /\ hook[h].pc = "idle"
    /\ r \in Existing /\ kind \in outcome[r]
    /\ IF status[rows] = StatusOf(kind)
       THEN told' = [told EXCEPT ![r] = @ \cup {kind}] /\ UNCHANGED hook
       ELSE /\ hook' = [hook EXCEPT ![h] = [pc |-> "write", r |-> r, t |-> rows, kind |-> kind]]
            /\ UNCHANGED told
    /\ Blame(r, "mistaken", rows # r)
    /\ UNCHANGED <<status, outcome, crashes, hookOnly>>

\* Mutant of WriteHook: transfers that failed are only logged.
WriteSuccess(h) ==
    LET t == hook[h].t
    IN  /\ hook[h].pc = "write"
        /\ status' = IF hook[h].kind = "failed" THEN status
                     ELSE [status EXCEPT ![t] = StatusOf(hook[h].kind)]
        /\ told' = [told EXCEPT ![hook[h].r] = @ \cup {hook[h].kind}]
        /\ Blame(t, "mistaken", t # hook[h].r)
        /\ hook' = [hook EXCEPT ![h] = IdleHook]
        /\ UNCHANGED <<outcome, crashes, hookOnly>>

WriteHook(h) ==
    LET t == hook[h].t
    IN  /\ hook[h].pc = "write"
        /\ status' = [status EXCEPT ![t] = StatusOf(hook[h].kind)]
        /\ told' = [told EXCEPT ![hook[h].r] = @ \cup {hook[h].kind}]
        /\ Blame(t, "mistaken", t # hook[h].r)
        /\ hook' = [hook EXCEPT ![h] = IdleHook]
        /\ UNCHANGED <<outcome, crashes, hookOnly>>

\* A webhook process dies; the gateway sends the event again.
CrashHook(h) ==
    /\ hook[h].pc # "idle" /\ crashes < MaxCrashes
    /\ crashes' = crashes + 1
    /\ hook' = [hook EXCEPT ![h] = IdleHook]
    /\ UNCHANGED <<status, outcome, told, cause, hookOnly>>

-----------------------------------------------------------------------------
CronStep(c) ==
    \/ ListPending(c) \/ (\E r \in Refunds : TakeNext(c, r)) \/ EndRun(c)
    \/ Reverse(c) \/ PayOut(c) \/ Save(c)

Next ==
    \/ QueueRefund \/ FundEscrow \/ GiveBankDetails
    \/ \E r \in Refunds : DatePasses(r)
    \/ \E c \in Crons : CronStep(c) \/ CrashCron(c)
    \/ \E r \in Refunds, kind \in Results : \/ Settle(r, kind)
                                           \/ \E h \in Hooks : Receive(h, r, kind)
    \/ \E h \in Hooks : WriteHook(h) \/ CrashHook(h)

Spec == Init /\ [][Next]_vars

\* A run that has begun goes on, and the cron fires every night.
FairSpec == Spec /\ \A c \in Crons : WF_vars(CronStep(c))

-----------------------------------------------------------------------------
(* Properties.                                                             *)

\* The shape of every variable.
TypeOK ==
    /\ rows \in 0 .. MaxRefunds
    /\ status \in [Refunds -> Status]
    /\ due \subseteq Refunds
    /\ funded \in BOOLEAN /\ bank \in BOOLEAN
    /\ asked \in [Refunds -> Nat]
    /\ reversals \in [Refunds -> Nat]
    /\ outcome \in [Refunds -> SUBSET Results]
    /\ told \in [Refunds -> SUBSET Results]
    /\ cron \in [Crons -> CronRecs]
    /\ hook \in [Hooks -> HookRecs]
    /\ cause \in [Refunds -> SUBSET Causes]
    /\ crashes \in Nat

\* The gateway is asked for a refund at most once, by reversal or by payout, unless
\* the reply was lost, an instance died holding it, or it came from a stale list.
AskedOnce ==
    \A r \in Refunds : asked[r] > 1 => cause[r] \cap {"stale", "lost", "crash"} # {}

\* A row is completed only if the gateway has accepted a request for it, unless a
\* webhook about another row of the campaign was taken for its own.
CompletedWasAsked ==
    \A r \in Refunds : status[r] = "completed" => asked[r] > 0 \/ "mistaken" \in cause[r]

\* Once the webhook of a failed reversal has been answered the row is failed, unless
\* the cron's own update came after it, a success was reported as well, or a webhook
\* was taken for another row's.
FailureIsSeen ==
    \A r \in Refunds :
        ("failed" \in told[r] /\ outcome[r] = {"failed"}
            /\ cause[r] \cap {"mistaken", "overtaken"} = {}) => status[r] = "failed"

\* A refund that is due does not stay pending once the escrow is funded.
DueIsServed ==
    \A r \in Refunds : (r \in due /\ funded /\ status[r] = "pending") ~> status[r] # "pending"

=============================================================================
