------------------------------ MODULE Payouts ------------------------------
(***************************************************************************)
(* The creator payouts of one campaign: payment_release rows, the midnight *)
(* payout cron (which runs on every PM2 instance), the Startbutton         *)
(* transfers it requests, the transfer webhooks, and the disputes that     *)
(* freeze and reopen a row.                                                *)
(*                                                                         *)
(* Nothing here runs in a database transaction: every awaited read, write  *)
(* and gateway call is a step of its own, and a process may stop between   *)
(* two of them.  A row is a Sequelize instance, whose update() writes a    *)
(* column only when it differs from the copy in memory (operator Saved).   *)
(***************************************************************************)
EXTENDS Naturals, Sequences

CONSTANTS
    Releases,      \* payment_release rows of the campaign
    Crons,         \* PM2 instances, each of which fires the cron
    Hooks,         \* webhook requests the server handles at one time
    Admins,        \* admin requests (activate, reject, resolve) at one time
    MaxAttempts,   \* bound: a row with this many transfers is not listed again
    MaxDisputes,   \* bound: disputes raised over one row
    MaxCrashes     \* bound: processes killed half-way

ASSUME ReleasesNonEmpty == Releases # {}
ASSUME BoundsNat == MaxAttempts \in Nat /\ MaxDisputes \in Nat /\ MaxCrashes \in Nat

VARIABLES
    rel,        \* status column of each row; "none" before the row is created
    due,        \* rows whose releaseDate has passed
    sub,        \* status of the content submission each row pays for
    escrow,     \* escrowStatus of the campaign's payment
    campaign,   \* status of the campaign
    xfer,       \* transfers prepared for each row, oldest first
    cron,       \* local state of each run of processPendingPayouts
    hook,       \* local state of each webhook handler
    dispute,    \* status of the latest dispute over each row
    raises,     \* number of disputes raised over each row
    blocking,   \* rows whose raiseDispute has saved the dispute, not the row
    admin,      \* local state of each admin request
    cause,      \* history: what weakened the "processing" lock of each row
    crashes     \* number of processes killed so far

vars == <<rel, due, sub, escrow, campaign, xfer, cron, hook,
          dispute, raises, blocking, admin, cause, crashes>>

RowStatus == {"none", "pending", "escrow_pending", "processing", "released",
              "failed", "disputed", "cancelled"}

\* The statuses findDuePendingReleases selects.
DueStatus == {"pending", "escrow_pending", "failed"}

(***************************************************************************)
(* A transfer is prepared when the cron locks the row (its payoutRef is    *)
(* new each time), then refused by the gateway or pending there, then      *)
(* settled; a settled success can still be reversed.  "unsent" is a        *)
(* refusal the cron has recorded, "lost" an instance that died holding it. *)
(***************************************************************************)
XferState == {"prepared", "refused", "unsent", "lost",
              "pending", "success", "failed", "reversed"}

\* The transfer has moved the money, or may still move it.
Moving == {"pending", "success"}

\* Moving, or some instance is still working on it.
Open == Moving \cup {"prepared", "refused"}

Causes == {"stale_copy", "lost_reply", "old_failure", "reopened"}

Active == {"raised", "under_review"}
DisputeStatus == Active \cup {"none", "rejected", "resolved"}

CronPc == {"idle", "next", "park", "lock", "request", "fail"}
Copies == [Releases -> RowStatus \cup {"absent"}]
CronRec == [pc : CronPc, list : Copies, cur : Releases, att : Nat]

HookPc == {"idle", "write", "count", "subs", "complete"}
Kinds == {"success", "failed"}
HookRec == [pc : HookPc, r : Releases, i : Nat, kind : Kinds]

Ops == {"activate", "reject", "resolve"}
AdminRec == [pc : {"idle", "save", "read", "write"}, op : Ops, r : Releases,
             copy : RowStatus, to : {"pending", "cancelled"}]

AnyRelease == CHOOSE r \in Releases : TRUE

IdleCron == [pc |-> "idle", list |-> [r \in Releases |-> "absent"],
             cur |-> AnyRelease, att |-> 0]
IdleHook == [pc |-> "idle", r |-> AnyRelease, i |-> 0, kind |-> "success"]
IdleAdmin == [pc |-> "idle", op |-> "activate", r |-> AnyRelease,
              copy |-> "none", to |-> "pending"]

Init ==
    /\ rel = [r \in Releases |-> "none"]
    /\ due = {}
    /\ sub = [r \in Releases |-> "livelink_available"]
    /\ escrow = "pending"
    /\ campaign = "active"
    /\ xfer = [r \in Releases |-> <<>>]
    /\ cron = [c \in Crons |-> IdleCron]
    /\ hook = [h \in Hooks |-> IdleHook]
    /\ dispute = [r \in Releases |-> "none"]
    /\ raises = [r \in Releases |-> 0]
    /\ blocking = {}
    /\ admin = [a \in Admins |-> IdleAdmin]
    /\ cause = [r \in Releases |-> {}]
    /\ crashes = 0

\* instance.update({status: new}) on a row read earlier as copy.
Saved(r, copy, new) == IF copy = new THEN rel ELSE [rel EXCEPT ![r] = new]

Blame(r, why, when) == IF when THEN [cause EXCEPT ![r] = @ \cup {why}] ELSE cause

-----------------------------------------------------------------------------
(* The rows, the clock and the escrow.                                     *)

rowVars == <<xfer, cron, hook, dispute, raises, blocking, admin, cause, crashes>>

\* approveLivePost: the submission is saved as done ...
ApproveSubmission(r) ==
    /\ sub[r] = "livelink_available"
    /\ sub' = [sub EXCEPT ![r] = "done"]
    /\ UNCHANGED <<rel, due, escrow, campaign, rowVars>>

\* ... and the release is created some awaits later, or never (the handler dies).
CreateRelease(r) ==
    /\ sub[r] = "done" /\ rel[r] = "none"
    /\ rel' = [rel EXCEPT ![r] = "pending"]
    /\ UNCHANGED <<due, sub, escrow, campaign, rowVars>>

\* The 30 days of a release are over.
DatePasses(r) ==
    /\ rel[r] # "none" /\ r \notin due
    /\ due' = due \cup {r}
    /\ UNCHANGED <<rel, sub, escrow, campaign, rowVars>>

\* Payment confirmation funds the escrow; activateCampaign does not wait for it.
FundEscrow ==
    /\ escrow = "pending"
    /\ escrow' = "funded"
    /\ UNCHANGED <<rel, due, sub, campaign, rowVars>>

-----------------------------------------------------------------------------
(* processPendingPayouts.                                                  *)

cronOnly == <<due, sub, escrow, campaign, hook, dispute, raises, blocking, admin>>

\* Mutants of Listed: stuck rows are listed too; parked rows wait for a webhook.
ListedWithLocked(r) ==
    r \in due /\ rel[r] \in DueStatus \cup {"processing"} /\ Len(xfer[r]) < MaxAttempts
ListedWithoutParked(r) ==
    r \in due /\ rel[r] \in {"pending", "failed"} /\ Len(xfer[r]) < MaxAttempts

\* findDuePendingReleases.
Listed(r) == r \in due /\ rel[r] \in DueStatus /\ Len(xfer[r]) < MaxAttempts

StartRun(c) ==
    /\ cron[c].pc = "idle"
    /\ \E r \in Releases : Listed(r)
    /\ cron' = [cron EXCEPT ![c] = [IdleCron EXCEPT !.pc = "next",
                   !.list = [r \in Releases |-> IF Listed(r) THEN rel[r] ELSE "absent"]]]
    /\ UNCHANGED <<rel, xfer, cause, crashes, cronOnly>>

\* One turn of the loop up to the escrow guard: the creator's bank details
\* may be missing, the payment may not be funded.
TakeNext(c, r) ==
    /\ cron[c].pc = "next" /\ cron[c].list[r] # "absent"
    /\ \E bankDetails \in BOOLEAN :
         cron' = [cron EXCEPT ![c] = [cron[c] EXCEPT !.cur = r,
                     !.pc = IF ~bankDetails THEN "fail"
                            ELSE IF escrow = "funded" THEN "lock" ELSE "park"]]
    /\ UNCHANGED <<rel, xfer, cause, crashes, cronOnly>>

EndRun(c) ==
    /\ cron[c].pc = "next"
    /\ \A r \in Releases : cron[c].list[r] = "absent"
    /\ cron' = [cron EXCEPT ![c] = IdleCron]
    /\ UNCHANGED <<rel, xfer, cause, crashes, cronOnly>>

\* The row changed after this instance read it.
Stale(c) == rel[cron[c].cur] # cron[c].list[cron[c].cur]

\* release.update by the cron.
CronWrites(c, new) ==
    LET r == cron[c].cur
        copy == cron[c].list[r]
    IN  /\ rel' = Saved(r, copy, new)
        /\ cause' = Blame(r, "stale_copy", new # copy /\ Stale(c))

\* The local state of an instance that is done with its current row.
TurnOver(c) == [pc |-> "next", list |-> [cron[c].list EXCEPT ![cron[c].cur] = "absent"],
                cur |-> cron[c].cur, att |-> 0]

\* Escrow not funded: the row is parked and finance is told.
Park(c) ==
    /\ cron[c].pc = "park"
    /\ CronWrites(c, "escrow_pending")
    /\ cron' = [cron EXCEPT ![c] = TurnOver(c)]
    /\ UNCHANGED <<xfer, crashes, cronOnly>>

\* Mutant of Lock: the gateway is called without saving "processing".
LockUnsaved(c) ==
    LET r == cron[c].cur
    IN  /\ cron[c].pc = "lock"
        /\ xfer' = [xfer EXCEPT ![r] = Append(@, "prepared")]
        /\ cron' = [cron EXCEPT ![c] = [cron[c] EXCEPT !.pc = "request", !.att = Len(xfer[r]) + 1]]
        /\ UNCHANGED <<rel, cause, crashes, cronOnly>>

\* "Lock the record status immediately before making the external API call".
Lock(c) ==
    LET r == cron[c].cur
    IN  /\ cron[c].pc = "lock"
        /\ CronWrites(c, "processing")
        /\ xfer' = [xfer EXCEPT ![r] = Append(@, "prepared")]
        /\ cron' = [cron EXCEPT ![c] =
                       [pc |-> "request", list |-> [cron[c].list EXCEPT ![r] = "processing"],
                        cur |-> r, att |-> Len(xfer[r]) + 1]]
        /\ UNCHANGED <<crashes, cronOnly>>

\* Mutant of Request: an accepted transfer is taken for a completed one.
RequestIsPaid(c) ==
    LET r == cron[c].cur
    IN  /\ cron[c].pc = "request"
        /\ xfer' = [xfer EXCEPT ![r][cron[c].att] = "pending"]
        /\ rel' = [rel EXCEPT ![r] = "released"]
        /\ cron' = [cron EXCEPT ![c] = TurnOver(c)]
        /\ UNCHANGED <<cause, crashes, cronOnly>>

\* requestPayout: accepted, refused, or accepted with the reply lost.
Request(c) ==
    LET r == cron[c].cur
        Answer(st) == xfer' = [xfer EXCEPT ![r][cron[c].att] = st]
        Throw == cron' = [cron EXCEPT ![c] = [cron[c] EXCEPT !.pc = "fail"]]
    IN  /\ cron[c].pc = "request"
        /\ \/ Answer("pending") /\ cron' = [cron EXCEPT ![c] = TurnOver(c)] /\ UNCHANGED cause
           \/ Answer("refused") /\ Throw /\ UNCHANGED cause
           \/ Answer("pending") /\ Throw /\ cause' = Blame(r, "lost_reply", TRUE)
        /\ UNCHANGED <<rel, crashes, cronOnly>>

\* The catch block: the row is saved as failed and listed again tomorrow.
Fail(c) ==
    LET r == cron[c].cur
        i == cron[c].att
    IN  /\ cron[c].pc = "fail"
        /\ CronWrites(c, "failed")
        /\ cron' = [cron EXCEPT ![c] = TurnOver(c)]
        /\ xfer' = IF i > 0 /\ xfer[r][i] = "refused"
                   THEN [xfer EXCEPT ![r][i] = "unsent"] ELSE xfer
        /\ UNCHANGED <<crashes, cronOnly>>

\* The instance dies; a transfer it had not sent is never sent.
CrashCron(c) ==
    LET r == cron[c].cur
        i == cron[c].att
    IN  /\ cron[c].pc # "idle" /\ crashes < MaxCrashes
        /\ crashes' = crashes + 1
        /\ cron' = [cron EXCEPT ![c] = IdleCron]
        /\ xfer' = IF i > 0 /\ xfer[r][i] \in {"prepared", "refused"}
                   THEN [xfer EXCEPT ![r][i] = "lost"] ELSE xfer
        /\ UNCHANGED <<rel, cause, cronOnly>>

-----------------------------------------------------------------------------
(* The gateway, and the webhooks it sends any number of times in any order.*)

gateOnly == <<rel, due, sub, escrow, campaign, cron, hook, dispute, raises,
              blocking, admin, cause, crashes>>

Settle(r, i) ==
    /\ xfer[r][i] = "pending"
    /\ \E st \in {"success", "failed"} : xfer' = [xfer EXCEPT ![r][i] = st]
    /\ UNCHANGED gateOnly

Reverse(r, i) ==
    /\ xfer[r][i] = "success"
    /\ xfer' = [xfer EXCEPT ![r][i] = "reversed"]
    /\ UNCHANGED gateOnly

\* The transfer events the gateway has sent about the i-th transfer of a row.
Sent(r, i, kind) ==
    \/ kind = "success" /\ xfer[r][i] \in {"success", "reversed"}
    \/ kind = "failed" /\ xfer[r][i] \in {"failed", "reversed"}

TargetOf(kind) == IF kind = "success" THEN "released" ELSE "failed"

hookOnly == <<due, sub, escrow, xfer, cron, dispute, raises, blocking, admin>>

\* Mutant of Receive: transfer.failed is not handled.
ReceiveSuccess(h, r, i, kind) ==
    /\ kind = "success"
    /\ hook[h].pc = "idle"
    /\ Sent(r, i, kind) /\ rel[r] # TargetOf(kind)
    /\ hook' = [hook EXCEPT ![h] = [pc |-> "write", r |-> r, i |-> i, kind |-> kind]]
    /\ UNCHANGED <<rel, campaign, cause, crashes, hookOnly>>

\* The handler finds the row by the UUID in the reference, and returns at
\* once when the row already has the status the event would give it.
Receive(h, r, i, kind) ==
    /\ hook[h].pc = "idle"
    /\ Sent(r, i, kind) /\ rel[r] # TargetOf(kind)
    /\ hook' = [hook EXCEPT ![h] = [pc |-> "write", r |-> r, i |-> i, kind |-> kind]]
    /\ UNCHANGED <<rel, campaign, cause, crashes, hookOnly>>

HookWrites(h) ==
    LET r == hook[h].r
        failure == hook[h].kind = "failed"
    IN  /\ hook[h].pc = "write"
        /\ rel' = [rel EXCEPT ![r] = TargetOf(hook[h].kind)]
        /\ cause' = Blame(r, "old_failure", failure /\ hook[h].i < Len(xfer[r]))
        /\ hook' = [hook EXCEPT ![h] = IF failure THEN IdleHook ELSE [@ EXCEPT !.pc = "count"]]
        /\ UNCHANGED <<campaign, crashes, hookOnly>>

\* checkAndCompleteCampaign: two counts, then the campaign.
CountReleases(h) ==
    /\ hook[h].pc = "count"
    /\ hook' = [hook EXCEPT ![h] = IF \E r \in Releases : rel[r] = "pending"
                                   THEN IdleHook ELSE [@ EXCEPT !.pc = "subs"]]
    /\ UNCHANGED <<rel, campaign, cause, crashes, hookOnly>>

CountSubmissions(h) ==
    /\ hook[h].pc = "subs"
    /\ hook' = [hook EXCEPT ![h] = IF \E r \in Releases : sub[r] # "done"
                                   THEN IdleHook ELSE [@ EXCEPT !.pc = "complete"]]
    /\ UNCHANGED <<rel, campaign, cause, crashes, hookOnly>>

CompleteCampaign(h) ==
    /\ hook[h].pc = "complete"
    /\ campaign' = "completed"
    /\ hook' = [hook EXCEPT ![h] = IdleHook]
    /\ UNCHANGED <<rel, cause, crashes, hookOnly>>

\* The handler dies; the gateway sends the event again.
CrashHook(h) ==
    /\ hook[h].pc # "idle" /\ crashes < MaxCrashes
    /\ crashes' = crashes + 1
    /\ hook' = [hook EXCEPT ![h] = IdleHook]
    /\ UNCHANGED <<rel, campaign, cause, hookOnly>>

-----------------------------------------------------------------------------
(* Disputes, as far as they read and write a release.                      *)

caseOnly == <<due, sub, escrow, campaign, xfer, cron, hook>>

\* raiseDispute: the dispute is created ...
RaiseDispute(r) ==
    /\ dispute[r] \notin Active /\ r \notin blocking
    /\ raises[r] < MaxDisputes
    /\ dispute' = [dispute EXCEPT ![r] = "raised"]
    /\ raises' = [raises EXCEPT ![r] = @ + 1]
    /\ blocking' = blocking \cup {r}
    /\ UNCHANGED <<rel, admin, cause, crashes, caseOnly>>

\* ... then the row, if there is one, is blocked whatever its status is.
BlockPayout(r) ==
    /\ r \in blocking
    /\ rel' = IF rel[r] = "none" THEN rel ELSE [rel EXCEPT ![r] = "disputed"]
    /\ blocking' = blocking \ {r}
    /\ UNCHANGED <<dispute, raises, admin, cause, crashes, caseOnly>>

adminOnly == <<raises, blocking, caseOnly>>

\* activateDispute, rejectDispute and resolveDispute read the dispute first.
\* A dispute with no row is settled where no payout of this module is touched.
Required(op) == IF op = "resolve" THEN "under_review" ELSE "raised"

OpenDispute(a, r, op) ==
    /\ admin[a].pc = "idle" /\ rel[r] # "none"
    /\ dispute[r] = Required(op)
    /\ admin' = [admin EXCEPT ![a].pc = "save", ![a].op = op, ![a].r = r]
    /\ UNCHANGED <<rel, dispute, cause, crashes, adminOnly>>

\* dispute.save(), after the calls to Stream when there are any.
SaveDispute(a) ==
    LET op == admin[a].op
        new == [activate |-> "under_review", reject |-> "rejected", resolve |-> "resolved"]
    IN  /\ admin[a].pc = "save"
        /\ dispute' = [dispute EXCEPT ![admin[a].r] = new[op]]
        /\ admin' = [admin EXCEPT ![a].pc = IF op = "activate" THEN "idle" ELSE "read"]
        /\ UNCHANGED <<rel, cause, crashes, adminOnly>>

\* Rejecting reopens a row that is still "disputed"; resolving cancels the row
\* (refund_to_brand) or reopens it (any other action) whatever its status is.
ReadRelease(a) ==
    LET r == admin[a].r
        none == admin[a].op = "reject" /\ rel[r] # "disputed"
    IN  /\ admin[a].pc = "read"
        /\ \E to \in (IF admin[a].op = "reject" THEN {"pending"} ELSE {"pending", "cancelled"}) :
             admin' = [admin EXCEPT ![a] = [admin[a] EXCEPT !.copy = rel[r], !.to = to,
                                              !.pc = IF none THEN "idle" ELSE "write"]]
        /\ UNCHANGED <<rel, dispute, cause, crashes, adminOnly>>

\* The payment of the row may already be on its way.
Underway(r) == \E i \in DOMAIN xfer[r] : xfer[r][i] \in Open

WriteRelease(a) ==
    LET r == admin[a].r
        to == admin[a].to
    IN  /\ admin[a].pc = "write"
        /\ rel' = Saved(r, admin[a].copy, to)
        /\ cause' = Blame(r, "reopened", to = "pending" /\ admin[a].copy # to /\ Underway(r))
        /\ admin' = [admin EXCEPT ![a] = IdleAdmin]
        /\ UNCHANGED <<dispute, crashes, adminOnly>>

\* The request dies between two of its writes.
CrashAdmin(a) ==
    /\ admin[a].pc # "idle" /\ crashes < MaxCrashes
    /\ crashes' = crashes + 1
    /\ admin' = [admin EXCEPT ![a] = IdleAdmin]
    /\ UNCHANGED <<rel, dispute, cause, adminOnly>>

-----------------------------------------------------------------------------
RowStep == \E r \in Releases : ApproveSubmission(r) \/ CreateRelease(r) \/ DatePasses(r)

CronStep(c) ==
    \/ StartRun(c) \/ EndRun(c) \/ Park(c) \/ Lock(c) \/ Request(c) \/ Fail(c)
    \/ \E r \in Releases : TakeNext(c, r)

GatewayStep == \E r \in Releases : \E i \in DOMAIN xfer[r] : Settle(r, i) \/ Reverse(r, i)

ReceiveAny(h) ==
    \E r \in Releases : \E i \in DOMAIN xfer[r] : \E kind \in Kinds : Receive(h, r, i, kind)

HookStep(h) ==
    HookWrites(h) \/ CountReleases(h) \/ CountSubmissions(h) \/ CompleteCampaign(h)

DisputeStep == \E r \in Releases : RaiseDispute(r) \/ BlockPayout(r)

AdminStep(a) ==
    \/ \E r \in Releases : \E op \in Ops : OpenDispute(a, r, op)
    \/ SaveDispute(a) \/ ReadRelease(a) \/ WriteRelease(a)

CrashStep ==
    \/ \E c \in Crons : CrashCron(c)
    \/ \E h \in Hooks : CrashHook(h)
    \/ \E a \in Admins : CrashAdmin(a)

Next ==
    \/ RowStep \/ FundEscrow \/ GatewayStep \/ DisputeStep \/ CrashStep
    \/ \E c \in Crons : CronStep(c)
    \/ \E h \in Hooks : ReceiveAny(h) \/ HookStep(h)
    \/ \E a \in Admins : AdminStep(a)

Spec == Init /\ [][Next]_vars

(***************************************************************************)
(* Fairness: the cron fires every midnight and the event loop resumes what *)
(* it has started; the gateway settles what it accepts and redelivers an   *)
(* event until it is handled, so no other traffic shuts it out for good.   *)
(* Nothing is assumed of people (approvals, disputes, admins) or crashes.  *)
(***************************************************************************)
MaxTransfers == 1 .. (MaxAttempts + 1)

SettleIf(r, i) == i \in DOMAIN xfer[r] /\ Settle(r, i)

ReceiveIf(r, i, kind) == i \in DOMAIN xfer[r] /\ \E h \in Hooks : Receive(h, r, i, kind)

Fairness ==
    /\ \A c \in Crons : WF_vars(CronStep(c))
    /\ \A h \in Hooks : WF_vars(HookStep(h))
    /\ \A r \in Releases : \A i \in MaxTransfers : WF_vars(SettleIf(r, i))
    /\ \A r \in Releases : \A i \in MaxTransfers : \A kind \in Kinds :
         SF_vars(ReceiveIf(r, i, kind))

FairSpec == Spec /\ Fairness

-----------------------------------------------------------------------------
(* Properties.                                                             *)

\* The shape of every variable.
TypeOK ==
    /\ rel \in [Releases -> RowStatus]
    /\ due \in SUBSET Releases
    /\ sub \in [Releases -> {"livelink_available", "done"}]
    /\ escrow \in {"pending", "funded"}
    /\ campaign \in {"active", "completed"}
    /\ xfer \in [Releases -> Seq(XferState)]
    /\ cron \in [Crons -> CronRec]
    /\ hook \in [Hooks -> HookRec]
    /\ dispute \in [Releases -> DisputeStatus]
    /\ raises \in [Releases -> Nat]
    /\ blocking \in SUBSET Releases
    /\ admin \in [Admins -> AdminRec]
    /\ cause \in [Releases -> SUBSET Causes]
    /\ crashes \in Nat

\* The payout cron pays a release once: two transfers of one row move money
\* only after one of the four named events let go of its "processing" lock,
\* i.e. an instance wrote over a row that had changed since it was listed, a
\* reply of the gateway was lost, a failure webhook of an earlier transfer was
\* handled, or a dispute decision reopened a row that was already on its way.
PaidOnceUnlessBlamed ==
    \A r \in Releases : cause[r] = {} =>
        \A i, j \in DOMAIN xfer[r] : xfer[r][i] \in Moving /\ xfer[r][j] \in Moving => i = j

\* A retry is safe: short of the same events, a row the next cron run would
\* list (a "failed" one above all) has no transfer that moved or may move money.
RetryIsSafe ==
    \A r \in Releases : cause[r] = {} /\ rel[r] \in DueStatus =>
        \A i \in DOMAIN xfer[r] : xfer[r][i] \notin Moving

\* Whatever instances, admins and webhooks do to a row, it says "released" only
\* if the gateway did complete a transfer of it (even if reversed since).
ReleasedWasPaid ==
    \A r \in Releases : rel[r] = "released" =>
        \E i \in DOMAIN xfer[r] : xfer[r][i] \in {"success", "reversed"}

\* The cron never abandons a row in "processing", which no later run lists: if
\* its last transfer was refused, the refusal was recorded over the lock.
RefusalUnlocks ==
    \A r \in Releases : rel[r] = "processing" =>
        xfer[r] # <<>> /\ xfer[r][Len(xfer[r])] # "unsent"

\* A due row of a funded campaign is served, were it parked as escrow_pending
\* before: no webhook unblocks parked rows, the daily list itself must.
DueIsServed ==
    \A r \in Releases :
        (Listed(r) /\ rel[r] \in {"pending", "escrow_pending"} /\ escrow = "funded")
            ~> rel[r] \notin {"pending", "escrow_pending"}

\* A locked row does not stay locked, unless the instance that held it died
\* before it sent the transfer: nothing lists "processing" rows again.
LockIsReleased ==
    \A r \in Releases :
        rel[r] = "processing" ~>
            (rel[r] # "processing" \/ \E i \in DOMAIN xfer[r] : xfer[r][i] = "lost")

\* payout.scheduler.ts:95, "Lock the record status immediately before making the
\* external API call to prevent concurrent cron executions / race conditions":
\* no two instances are calling the gateway for one release.
LockExcludesInstances ==
    \A c, d \in Crons :
        c # d /\ cron[c].pc = "request" /\ cron[d].pc = "request" => cron[c].cur # cron[d].cur

=============================================================================
