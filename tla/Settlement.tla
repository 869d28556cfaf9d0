----------------------------- MODULE Settlement -----------------------------
(***************************************************************************)
(* Who is owed a campaign's budget once the work is under way: releases    *)
(* for creators (approveLivePost, resolveDispute, cancelCampaign), refunds *)
(* for the brand (resolveDispute, cancelCampaign, the nightly              *)
(* scanAndQueueRefunds) and the webhook that completes the campaign.       *)
(* Requests, webhooks and PM2 instances interleave between their awaited   *)
(* reads and writes.  How one row is then paid is Payouts and Refunds.     *)
(***************************************************************************)
EXTENDS Integers, Sequences, FiniteSets, Functions

CONSTANTS
    Creators,       \* creators whose application is accepted
    Budget,         \* totalBudget of the campaign
    AgreedFee,      \* feeRequest of each of them
    Deciders,       \* requests of the brand and of staff handled at one time
    Hooks,          \* webhook requests handled at one time
    Scans,          \* PM2 instances, each of which fires the midnight cron
    Deeds,          \* what requests do: a subset of {"approve", "resolve", "cancel"}
    MaxDisputes,    \* bound: disputes raised
    MaxCancels,     \* bound: calls of cancelCampaign
    MaxCrashes      \* bound: processes killed half-way

\* validateCreatorSelection accepts no more than the budget pays for.
ASSUME SettlementBounds ==
    /\ Budget \in Nat /\ AgreedFee \in Nat
    /\ MaxDisputes \in Nat /\ MaxCancels \in Nat /\ MaxCrashes \in Nat
    /\ IsFiniteSet(Creators) /\ Cardinality(Creators) * AgreedFee <= Budget

VARIABLES
    campaign,   \* the campaign's status; every status but two is "running"
    work,       \* status of a creator's submission, "none" before there is one
    dispute,    \* dispute rows, oldest first: creator, open
    release,    \* payment_release rows, oldest first
    refund,     \* amounts of the campaign_refund rows, oldest first
    job,        \* the request a process handles
    hook, scan,
    settled,    \* history: creators whose fee a dispute gave back, or half of it
    blame,      \* history: events after which the sums may not add up
    cancels, crashes

settlementVars == <<campaign, work, dispute, release, refund, job, hook, scan, settled,
                    blame, cancels, crashes>>

Ended == {"completed", "cancelled"}
CampaignStatus == Ended \cup {"running"}

\* countActiveSubmissions: there is a row, and it is neither done nor rejected.
ActiveWork == {"draft", "disputed", "live"}
WorkStatus == ActiveWork \cup {"none", "done"}

\* "underway" stands for escrow_pending, processing and failed.
RowStatus == {"pending", "underway", "released", "disputed", "cancelled"}

Decisions == {"creator", "brand", "split", "extend"}

Rows == [creator : Creators, amount : Nat, status : RowStatus, sent : Nat]

Nobody == [c \in Creators |-> 0]
NoDeed == [pc |-> "idle", d |-> 0, decision |-> "extend", row |-> 0, copy |-> <<>>,
           owe |-> Nobody, back |-> 0]
IdleScan == [pc |-> "idle", sum |-> 0]

\* Work has begun: applications are accepted, nothing has been submitted.
InitSettlement ==
    /\ campaign = "running"
    /\ work = [c \in Creators |-> "none"]
    /\ dispute = <<>> /\ release = <<>> /\ refund = <<>>
    /\ job = [q \in Deciders |-> NoDeed]
    /\ hook = [h \in Hooks |-> "idle"]
    /\ scan = [s \in Scans |-> IdleScan]
    /\ settled = {} /\ blame = {}
    /\ cancels = 0 /\ crashes = 0

Total(f, S) == FoldFunctionOnSet(+, 0, f, S)
Amounts == [i \in DOMAIN release |-> release[i].amount]
RowsOf(c) == {i \in DOMAIN release : release[i].creator = c}

\* sumPaymentReleases: every row, whatever its status.
SumReleases == Total(Amounts, DOMAIN release)

\* What has left the budget through a row, or will leave it.
Out(i) == release[i].amount * release[i].sent
            + (IF release[i].status \in {"pending", "disputed"} THEN release[i].amount ELSE 0)

CommittedNow == Total([i \in DOMAIN release |-> Out(i)], DOMAIN release)
                + Total(refund, DOMAIN refund)

When(event, condition) == IF condition THEN {event} ELSE {}

-----------------------------------------------------------------------------
(* Creators and brand at work: the steps of a submission that matter here. *)

bystanders == <<campaign, refund, job, hook, scan, settled, cancels, crashes>>

\* submitDraft and submitLivePost do not look at the campaign's status, and a
\* live link may follow a disputed draft.
Submit(c) ==
    /\ work[c] = "none"
    /\ work' = [work EXCEPT ![c] = "draft"]
    /\ UNCHANGED <<dispute, release, blame, bystanders>>

PostLive(c) ==
    /\ work[c] \in {"draft", "disputed"}
    /\ work' = [work EXCEPT ![c] = "live"]
    /\ UNCHANGED <<dispute, release, blame, bystanders>>

HasOpen(c) == \E d \in DOMAIN dispute : dispute[d] = [creator |-> c, open |-> TRUE]

NewDispute(c) ==
    /\ Len(dispute) < MaxDisputes
    /\ dispute' = Append(dispute, [creator |-> c, open |-> TRUE])

\* vetDraft rejects a revised draft and raises a dispute about it.
RejectDraft(c) ==
    /\ work[c] = "draft"
    /\ work' = [work EXCEPT ![c] = "disputed"]
    /\ NewDispute(c)
    /\ UNCHANGED <<release, blame, bystanders>>

\* findReleaseByCampaignAndCreator: any row of the creator, or none (0).
IsRowOf(c, r) == IF RowsOf(c) = {} THEN r = 0 ELSE r \in RowsOf(c)

SetStatus(r, from, to) ==
    release' = [i \in DOMAIN release |->
        IF i = r /\ release[i].status \in from THEN [release[i] EXCEPT !.status = to]
                                              ELSE release[i]]

\* raiseDispute freezes a release the creator has, in whatever status; what can
\* come between its two writes is in Payouts.
RaiseDispute(c, r) ==
    /\ ~HasOpen(c) /\ NewDispute(c)
    /\ IsRowOf(c, r) /\ SetStatus(r, RowStatus, "disputed")
    /\ blame' = blame \cup When("refrozen", r # 0 /\ release[r].status # "pending")
    /\ UNCHANGED <<work, bystanders>>

\* rejectDispute lets a frozen release go on.
DeclineDispute(d, r) ==
    /\ dispute[d].open
    /\ dispute' = [dispute EXCEPT ![d].open = FALSE]
    /\ IsRowOf(dispute[d].creator, r) /\ SetStatus(r, {"disputed"}, "pending")
    /\ UNCHANGED <<work, blame, bystanders>>

-----------------------------------------------------------------------------
(* Requests: approveLivePost, resolveDispute, cancelCampaign.              *)

others == <<hook, scan, cancels, crashes>>

Go(q, pc) == job' = [job EXCEPT ![q].pc = pc]
FinishDeed(q) == job' = [job EXCEPT ![q] = NoDeed]
GoOnDeed(q, pc, back) ==
    IF back > 0 THEN job' = [job EXCEPT ![q] = [@ EXCEPT !.pc = pc, !.back = back]]
                ELSE FinishDeed(q)
Owing(q) == {c \in Creators : job[q].owe[c] > 0}
Only(c, amount) == [e \in Creators |-> IF e = c THEN amount ELSE 0]
Subject(q) == dispute[job[q].d].creator

\* The leftover has been queued, or others compute it from rows already read.
TakenBefore(q) ==
    \/ refund # <<>>
    \/ \E s \in Scans : scan[s].pc = "queue"
    \/ \E p \in Deciders \ {q} : job[p].pc = "shares"

BeginApprove(q, c) ==
    /\ "approve" \in Deeds /\ job[q].pc = "idle" /\ work[c] = "live"
    /\ job' = [job EXCEPT ![q] = [NoDeed EXCEPT !.pc = "done", !.owe = Only(c, AgreedFee)]]
    /\ UNCHANGED <<campaign, work, dispute, release, refund, settled, blame, others>>

\* resolveDispute has read a dispute that is under review; the chat is frozen.
BeginResolve(q, d, decision) ==
    /\ "resolve" \in Deeds /\ job[q].pc = "idle" /\ dispute[d].open
    /\ job' = [job EXCEPT ![q] = [NoDeed EXCEPT !.pc = "resolve", !.d = d, !.decision = decision]]
    /\ UNCHANGED <<campaign, work, dispute, release, refund, settled, blame, others>>

SaveResolved(q) ==
    /\ job[q].pc = "resolve"
    /\ dispute' = [dispute EXCEPT ![job[q].d].open = FALSE]
    /\ Go(q, "read")
    /\ UNCHANGED <<campaign, work, release, refund, settled, blame, others>>

\* A creator with a release gets or loses what the row says ...
ReadRelease(q, r) ==
    /\ job[q].pc = "read" /\ r # 0 /\ IsRowOf(Subject(q), r)
    /\ job' = [job EXCEPT ![q] = [@ EXCEPT !.pc = "row", !.row = r, !.copy = release[r]]]
    /\ UNCHANGED <<campaign, work, dispute, release, refund, settled, blame, others>>

Halved(amount) == amount \div 2      \* Math.floor(amount * 0.5)

\* What resolveDispute writes into a row and queues for the brand.
NewStatus(q) == IF job[q].decision = "brand" THEN "cancelled" ELSE "pending"
NewAmount(q) ==
    IF job[q].decision = "split" THEN Halved(job[q].copy.amount) ELSE job[q].copy.amount
BackOf(q) == CASE job[q].decision = "brand" -> job[q].copy.amount
               [] job[q].decision = "split" -> job[q].copy.amount - NewAmount(q)
               [] OTHER -> 0

\* ... by an update of the columns that differ from the copy read before.
WriteRow(q) ==
    LET r == job[q].row  copy == job[q].copy
    IN  /\ job[q].pc = "row"
        /\ release' = [release EXCEPT
                ![r].status = IF NewStatus(q) = copy.status THEN @ ELSE NewStatus(q),
                ![r].amount = IF NewAmount(q) = copy.amount THEN @ ELSE NewAmount(q)]
        /\ blame' = blame \cup When("rewritten", release[r] # copy \/ copy.status # "disputed")
        /\ GoOnDeed(q, "refund", BackOf(q))
        /\ UNCHANGED <<campaign, work, dispute, refund, settled, others>>

\* A creator without one, at the vetting stage, gets a release or nothing.
NoRelease(q) ==
    LET c == Subject(q)
    IN  /\ job[q].pc = "read" /\ RowsOf(c) = {}
        /\ job' = [job EXCEPT ![q] =
              CASE job[q].decision = "creator" ->
                     [job[q] EXCEPT !.pc = "done", !.owe = Only(c, AgreedFee)]
                [] job[q].decision = "split" ->
                     [job[q] EXCEPT !.pc = "done", !.owe = Only(c, Halved(AgreedFee)),
                                    !.back = AgreedFee - Halved(AgreedFee)]
                [] job[q].decision = "brand" ->
                     [job[q] EXCEPT !.pc = "refund", !.back = AgreedFee]
                [] job[q].decision = "extend" -> NoDeed]
        /\ UNCHANGED <<campaign, work, dispute, release, refund, settled, blame, others>>

\* The submission is done ...
SaveDone(q) ==
    /\ job[q].pc = "done"
    /\ work' = [c \in Creators |->
                    IF c \in Owing(q) /\ work[c] # "none" THEN "done" ELSE work[c]]
    /\ Go(q, "release")
    /\ UNCHANGED <<campaign, dispute, release, refund, settled, blame, others>>

NewRow(c, amount) == [creator |-> c, amount |-> amount, status |-> "pending", sent |-> 0]

\* Creating a release for a creator who has one, or after the leftover was taken.
Blamed(q, c) ==
    When("late", TakenBefore(q)) \cup When("again", RowsOf(c) # {} \/ c \in settled)

\* Mutant of CreateRelease: a campaign that ended or a dispute blocks new releases.
ReleaseIfClear(q, c) ==
    /\ job[q].pc = "release" /\ c \in Owing(q)
    /\ release' = IF campaign \in Ended \/ HasOpen(c) THEN release
                  ELSE Append(release, NewRow(c, job[q].owe[c]))
    /\ blame' = blame \cup Blamed(q, c)
    /\ GoOnDeed(q, "refund", job[q].back)
    /\ UNCHANGED <<campaign, work, dispute, refund, settled, others>>

\* ... and after further reads its release is created.
CreateRelease(q, c) ==
    /\ job[q].pc = "release" /\ c \in Owing(q)
    /\ release' = Append(release, NewRow(c, job[q].owe[c]))
    /\ blame' = blame \cup Blamed(q, c)
    /\ GoOnDeed(q, "refund", job[q].back)
    /\ UNCHANGED <<campaign, work, dispute, refund, settled, others>>

OnlyBack(q) == job[q].decision = "brand" /\ job[q].row = 0

\* The brand's part of a decision is queued.
CreateRefund(q) ==
    /\ job[q].pc = "refund"
    /\ refund' = Append(refund, job[q].back)
    /\ settled' = settled \cup {Subject(q)}
    /\ blame' = blame \cup When("late", job[q].row = 0 /\ TakenBefore(q))
                      \cup When("again",
                                Subject(q) \in settled \/ (OnlyBack(q) /\ RowsOf(Subject(q)) # {}))
    /\ FinishDeed(q)
    /\ UNCHANGED <<campaign, work, dispute, release, others>>

BeginCancel(q) ==
    /\ "cancel" \in Deeds /\ job[q].pc = "idle" /\ campaign # "cancelled"
    /\ cancels < MaxCancels /\ cancels' = cancels + 1
    /\ job' = [job EXCEPT ![q] = [NoDeed EXCEPT !.pc = "cancel"]]
    /\ UNCHANGED <<campaign, work, dispute, release, refund, hook, scan, settled, blame, crashes>>

SaveCancelled(q) ==
    /\ job[q].pc = "cancel"
    /\ campaign' = "cancelled"
    /\ Go(q, "list")
    /\ UNCHANGED <<work, dispute, release, refund, settled, blame, others>>

\* Everyone accepted gets the fee, or half of it if nothing was submitted yet;
\* releases and refunds there may be already are not looked at.
ListShares(q) ==
    /\ job[q].pc = "list"
    /\ LET share == [c \in Creators |-> IF work[c] # "none" THEN AgreedFee
                                        ELSE AgreedFee - Halved(AgreedFee)]
       IN  job' = [job EXCEPT ![q] = [@ EXCEPT !.pc = "shares", !.owe = share,
                        !.back = IF Total(share, Creators) < Budget
                                 THEN Budget - Total(share, Creators) ELSE 0]]
    /\ UNCHANGED <<campaign, work, dispute, release, refund, settled, blame, others>>

CreateShare(q, c) ==
    /\ job[q].pc = "shares" /\ c \in Owing(q)
    /\ release' = Append(release, NewRow(c, job[q].owe[c]))
    /\ blame' = blame \cup Blamed(q, c)
    /\ job' = [job EXCEPT ![q].owe[c] = 0]
    /\ UNCHANGED <<campaign, work, dispute, refund, settled, others>>

CreateRemainder(q) ==
    /\ job[q].pc = "shares" /\ Owing(q) = {}
    /\ refund' = IF job[q].back > 0 THEN Append(refund, job[q].back) ELSE refund
    /\ blame' = blame \cup When("late", TakenBefore(q))
    /\ FinishDeed(q)
    /\ UNCHANGED <<campaign, work, dispute, release, settled, others>>

-----------------------------------------------------------------------------
(* Payouts, the webhook that completes the campaign, the nightly scan.     *)

\* The payout cron takes up a due row (see Payouts for what can go wrong).
TakeUp(i) ==
    /\ i \in DOMAIN release /\ release[i].status = "pending"
    /\ release' = [release EXCEPT ![i].status = "underway", ![i].sent = @ + 1]
    /\ UNCHANGED <<campaign, work, dispute, refund, job, hook, scan, settled, blame,
                   cancels, crashes>>

\* handleTransferSuccess releases the row ...
ReceiveTransfer(h, i) ==
    /\ hook[h] = "idle"
    /\ i \in DOMAIN release /\ release[i].sent > 0 /\ release[i].status # "released"
    /\ release' = [release EXCEPT ![i].status = "released"]
    /\ hook' = [hook EXCEPT ![h] = "releases"]
    /\ UNCHANGED <<campaign, work, dispute, refund, job, scan, settled, blame,
                   cancels, crashes>>

hookOnly == <<work, dispute, release, refund, job, scan, settled, blame,
                   cancels, crashes>>

\* ... and completes the campaign when no release is pending ...
CountReleases(h) ==
    /\ hook[h] = "releases"
    /\ hook' = [hook EXCEPT ![h] =
            IF \E i \in DOMAIN release : release[i].status = "pending" THEN "idle" ELSE "work"]
    /\ UNCHANGED <<campaign, hookOnly>>

\* ... and no submission is active.
CountSubmissions(h) ==
    /\ hook[h] = "work"
    /\ hook' = [hook EXCEPT ![h] =
            IF \E c \in Creators : work[c] \in ActiveWork THEN "idle" ELSE "campaign"]
    /\ UNCHANGED <<campaign, hookOnly>>

Complete(h) ==
    /\ hook[h] = "campaign"
    /\ campaign' = "completed"
    /\ hook' = [hook EXCEPT ![h] = "idle"]
    /\ UNCHANGED hookOnly

scanOnly == <<campaign, work, dispute, release, job, hook, settled, cancels, crashes>>

\* findEndedCampaignsWithoutRefund.
ListEnded(s) ==
    /\ scan[s].pc = "idle" /\ campaign \in Ended /\ refund = <<>>
    /\ scan' = [scan EXCEPT ![s].pc = "sum"]
    /\ UNCHANGED <<refund, blame, scanOnly>>

\* A split has halved a row and has not queued the other half yet.
HalfSplit == \E q \in Deciders : job[q].pc = "refund" /\ job[q].row # 0 /\ job[q].decision = "split"

\* Mutant of SumUp: only what has been paid out is subtracted from the budget.
SumUpReleased(s) ==
    /\ scan[s].pc = "sum"
    /\ scan' = [scan EXCEPT ![s] = [pc |-> "queue",
            sum |-> Total(Amounts, {i \in DOMAIN release : release[i].status = "released"})]]
    /\ blame' = blame \cup When("late", HalfSplit)
    /\ UNCHANGED <<refund, scanOnly>>

\* The campaigns listed before this one, and its creators' strikes, come first.
SumUp(s) ==
    /\ scan[s].pc = "sum"
    /\ scan' = [scan EXCEPT ![s] = [pc |-> "queue", sum |-> SumReleases]]
    /\ blame' = blame \cup When("late", HalfSplit)
    /\ UNCHANGED <<refund, scanOnly>>

\* A row of 0 marks the campaign as processed when nothing is left.
QueueLeftover(s) ==
    /\ scan[s].pc = "queue"
    /\ refund' = Append(refund, IF scan[s].sum < Budget THEN Budget - scan[s].sum ELSE 0)
    /\ blame' = blame \cup When("late", refund # <<>>)
    /\ scan' = [scan EXCEPT ![s] = IdleScan]
    /\ UNCHANGED scanOnly

-----------------------------------------------------------------------------
\* A process is killed between two of its writes.
CrashDeed ==
    /\ crashes < MaxCrashes
    /\ crashes' = crashes + 1
    /\ \/ \E q \in Deciders : /\ job[q].pc # "idle"
                              /\ FinishDeed(q)
                              /\ blame' = blame \cup {"crash"}
                              /\ UNCHANGED <<hook, scan>>
       \/ \E h \in Hooks : /\ hook[h] # "idle"
                           /\ hook' = [hook EXCEPT ![h] = "idle"]
                           /\ UNCHANGED <<job, scan, blame>>
       \/ \E s \in Scans : /\ scan[s].pc # "idle"
                           /\ scan' = [scan EXCEPT ![s] = IdleScan]
                           /\ UNCHANGED <<job, hook, blame>>
    /\ UNCHANGED <<campaign, work, dispute, release, refund, settled, cancels>>

MaybeRow == {0} \cup DOMAIN release

People ==
    \/ \E c \in Creators : Submit(c) \/ PostLive(c) \/ RejectDraft(c)
                            \/ \E r \in MaybeRow : RaiseDispute(c, r)
    \/ \E d \in DOMAIN dispute, r \in MaybeRow : DeclineDispute(d, r)

BeginDeed(q) ==
    \/ \E c \in Creators : BeginApprove(q, c)
    \/ \E d \in DOMAIN dispute, decision \in Decisions : BeginResolve(q, d, decision)
    \/ BeginCancel(q)

GoOnWithDeeds(q) ==
    \/ SaveResolved(q) \/ (\E r \in MaybeRow : ReadRelease(q, r)) \/ WriteRow(q)
    \/ NoRelease(q) \/ SaveDone(q) \/ CreateRefund(q)
    \/ (\E c \in Creators : CreateRelease(q, c) \/ CreateShare(q, c))
    \/ SaveCancelled(q) \/ ListShares(q) \/ CreateRemainder(q)

HookStep(h) == CountReleases(h) \/ CountSubmissions(h) \/ Complete(h)

ScanStep(s) == ListEnded(s) \/ SumUp(s) \/ QueueLeftover(s)

NextSettlement ==
    \/ People
    \/ \E q \in Deciders : BeginDeed(q) \/ GoOnWithDeeds(q)
    \/ \E i \in DOMAIN release : TakeUp(i) \/ \E h \in Hooks : ReceiveTransfer(h, i)
    \/ \E h \in Hooks : HookStep(h)
    \/ \E s \in Scans : ScanStep(s)
    \/ CrashDeed

SpecSettlement == InitSettlement /\ [][NextSettlement]_settlementVars

-----------------------------------------------------------------------------
(* Properties.                                                             *)

\* The shape of every variable.
SettlementTypeOK ==
    /\ campaign \in CampaignStatus
    /\ work \in [Creators -> WorkStatus]
    /\ dispute \in Seq([creator : Creators, open : BOOLEAN])
    /\ release \in Seq(Rows)
    /\ refund \in Seq(0 .. Budget)
    /\ \A q \in Deciders : job[q].pc \in {"idle", "resolve", "read", "row", "done", "release",
                                            "refund", "cancel", "list", "shares"}
    /\ hook \in [Hooks -> {"idle", "releases", "work", "campaign"}]
    /\ \A s \in Scans : scan[s].pc \in {"idle", "sum", "queue"} /\ scan[s].sum \in Nat
    /\ settled \subseteq Creators
    /\ blame \subseteq {"late", "again", "refrozen", "rewritten", "crash"}
    /\ cancels \in 0 .. MaxCancels
    /\ crashes \in 0 .. MaxCrashes

\* Without disputes that give money back and requests that die half-way.
Undisputed == blame = {} /\ settled = {} /\ \A q \in Deciders : job[q].pc # "refund"

\* Whatever is approved, disputed, split and cancelled, and whenever it is, no more
\* than the budget is released and refunded, unless a row was created after the
\* leftover had been taken or for a creator who had one, or a dispute froze or
\* rewrote a row that payouts or another decision had moved on meanwhile.  Once the
\* leftover is queued, it is all of the budget, unless a dispute gives money back.
WithinBudget ==
    /\ blame \subseteq {"crash"} => CommittedNow <= Budget
    /\ Undisputed /\ refund # <<>> => CommittedNow = Budget

\* A creator whose submission is done has a release, or the request that marked it
\* done is about to create one, unless it died half-way.
DoneIsOwed ==
    "crash" \in blame \/ \A c \in Creators : work[c] = "done" =>
        RowsOf(c) # {} \/ \E q \in Deciders : job[q].pc = "release" /\ c \in Owing(q)
=============================================================================
