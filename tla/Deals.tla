------------------------------- MODULE Deals -------------------------------
(***************************************************************************)
(* The work of one creator for several brands, each with one campaign:     *)
(* drafts, vetting, one revision, the live post and its approval; the      *)
(* strikes a creator collects, by having a draft rejected (vetDraft) or by *)
(* not having shown up when a campaign ends (scanAndQueueRefunds); and the *)
(* block that follows from them.  No handler here asks for the campaign's  *)
(* status or for the block.                                                *)
(*                                                                         *)
(* The reads of a handler are one step with what comes before them; each   *)
(* write that another handler can see is a step.  What disputes do next is *)
(* in Settlement, and what becomes of a release in Payouts.                *)
(***************************************************************************)
EXTENDS Naturals, Sequences, FiniteSets, TLC

CONSTANTS
    Brands,         \* brands the creator has an accepted application with
    Amplified,      \* those whose campaign is 'Amplify Content': no draft is needed
    Timed,          \* those whose application has a timeline already
    Limit,          \* strikes that block a creator; 3 in the code
    Dealers,        \* requests handled at one time
    Sweeps,         \* PM2 instances, each of which fires the midnight cron
    MaxPosts,       \* bound: submissions of an amplified application
    MaxPardons,     \* bound: reactivations by staff
    MaxKills        \* bound: processes killed half-way

ASSUME DealBounds ==
    /\ Amplified \subseteq Brands /\ Timed \subseteq Brands
    /\ IsFiniteSet(Brands) /\ Brands # {}
    /\ Limit \in Nat \ {0}
    /\ MaxPosts \in Nat /\ MaxPardons \in Nat /\ MaxKills \in Nat

VARIABLES
    sub,        \* submissions of each application, oldest first
    line,       \* the timeline each application has saved: a status for each stage
    case,       \* disputes raised over a rejected draft of the brand
    rewards,    \* releases created by approving a live post
    strikes,    \* creatorStrikes: the brands that gave one
    active,     \* isActive
    ended,      \* campaigns that have ended
    closed,     \* of these, campaigns that have a refund row: no scan lists them
    chore, sweep,
    doubled,    \* history: deals two requests were at work on at one time, or with a
                \* second submission
    lost,       \* history: brands whose strike was written over by another
    spared,     \* history: a block was not written since its copy was outdated
    pardoned,   \* history: the strikes staff knew of when they reactivated the creator
    pardons, kills

deals == <<sub, line, case, rewards, doubled>>
creator == <<strikes, active, lost, spared>>
staff == <<pardoned, pardons>>
dealVars == <<deals, creator, staff, ended, closed, chore, sweep, kills>>

SubStatus == {"pending_approval", "request_revision", "revision-sent", "approved",
              "disputeraised", "livelink_available", "done"}

\* asked counts the revisions the brand has asked for (history).
SubRec == [status : SubStatus, asked : Nat]

Verdicts == {"approved", "request_revision", "rejected"}

\* Draft, its review, the revision, its review, live post, its review, payment.
Stages == {3, 4, 5, 6, 7, 8, 10}
StageStatus == {"pending", "in_progress", "completed", "disputed", "skipped"}
NoLine == [s \in {} |-> "pending"]

\* initCreatorApplicationTimeline; the default is that of a campaign that needs a draft.
Started(stage, skipped) ==
    [s \in Stages |-> IF s = stage THEN "in_progress"
                      ELSE IF s \in skipped THEN "skipped" ELSE "pending"]
DefaultLine == Started(3, {})
FirstLine(b) == IF b \in Amplified THEN Started(7, {3, 4, 5, 6}) ELSE DefaultLine

\* The copy of the creator a handler goes by.
User == [strikes : SUBSET Brands, active : BOOLEAN]
NoUser == [strikes |-> {}, active |-> TRUE]
AnyBrand == CHOOSE b \in Brands : TRUE

ChoreRec == [pc : {"idle", "draft", "raise", "strike", "vet", "post", "approve", "release"},
             b : Brands, i : Nat, to : Verdicts, user : User]
SweepRec == [pc : {"idle", "next", "strike", "refund"}, todo : SUBSET Brands, b : Brands,
             user : User]

NoChore == [pc |-> "idle", b |-> AnyBrand, i |-> 0, to |-> "approved", user |-> NoUser]
NoSweep == [pc |-> "idle", todo |-> {}, b |-> AnyBrand, user |-> NoUser]

InitDeals ==
    /\ sub = [b \in Brands |-> <<>>]
    /\ line = [b \in Brands |-> IF b \in Timed THEN FirstLine(b) ELSE NoLine]
    /\ case = [b \in Brands |-> 0]
    /\ rewards = [b \in Brands |-> 0]
    /\ strikes = {} /\ active = TRUE
    /\ ended = {} /\ closed = {}
    /\ chore = [q \in Dealers |-> NoChore]
    /\ sweep = [s \in Sweeps |-> NoSweep]
    /\ doubled = {} /\ lost = {} /\ spared = FALSE /\ pardoned = {}
    /\ pardons = 0 /\ kills = 0

-----------------------------------------------------------------------------
(* The timeline.                                                           *)

\* recordDraftSubmission and recordRevisedDraftSubmission: a stage is over, its review
\* begins, unless they are skipped.
Sent(l, stage) ==
    [s \in Stages |-> IF s = stage /\ l[s] # "skipped" THEN "completed"
                      ELSE IF s = stage + 1 /\ l[s] # "skipped" THEN "in_progress" ELSE l[s]]

\* recordDraftVetting.
Vetted(l, decision) ==
    [s \in Stages |->
        CASE s = 4 /\ decision # "rejected" /\ l[s] # "skipped" -> "completed"
          [] s \in {4, 6} /\ decision = "rejected" /\ l[s] = "in_progress" -> "disputed"
          [] s = 6 /\ decision = "approved" /\ l[s] = "in_progress" -> "completed"
          [] s = 7 /\ decision = "approved" -> "in_progress"
          [] s = 5 /\ decision = "request_revision" -> "in_progress"
          [] OTHER -> l[s]]

\* recordLivePostSubmission and recordLivePostApproval.
Posted(l) == [l EXCEPT ![7] = "completed", ![8] = "in_progress"]
Accepted(l) == [l EXCEPT ![8] = "completed", ![10] = "in_progress"]

Current(b) == IF line[b] = NoLine THEN DefaultLine ELSE line[b]

\* application.update({timeline}): the record functions change the timeline the instance
\* holds and hand it back, so that Sequelize compares it with itself and saves nothing;
\* only a timeline made for want of one is new.
SaveLine(b, new) == line' = IF line[b] = NoLine THEN [line EXCEPT ![b] = new] ELSE line

-----------------------------------------------------------------------------
(* Requests.                                                               *)

rest == <<creator, staff, ended, closed, sweep, kills>>

AtWork(b) == \E q \in Dealers : chore[q].pc # "idle" /\ chore[q].b = b

BeginDeal(q, b, r) ==
    /\ chore[q].pc = "idle"
    /\ chore' = [chore EXCEPT ![q] = r]
    /\ doubled' = IF AtWork(b) THEN doubled \cup {b} ELSE doubled
    /\ UNCHANGED <<sub, line, case, rewards, rest>>

FinishDeal(q) == chore' = [chore EXCEPT ![q] = NoChore]
GoDeal(q, pc) == chore' = [chore EXCEPT ![q].pc = pc]

New(status) == [status |-> status, asked |-> 0]
SetSub(b, i, status) ==
    sub' = [sub EXCEPT ![b][i] = [status |-> status,
                                  asked |-> @.asked + (IF status = "request_revision" THEN 1 ELSE 0)]]

\* submitDraft: the first draft, or the revision of the latest one if the brand asked.
BeginDraft(q, b) ==
    LET n == Len(sub[b])
    IN  /\ n > 0 => sub[b][n].status = "request_revision"
        /\ BeginDeal(q, b, [NoChore EXCEPT !.pc = "draft", !.b = b, !.i = n])

SendDraft(q) ==
    LET b == chore[q].b  i == chore[q].i
    IN  /\ chore[q].pc = "draft"
        /\ IF i = 0 THEN /\ sub' = [sub EXCEPT ![b] = Append(@, New("pending_approval"))]
                         /\ SaveLine(b, Sent(Current(b), 3))
                    ELSE /\ SetSub(b, i, "revision-sent")
                         /\ SaveLine(b, Sent(Current(b), 5))
        /\ FinishDeal(q)
        /\ UNCHANGED <<case, rewards, doubled, rest>>

\* Mutant of MayVet: a second revision may be asked for.
MayVetAgain(status, decision) ==
    \/ status = "pending_approval" /\ decision \in {"approved", "request_revision"}
    \/ status = "revision-sent"

\* vetDraft: a first draft cannot be rejected, and no second revision asked for.
MayVet(status, decision) ==
    \/ status = "pending_approval" /\ decision \in {"approved", "request_revision"}
    \/ status = "revision-sent" /\ decision \in {"approved", "rejected"}

BeginVet(q, b, i, decision) ==
    /\ MayVet(sub[b][i].status, decision)
    /\ BeginDeal(q, b, [NoChore EXCEPT !.pc = IF decision = "rejected" THEN "raise" ELSE "vet",
                                !.b = b, !.i = i, !.to = decision])

\* Mutant of RaiseOverDraft: the submission is saved along with the dispute.
RaiseAndSave(q) ==
    /\ chore[q].pc = "raise"
    /\ case' = [case EXCEPT ![chore[q].b] = @ + 1]
    /\ SetSub(chore[q].b, chore[q].i, "disputeraised")
    /\ chore' = [chore EXCEPT ![q] = [@ EXCEPT !.user = [strikes |-> strikes, active |-> active],
                                           !.pc = IF chore[q].b \in strikes THEN "vet" ELSE "strike"]]
    /\ UNCHANGED <<line, rewards, doubled, rest>>

\* A rejection raises a dispute, whether or not there is one already; then the creator
\* is read.
RaiseOverDraft(q) ==
    /\ chore[q].pc = "raise"
    /\ case' = [case EXCEPT ![chore[q].b] = @ + 1]
    /\ chore' = [chore EXCEPT ![q] = [@ EXCEPT !.user = [strikes |-> strikes, active |-> active],
                                           !.pc = IF chore[q].b \in strikes THEN "vet" ELSE "strike"]]
    /\ UNCHANGED <<sub, line, rewards, doubled, rest>>

\* Mutant of Blocks: the limit is exceeded before it blocks.
BlocksAbove(user, b) == Cardinality(user.strikes \cup {b}) > Limit

Blocks(user, b) == Cardinality(user.strikes \cup {b}) >= Limit

\* creator.save() of a handler that adds a strike of b to its copy: the strikes, and a
\* block if the copy was active.
SaveCreator(user, b) ==
    LET new == user.strikes \cup {b}
    IN  /\ strikes' = new
        /\ active' = (active /\ ~(Blocks(user, b) /\ user.active))
        /\ lost' = (lost \cup strikes) \ new
        /\ spared' = (Blocks(user, b) /\ ~user.active /\ active)

Strike(q) ==
    /\ chore[q].pc = "strike"
    /\ SaveCreator(chore[q].user, chore[q].b)
    /\ GoDeal(q, "vet")
    /\ UNCHANGED <<deals, staff, ended, closed, sweep, kills>>

DecisionStatus == [approved |-> "approved", request_revision |-> "request_revision",
                   rejected |-> "disputeraised"]

\* The submission and the timeline are saved last.
SaveVetted(q) ==
    LET b == chore[q].b
    IN  /\ chore[q].pc = "vet"
        /\ SetSub(b, chore[q].i, DecisionStatus[chore[q].to])
        /\ SaveLine(b, Vetted(Current(b), chore[q].to))
        /\ FinishDeal(q)
        /\ UNCHANGED <<case, rewards, doubled, rest>>

\* submitLivePost does not ask whether the draft was approved.
MayPost(status) == status \notin {"livelink_available", "done"}

BeginPost(q, b, i) ==
    /\ MayPost(sub[b][i].status)
    /\ BeginDeal(q, b, [NoChore EXCEPT !.pc = "post", !.b = b, !.i = i])

\* With the application's id in place of the submission's, and for an amplified
\* campaign, a new submission is made, approved from the start.
BeginAmplified(q, b) ==
    /\ b \in Amplified /\ Len(sub[b]) < MaxPosts
    /\ chore[q].pc = "idle"
    /\ sub' = [sub EXCEPT ![b] = Append(@, New("approved"))]
    /\ chore' = [chore EXCEPT ![q] = [NoChore EXCEPT !.pc = "post", !.b = b, !.i = Len(sub[b]) + 1]]
    /\ doubled' = IF AtWork(b) \/ sub[b] # <<>> THEN doubled \cup {b} ELSE doubled
    /\ UNCHANGED <<line, case, rewards, rest>>

SaveLink(q) ==
    LET b == chore[q].b
    IN  /\ chore[q].pc = "post"
        /\ SetSub(b, chore[q].i, "livelink_available")
        /\ SaveLine(b, Posted(Current(b)))
        /\ FinishDeal(q)
        /\ UNCHANGED <<case, rewards, doubled, rest>>

\* approveLivePost.
BeginApproval(q, b, i) ==
    /\ sub[b][i].status = "livelink_available"
    /\ BeginDeal(q, b, [NoChore EXCEPT !.pc = "approve", !.b = b, !.i = i])

SaveApproval(q) ==
    LET b == chore[q].b
    IN  /\ chore[q].pc = "approve"
        /\ SetSub(b, chore[q].i, "done")
        /\ SaveLine(b, Accepted(Current(b)))
        /\ GoDeal(q, "release")
        /\ UNCHANGED <<case, rewards, doubled, rest>>

CreateReward(q) ==
    /\ chore[q].pc = "release"
    /\ rewards' = [rewards EXCEPT ![chore[q].b] = @ + 1]
    /\ FinishDeal(q)
    /\ UNCHANGED <<sub, line, case, doubled, rest>>

\* reactivateCreator.
Reactivate ==
    /\ ~active /\ pardons < MaxPardons
    /\ pardons' = pardons + 1
    /\ active' = TRUE
    /\ pardoned' = strikes
    /\ UNCHANGED <<deals, strikes, lost, spared, ended, closed, chore, sweep, kills>>

-----------------------------------------------------------------------------
(* Campaigns that end, and the strikes of the nightly scan.                *)

sweepOnly == <<deals, staff, ended, chore, kills>>

\* A campaign completes when no submission is active, see Settlement; cancelCampaign
\* creates a release for everybody accepted, so nobody is struck for that.
End(b) ==
    /\ b \notin ended
    /\ \A i \in DOMAIN sub[b] : sub[b][i].status = "done"
    /\ ended' = ended \cup {b}
    /\ UNCHANGED <<deals, creator, staff, closed, chore, sweep, kills>>

SweepEnded(s) ==
    /\ sweep[s].pc = "idle" /\ ended \ closed # {}
    /\ sweep' = [sweep EXCEPT ![s] = [NoSweep EXCEPT !.pc = "next", !.todo = ended \ closed]]
    /\ UNCHANGED <<creator, closed, sweepOnly>>

\* The releases of the next campaign are read, and the creator if there is none.
TakeNextBrand(s, b) ==
    /\ sweep[s].pc = "next" /\ b \in sweep[s].todo
    /\ sweep' = [sweep EXCEPT ![s] =
           [pc |-> IF rewards[b] = 0 /\ b \notin strikes THEN "strike" ELSE "refund",
            todo |-> sweep[s].todo \ {b}, b |-> b,
            user |-> [strikes |-> strikes, active |-> active]]]
    /\ UNCHANGED <<creator, closed, sweepOnly>>

StrikeNoShow(s) ==
    /\ sweep[s].pc = "strike"
    /\ SaveCreator(sweep[s].user, sweep[s].b)
    /\ sweep' = [sweep EXCEPT ![s].pc = "refund"]
    /\ UNCHANGED <<closed, sweepOnly>>

\* The refund, of 0 if nothing is left, ends the campaign's turn.
CloseCampaign(s) ==
    /\ sweep[s].pc = "refund"
    /\ closed' = closed \cup {sweep[s].b}
    /\ sweep' = [sweep EXCEPT ![s] =
           IF sweep[s].todo = {} THEN NoSweep ELSE [NoSweep EXCEPT !.pc = "next", !.todo = sweep[s].todo]]
    /\ UNCHANGED <<creator, sweepOnly>>

\* A process is killed, or a call fails, between two of its writes.
CrashDeal ==
    /\ kills < MaxKills
    /\ kills' = kills + 1
    /\ \/ \E q \in Dealers : chore[q].pc # "idle" /\ FinishDeal(q) /\ UNCHANGED sweep
       \/ \E s \in Sweeps : /\ sweep[s].pc # "idle"
                           /\ sweep' = [sweep EXCEPT ![s] = NoSweep]
                           /\ UNCHANGED chore
    /\ UNCHANGED <<deals, creator, staff, ended, closed>>

-----------------------------------------------------------------------------
OnSubmission(q, b, i) ==
    BeginPost(q, b, i) \/ BeginApproval(q, b, i) \/ \E d \in Verdicts : BeginVet(q, b, i, d)

GoOnDealing(q) ==
    \/ SendDraft(q) \/ RaiseOverDraft(q) \/ Strike(q) \/ SaveVetted(q)
    \/ SaveLink(q) \/ SaveApproval(q) \/ CreateReward(q)

SweepStep(s) ==
    SweepEnded(s) \/ StrikeNoShow(s) \/ CloseCampaign(s) \/ \E b \in Brands : TakeNextBrand(s, b)

NextDeals ==
    \/ \E q \in Dealers : \/ GoOnDealing(q)
                           \/ \E b \in Brands : \/ BeginDraft(q, b) \/ BeginAmplified(q, b)
                                                \/ \E i \in DOMAIN sub[b] : OnSubmission(q, b, i)
    \/ \E s \in Sweeps : SweepStep(s)
    \/ \E b \in Brands : End(b)
    \/ Reactivate \/ CrashDeal

SpecDeals == InitDeals /\ [][NextDeals]_dealVars

-----------------------------------------------------------------------------
(* Properties.                                                             *)

\* The shape of every variable.
DealsTypeOK ==
    /\ sub \in [Brands -> Seq(SubRec)]
    /\ line \in [Brands -> [Stages -> StageStatus] \cup {NoLine}]
    /\ case \in [Brands -> Nat] /\ rewards \in [Brands -> Nat]
    /\ strikes \subseteq Brands /\ active \in BOOLEAN
    /\ closed \subseteq Brands /\ ended \subseteq Brands
    /\ chore \in [Dealers -> ChoreRec] /\ sweep \in [Sweeps -> SweepRec]
    /\ doubled \subseteq Brands /\ lost \subseteq Brands /\ pardoned \subseteq Brands
    /\ spared \in BOOLEAN
    /\ pardons \in 0 .. MaxPardons /\ kills \in 0 .. MaxKills

\* A draft is revised once, and a deal paid for once, unless two requests were at work on
\* it at one time or there is a second submission, as an amplified campaign gets when a
\* link is sent by the application's id again.
OncePerDeal ==
    \A b \in Brands \ doubled : rewards[b] <= 1 /\ \A i \in DOMAIN sub[b] : sub[b][i].asked <= 1

\* A rejected draft has its dispute and its strike, whatever was killed on the way,
\* unless another strike was saved over it.
RejectionIsComplete ==
    \A b \in Brands : (\E i \in DOMAIN sub[b] : sub[b][i].status = "disputeraised")
        => case[b] > 0 /\ b \in strikes \cup lost

\* A creator at the limit is blocked, unless staff reactivated the creator with these
\* strikes or while the last of them was being saved.
BlockedAtLimit ==
    Cardinality(strikes) >= Limit /\ active => strikes \subseteq pardoned \/ spared
=============================================================================
