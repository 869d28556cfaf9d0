------------------------------ MODULE Selection ------------------------------
(***************************************************************************)
(* The applications to one funded campaign: creators apply while it is     *)
(* live; the hourly cron moves it to 'reviewing_applicant' 48 hours after  *)
(* its approval; the brand selects, accepts and rejects, one by one or in  *)
(* a batch, within the budget; it activates the campaign; staff pause and  *)
(* resume it.                                                              *)
(*                                                                         *)
(* Requests interleave between their awaited writes.  The reads that come  *)
(* before a write are one step; they are copies by the time it is made,    *)
(* and an update writes the columns that differ from its copy.  The        *)
(* branches for callers in the role 'admin' or 'superadmin' are left out:  *)
(* no role has these names, so every review is the owning brand's.         *)
(***************************************************************************)
EXTENDS Integers, FiniteSets, Functions

CONSTANTS
    Apps,           \* creators who may apply, and their applications
    Fee,            \* feeRequest of each application
    Pool,           \* what the campaign has for its creators
    Requests,       \* requests of the brand and of staff handled at one time
    Timers          \* PM2 instances, each of which fires the hourly cron

ASSUME SelectionBounds ==
    /\ Fee \in [Apps -> Nat] /\ IsFiniteSet(Apps)
    /\ Pool \in Nat

VARIABLES
    camp,       \* status of the campaign
    status,     \* status of each application, "none" before there is one
    timed,      \* applications that have their timeline of stages 3 to 10
    applying,   \* creators who were let in and whose application is not yet created
    req,
    timer,      \* instances that have listed the campaign as live and overdue
    worst       \* history: the worst that has happened to the decisions, see below

selectionVars == <<camp, status, timed, applying, req, timer, worst>>

CampStatus == {"live", "reviewing_applicant", "active", "paused"}
Choices == {"selected", "accepted", "rejected", "pending"}
AppStatus == Choices \cup {"none"}

Chosen == {"selected", "accepted"}
Committed == {a \in Apps : status[a] \in Chosen}
FeesOf(S) == FoldFunctionOnSet(+, 0, Fee, S)

NoReview == [pc |-> "idle", to |-> "pending", ids |-> {}, camp |-> "live",
             copy |-> [a \in Apps |-> "none"], todo |-> {}]

InitSelection ==
    /\ camp = "live"
    /\ status = [a \in Apps |-> "none"]
    /\ timed = {} /\ applying = {}
    /\ req = [q \in Requests |-> NoReview]
    /\ timer = {}
    /\ worst = 0

\* A creator applied while the campaign was being activated; the brand took back a choice
\* on an active campaign, staff made one active by resuming it, or a request was killed;
\* two requests were deciding at one time.
Late == 1
Loose == 2
Raced == 3
Worsen(level, happened) == worst' = IF happened /\ worst < level THEN level ELSE worst

\* A request that has read what it goes by decides until it ends.
Decides(q) == req[q].pc # "idle"
Busy == \E q \in Requests : Decides(q)

BeginReviewing(q, r) ==
    /\ req[q].pc = "idle"
    /\ req' = [req EXCEPT ![q] = r]
    /\ Worsen(Raced, Busy)
    /\ UNCHANGED <<camp, status, timed, applying, timer>>

FinishReview(q) == req' = [req EXCEPT ![q] = NoReview]

\* application.update: the status is written if it differs from the copy.
Write(q, a, new) ==
    status' = IF new = req[q].copy[a] THEN status ELSE [status EXCEPT ![a] = new]

-----------------------------------------------------------------------------
(* Creators and time.                                                      *)

\* applyToCampaign has read the campaign, which must be live, and found no application ...
BeginApply(a) ==
    /\ camp = "live" /\ status[a] = "none" /\ a \notin applying
    /\ applying' = applying \cup {a}
    /\ UNCHANGED <<camp, status, timed, req, timer, worst>>

\* ... and creates one; a unique index refuses a second.
CreateApplication(a) ==
    /\ a \in applying
    /\ applying' = applying \ {a}
    /\ status' = [status EXCEPT ![a] = "pending"]
    /\ Worsen(Late, camp # "live" \/ Busy)
    /\ UNCHANGED <<camp, timed, req, timer>>

\* processApplicationWindowExpirations lists the campaigns that are live, past their
\* 48 hours ...
ListLive(t) ==
    /\ t \notin timer /\ camp = "live"
    /\ timer' = timer \cup {t}
    /\ UNCHANGED <<camp, status, timed, applying, req, worst>>

\* ... and moves them, whatever became of them since.
CloseWindow(t) ==
    /\ t \in timer
    /\ camp' = "reviewing_applicant"
    /\ timer' = timer \ {t}
    /\ UNCHANGED <<status, timed, applying, req, worst>>

-----------------------------------------------------------------------------
(* validateCreatorSelection.                                               *)

\* Mutant of Fits: only the creators that are being chosen are counted.
FitsAlone(S) == FeesOf(S) <= Pool

\* The fees of who is chosen and of who was chosen before must fit in the pool.
Fits(S) == FeesOf(Committed \cup S) <= Pool

-----------------------------------------------------------------------------
(* reviewCampaignApplication: one application.                             *)

\* A second "selected" takes the selection back.
Wanted(a, choice) ==
    IF choice = "selected" /\ status[a] = "selected" THEN "pending" ELSE choice

\* The budget is not asked for what is accepted already, and an accepted creator of an
\* active campaign cannot be rejected.
MayBecome(a, to) ==
    /\ status[a] # "none"
    /\ to = "selected" \/ (to = "accepted" /\ status[a] # "accepted") => Fits({a})
    /\ to = "rejected" => ~(status[a] = "accepted" /\ camp = "active")

BeginReview(q, a, choice) ==
    LET to == Wanted(a, choice) IN
    /\ MayBecome(a, to)
    /\ BeginReviewing(q, [NoReview EXCEPT !.pc = "write", !.to = to, !.ids = {a}, !.camp = camp,
                             !.copy[a] = status[a]])

\* An application accepted on an active campaign gets its timeline at once; on any other
\* campaign it gets one when that is activated.
WriteReview(q, a) ==
    /\ req[q].pc = "write" /\ a \in req[q].ids
    /\ Write(q, a, req[q].to)
    /\ timed' = IF req[q].to = "accepted" /\ req[q].camp = "active" THEN timed \cup {a} ELSE timed
    /\ Worsen(Loose, camp = "active" /\ req[q].to \in {"selected", "pending"})
    /\ FinishReview(q)
    /\ UNCHANGED <<camp, applying, timer>>

-----------------------------------------------------------------------------
(* reviewCampaignApplicationsBatch.                                        *)

BeginBatch(q, S, to) ==
    /\ S # {} /\ \A a \in S : status[a] # "none"
    /\ to \in Chosen => Fits(S)
    /\ BeginReviewing(q, [NoReview EXCEPT !.pc = "item", !.to = to, !.ids = S, !.camp = camp,
                                          !.todo = S])

\* Everybody else, the accepted ones too.
Others(q) == {a \in Apps \ req[q].ids : status[a] \notin {"none", "rejected"}}

\* The next one; once it has promoted the campaign, its copy of that is active.
TakeNextItem(q, left) ==
    req' = [req EXCEPT ![q].pc = "item", ![q].todo = left,
                       ![q].camp = IF req[q].to = "accepted" THEN "active" ELSE @]

\* Mutant of GoOnWith: the batch ends without a word to those who were not chosen.
EndWith(q, left) ==
    IF left # {} THEN TakeNextItem(q, left) ELSE FinishReview(q)

\* The next application of the batch; after the last, if they are accepted, the others.
GoOnWith(q, left) ==
    IF left # {} THEN TakeNextItem(q, left)
    ELSE IF req[q].to # "accepted" \/ Others(q) = {} THEN FinishReview(q)
    ELSE req' = [req EXCEPT ![q].pc = "rest", ![q].todo = Others(q)]

\* Each application is read and written in its turn; a brand that would reject an accepted
\* one is refused there and then, and what the batch has written stays.
ReviewItem(q, a) ==
    LET left == req[q].todo \ {a} IN
    /\ req[q].pc = "item" /\ a \in req[q].todo
    /\ IF status[a] = "accepted" /\ req[q].to = "rejected"
       THEN FinishReview(q) /\ UNCHANGED <<status, timed, worst>>
       ELSE /\ status' = [status EXCEPT ![a] = req[q].to]
            /\ timed' = IF req[q].to = "accepted" THEN timed \cup {a} ELSE timed
            /\ Worsen(Loose, camp = "active" /\ req[q].to \in {"selected", "pending"})
            /\ IF req[q].to = "accepted" THEN req' = [req EXCEPT ![q].pc = "promote", ![q].todo = left]
               ELSE GoOnWith(q, left)
    /\ UNCHANGED <<camp, applying, timer>>

\* "When a brand accepts an application, promote the campaign to active": a write if the
\* copy is not active.
Promote(q) ==
    /\ req[q].pc = "promote"
    /\ camp' = IF req[q].camp = "active" THEN camp ELSE "active"
    /\ GoOnWith(q, req[q].todo)
    /\ UNCHANGED <<status, timed, applying, timer, worst>>

RejectRest(q, a) ==
    /\ req[q].pc = "rest" /\ a \in req[q].todo
    /\ status' = [status EXCEPT ![a] = "rejected"]
    /\ IF req[q].todo = {a} THEN FinishReview(q) ELSE req' = [req EXCEPT ![q].todo = @ \ {a}]
    /\ UNCHANGED <<camp, timed, applying, timer, worst>>

-----------------------------------------------------------------------------
(* activateCampaign.                                                       *)

\* Lists the applications, of which one at least must be selected.
BeginActivate(q) ==
    /\ camp # "active" /\ Committed # {} /\ Fits(Committed)
    /\ BeginReviewing(q, [NoReview EXCEPT !.pc = "accept", !.copy = status, !.todo = Committed])

AcceptSelected(q, a) ==
    /\ req[q].pc = "accept" /\ a \in req[q].todo
    /\ Write(q, a, "accepted")
    /\ timed' = timed \cup {a}
    /\ req' = [req EXCEPT ![q].todo = @ \ {a},
                          ![q].pc = IF req[q].todo = {a} THEN "decline" ELSE "accept"]
    /\ UNCHANGED <<camp, applying, timer, worst>>

\* Who was pending when the applications were listed is rejected.
Waiting(q) == {a \in Apps : req[q].copy[a] = "pending"}

DeclineRest(q, a) ==
    /\ req[q].pc = "decline" /\ a \in Waiting(q)
    /\ Write(q, a, "rejected")
    /\ req' = [req EXCEPT ![q].copy[a] = "rejected"]
    /\ UNCHANGED <<camp, timed, applying, timer, worst>>

Activate(q) ==
    /\ req[q].pc = "decline" /\ Waiting(q) = {}
    /\ camp' = "active"
    /\ FinishReview(q)
    /\ UNCHANGED <<status, timed, applying, timer, worst>>

-----------------------------------------------------------------------------
(* Staff pause the campaign and resume it.                                 *)

Pause ==
    /\ camp # "paused"
    /\ camp' = "paused"
    /\ UNCHANGED <<status, timed, applying, req, timer, worst>>

\* resumeCampaign goes by whether an application is accepted ...
BeginResume(q) ==
    /\ camp = "paused"
    /\ BeginReviewing(q, [NoReview EXCEPT !.pc = "resume",
                     !.camp = IF \E a \in Apps : status[a] = "accepted" THEN "active" ELSE "live"])

\* ... not by what the campaign was before.
SaveResume(q) ==
    /\ req[q].pc = "resume"
    /\ camp' = req[q].camp
    /\ Worsen(Loose, camp' = "active")
    /\ FinishReview(q)
    /\ UNCHANGED <<status, timed, applying, timer>>

\* A request is killed, or fails, between two of its steps.
CrashReview(q) ==
    /\ req[q].pc # "idle"
    /\ FinishReview(q)
    /\ Worsen(Loose, TRUE)
    /\ UNCHANGED <<camp, status, timed, applying, timer>>

\* Bound: once two requests have raced the brand asks for nothing more, since the
\* properties say nothing of what follows.
Requested(q) ==
    /\ worst < Raced
    /\ \/ \E a \in Apps, to \in Choices : BeginReview(q, a, to)
       \/ \E S \in SUBSET Apps, to \in Choices : BeginBatch(q, S, to)
       \/ BeginActivate(q)

GoOnReviewing(q) ==
    \/ Promote(q) \/ Activate(q) \/ SaveResume(q) \/ CrashReview(q)
    \/ \E a \in Apps : \/ WriteReview(q, a) \/ ReviewItem(q, a) \/ RejectRest(q, a)
                       \/ AcceptSelected(q, a) \/ DeclineRest(q, a)

NextSelection ==
    \/ \E q \in Requests : Requested(q) \/ BeginResume(q) \/ GoOnReviewing(q)
    \/ \E t \in Timers : ListLive(t) \/ CloseWindow(t)
    \/ \E a \in Apps : BeginApply(a) \/ CreateApplication(a)
    \/ Pause

SpecSelection == InitSelection /\ [][NextSelection]_selectionVars

-----------------------------------------------------------------------------
(* Properties.                                                             *)

\* The shape of every variable.
SelectionTypeOK ==
    /\ camp \in CampStatus
    /\ status \in [Apps -> AppStatus]
    /\ timed \subseteq {a \in Apps : status[a] # "none"}
    /\ applying \subseteq {a \in Apps : status[a] = "none"}
    /\ req \in [Requests -> [pc : {"idle", "write", "item", "promote", "rest", "accept",
                                   "decline", "resume"},
                             to : Choices, ids : SUBSET Apps, camp : CampStatus,
                             copy : [Apps -> AppStatus], todo : SUBSET Apps]]
    /\ timer \subseteq Timers
    /\ worst \in 0 .. Raced

\* The creators a brand has chosen can be paid from the pool, whatever it selected,
\* took back, accepted and activated before, unless two requests decided at one time.
PoolHolds == worst < Raced => FeesOf(Committed) <= Pool

\* An active campaign has a creator to work for it, every accepted creator has the
\* timeline the stages are recorded in, and nobody waits for an answer: unless requests
\* raced, one was killed, the brand took an accepted creator back, or the campaign became
\* active by being resumed.  Who applied while it was being activated may wait.
ActiveIsSettled ==
    camp = "active" /\ ~Busy /\ worst < Loose =>
        /\ \E a \in Apps : status[a] = "accepted"
        /\ \A a \in Apps : status[a] = "accepted" => a \in timed
        /\ worst < Late => \A a \in Apps : status[a] \notin {"pending", "selected"}

=============================================================================
