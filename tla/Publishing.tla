----------------------------- MODULE Publishing -----------------------------
(***************************************************************************)
(* What staff prepare and the clock acts on: a broadcast or a news article *)
(* with a date at which it goes out, and a Social Impact campaign with a   *)
(* date at which it ends and reminders before that.  One item is followed, *)
(* of a kind that is chosen at the start.                                  *)
(*                                                                         *)
(* Staff requests read the row and write it later; a tick of the clock     *)
(* lists what is due and acts on it later.  Ticks come every minute for    *)
(* broadcasts (one worker of the cluster each) and for articles, every     *)
(* hour for campaigns (every instance).  Dates are in fifths of a tick.    *)
(***************************************************************************)
EXTENDS Integers

CONSTANTS
    Kinds,         \* kinds of item to consider
    Staff,         \* staff requests handled at one time
    Instances,     \* PM2 instances
    Dates,         \* dates that staff may give, in fifths of a tick
    Horizon,       \* bound: the tick at which time stands still
    MaxIncidents   \* bound: staff requests on the item, dispatches that fail and
                   \* processes that are killed, together

ASSUME PublishingConstants ==
    /\ Kinds \subseteq {"broadcast", "article", "campaign"}
    /\ Dates \subseteq Nat \ {0} /\ Staff \cap Instances = {}
    /\ Horizon \in Nat /\ MaxIncidents \in Nat

VARIABLES
    kind,       \* the kind of the item, never changed
    now,        \* the current tick
    item,       \* the row: status; at, the date; stage, a campaign's second copy of
                \* the date, the one that was last published or announced; since,
                \* when the campaign was published
    staff,      \* requests: what each has read
    cron,       \* the tick each instance is at: what it has listed
    ticked,     \* instances that have begun the current tick
    dispatch,   \* dispatchBroadcast runs, of a request or of an instance
    told,       \* dispatches that reached (some of) the audience
    linked,     \* the participant of the campaign has submitted a live link
    reminded,   \* reminders the participant has been sent
    stale,      \* history: a request was saved over a row that had changed
    early,      \* history: the clock acted on an item that it had listed, and
                \* that had not changed, before its date
    edits, fails, crashes

history == <<stale, early>>
bounds == <<edits, fails, crashes>>
vars == <<kind, now, item, staff, cron, ticked, dispatch, told, linked, reminded, history, bounds>>

NoDate == 0
Clock == 5 * now
Runners == Staff \cup Instances

NoItem == [status |-> "none", at |-> NoDate, stage |-> NoDate, since |-> 0]
Gone == {"none", "deleted"}
Idle == [busy |-> FALSE, seen |-> NoItem]

Init ==
    /\ kind \in Kinds
    /\ now = 0
    /\ item = NoItem
    /\ staff = [s \in Staff |-> Idle]
    /\ cron = [c \in Instances |-> Idle]
    /\ ticked = {}
    /\ dispatch = [p \in Runners |-> "off"]
    /\ told = 0
    /\ linked = FALSE /\ reminded = {}
    /\ stale = FALSE /\ early = FALSE
    /\ edits = 0 /\ fails = 0 /\ crashes = 0

Due(x) == x.at # NoDate /\ x.at <= Clock

MayHappen == edits + fails + crashes < MaxIncidents

-----------------------------------------------------------------------------
(* Staff requests.                                                         *)

\* A row is created; a broadcast that is to be sent is dispatched in background.
CreateBroadcast(s, status, date) ==
    /\ kind = "broadcast" /\ (status = "scheduled" => date > Clock)
    /\ item' = [NoItem EXCEPT !.status = status,
                              !.at = IF status = "scheduled" THEN date ELSE NoDate]
    /\ dispatch' = [dispatch EXCEPT ![s] = IF status = "sent" THEN "begin" ELSE @]

CreateArticle(status, date) ==
    /\ kind = "article"
    /\ item' = [NoItem EXCEPT !.at = date,
                              !.status = IF status = "scheduled" /\ date <= Clock
                                         THEN "published" ELSE status]
    /\ UNCHANGED dispatch

CreateCampaign(status, date) ==
    /\ kind = "campaign"
    /\ item' = [status |-> status, at |-> date, stage |-> date, since |-> Clock]
    /\ UNCHANGED dispatch

Create(s) ==
    /\ item.status = "none" /\ dispatch[s] = "off"
    /\ \E date \in Dates :
         \/ \E status \in {"draft", "scheduled", "sent"} : CreateBroadcast(s, status, date)
         \/ \E status \in {"draft", "scheduled", "published"} : CreateArticle(status, date)
         \/ \E status \in {"draft", "active"} : CreateCampaign(status, date)
    /\ UNCHANGED <<kind, now, staff, cron, ticked, told, linked, reminded, stale, early, bounds>>

\* A request reads the row it is about.
BeginEdit(s) ==
    /\ ~staff[s].busy /\ dispatch[s] = "off" /\ item.status \notin Gone /\ MayHappen
    /\ staff' = [staff EXCEPT ![s] = [busy |-> TRUE, seen |-> item]]
    /\ edits' = edits + 1
    /\ UNCHANGED <<kind, now, item, cron, ticked, dispatch, told, linked, reminded, history,
                   fails, crashes>>

\* It saves the row, unless that was deleted meanwhile.
Save(s, new) ==
    /\ item' = IF item.status = "deleted" THEN item ELSE new
    /\ stale' = (stale \/ item # staff[s].seen)
    /\ staff' = [staff EXCEPT ![s] = Idle]
    /\ UNCHANGED <<kind, now, cron, ticked, told, linked, reminded, early, bounds>>

\* status and date as given, "keep" and NoDate if they are not.
UpdateBroadcast(s, status, date) ==
    LET seen == staff[s].seen
        dated == status = "scheduled" \/ (date # NoDate /\ seen.status = "scheduled")
        at == IF date # NoDate THEN date ELSE seen.at
    IN  /\ kind = "broadcast" /\ seen.status # "sent"
        /\ dated => at # NoDate /\ at > Clock
        /\ Save(s, [item EXCEPT !.status = IF status = "keep" THEN @ ELSE status,
                                !.at = IF dated THEN at ELSE @])
        /\ dispatch' = [dispatch EXCEPT ![s] = IF status = "sent" /\ item.status # "deleted"
                                               THEN "begin" ELSE @]
    
\* The date is written back as it was read if none is given.
UpdateArticle(s, status, date) ==
    LET at == IF date # NoDate THEN date ELSE staff[s].seen.at
        passed == status = "scheduled" /\ at # NoDate /\ at <= Clock
    IN  /\ kind = "article"
        /\ Save(s, [item EXCEPT !.at = at,
                                !.status = CASE passed -> "published"
                                             [] status \in {"keep", "sent"} -> @
                                             [] OTHER -> status])
        /\ UNCHANGED dispatch

\* The timeline, with all its dates, is written back from the copy that was read.
WithTimeline(x) == [x EXCEPT !.status = item.status]

UpdateCampaign(s, date) ==
    /\ kind = "campaign" /\ date # NoDate
    /\ Save(s, [WithTimeline(staff[s].seen) EXCEPT !.at = date, !.stage = date])
    /\ UNCHANGED dispatch

\* From any status; an end that has been set is kept.  The timeline is changed in
\* place, which the ORM may not notice: it may be left out of the update.
PublishCampaign(s) ==
    /\ kind = "campaign"
    /\ LET seen == staff[s].seen IN
         \/ Save(s, [seen EXCEPT !.status = "active", !.since = Clock, !.stage = seen.at])
         \/ Save(s, [item EXCEPT !.status = "active",
                                 !.since = IF seen.status = "draft" THEN Clock ELSE @])
    /\ UNCHANGED dispatch

SetStatus(s, status) ==
    /\ kind = "campaign"
    /\ status = "paused" => staff[s].seen.status = "active"
    /\ status = "active" => staff[s].seen.status = "paused"
    /\ Save(s, [item EXCEPT !.status = status])
    /\ UNCHANGED dispatch

\* Only the second copy of the date is moved, again in place; the participants
\* are told of the new date.
ExtendDeadline(s, date) ==
    /\ kind = "campaign"
    /\ \E base \in {item, WithTimeline(staff[s].seen)} : Save(s, [base EXCEPT !.stage = date])
    /\ UNCHANGED dispatch

Delete(s) ==
    /\ Save(s, [NoItem EXCEPT !.status = "deleted"])
    /\ UNCHANGED dispatch

FinishEdit(s) ==
    /\ staff[s].busy
    /\ \/ \E status \in {"keep", "draft", "scheduled", "sent"} : \E date \in Dates \cup {NoDate} :
            UpdateBroadcast(s, status, date)
       \/ \E status \in {"keep", "draft", "scheduled", "published"} :
            \E date \in Dates \cup {NoDate} : UpdateArticle(s, status, date)
       \/ \E date \in Dates : UpdateCampaign(s, date) \/ ExtendDeadline(s, date)
       \/ \E status \in {"paused", "active", "cancelled", "completed"} : SetStatus(s, status)
       \/ PublishCampaign(s) \/ Delete(s)

-----------------------------------------------------------------------------
(* The clock.                                                              *)

\* What a tick finds: broadcasts and articles that are due, every active campaign.
Listed ==
    \/ kind = "campaign" /\ item.status = "active"
    \/ kind # "campaign" /\ item.status = "scheduled" /\ Due(item)

StartTick(c) ==
    /\ ~cron[c].busy /\ dispatch[c] = "off" /\ c \notin ticked
    /\ kind = "broadcast" => ticked = {}
    /\ ticked' = ticked \cup {c}
    /\ cron' = [cron EXCEPT ![c] = IF Listed THEN [busy |-> TRUE, seen |-> item] ELSE Idle]
    /\ UNCHANGED <<kind, now, item, staff, dispatch, told, linked, reminded, history, bounds>>

\* A tick that goes on with an item it has listed.  It never changes a deleted row.
Act(c, new) ==
    /\ cron[c].busy
    /\ cron' = [cron EXCEPT ![c] = Idle]
    /\ item' = IF item.status = "deleted" THEN item ELSE new
    /\ early' = (early \/ (item = cron[c].seen /\ item' # item /\ ~Due(item)))
    /\ UNCHANGED <<kind, now, staff, ticked, told, linked, stale, bounds>>

\* Mutant of Claim: it does not look at the status.
ClaimAny(c) ==
    /\ kind = "broadcast"
    /\ Act(c, [item EXCEPT !.status = "sent"])
    /\ dispatch' = [dispatch EXCEPT ![c] = "begin"]
    /\ UNCHANGED reminded

\* Mutant of Claim: what has been claimed is not dispatched.
ClaimOnly(c) ==
    /\ kind = "broadcast"
    /\ Act(c, [item EXCEPT !.status = IF @ = "scheduled" THEN "sent" ELSE @])
    /\ UNCHANGED <<dispatch, reminded>>

\* claimScheduled: whoever finds it still scheduled dispatches it.
Claim(c) ==
    /\ kind = "broadcast"
    /\ LET won == item.status = "scheduled"
       IN  /\ Act(c, [item EXCEPT !.status = IF won THEN "sent" ELSE @])
           /\ dispatch' = [dispatch EXCEPT ![c] = IF won THEN "begin" ELSE @]
    /\ UNCHANGED reminded

\* An article is published whatever has become of it since it was listed.
PublishDue(c) ==
    /\ kind = "article"
    /\ Act(c, [item EXCEPT !.status = "published"])
    /\ UNCHANGED <<dispatch, reminded>>

\* So is a campaign completed that had reached its end.
CompleteDue(c) ==
    /\ kind = "campaign" /\ Due(cron[c].seen)
    /\ Act(c, [item EXCEPT !.status = "completed"])
    /\ UNCHANGED <<dispatch, reminded>>

\* Hours before the end at which the first reminder is due, by duration in hours.
FirstReminder(fifths) ==
    IF fifths < 5 * 24 THEN 2 ELSE IF fifths <= 5 * 72 THEN 12 ELSE IF fifths <= 5 * 168 THEN 24 ELSE 48

\* Mutant of InWindow: it is narrower than the interval of the ticks.
InHalfWindow(left, hours) == left <= 5 * hours + 1 /\ left >= 5 * hours - 1

\* From 0.2 hours before that point to an hour after it.
InWindow(left, hours) == left <= 5 * hours + 1 /\ left >= 5 * hours - 5

ReminderDue(x) ==
    LET left == x.at - Clock
        duration == x.at - x.since
        first == FirstReminder(duration)
    IN  IF duration >= 5 * 24 /\ InWindow(left, 2) THEN {"final"}
        ELSE IF InWindow(left, first) THEN {IF first = 2 THEN "final" ELSE "first"} ELSE {}

\* The dedupeKey lets a reminder through once.
Remind(c) ==
    /\ kind = "campaign" /\ ~Due(cron[c].seen)
    /\ Act(c, item)
    /\ reminded' = IF linked THEN reminded ELSE reminded \cup ReminderDue(cron[c].seen)
    /\ UNCHANGED dispatch

\* Ticks take less than their interval, but for the dispatch of a broadcast.
Advance ==
    /\ IF kind = "broadcast" THEN ticked # {}
       ELSE ticked = Instances /\ \A c \in Instances : ~cron[c].busy
    /\ now' = IF now < Horizon THEN now + 1 ELSE now
    /\ ticked' = {}
    /\ UNCHANGED <<kind, item, staff, cron, dispatch, told, linked, reminded, history, bounds>>

-----------------------------------------------------------------------------
(* dispatchBroadcast.                                                      *)

\* The audience is read and the row marked sent, unless it has been deleted.
BeginDispatch(p) ==
    /\ dispatch[p] = "begin"
    /\ item' = IF item.status = "deleted" THEN item ELSE [item EXCEPT !.status = "sent"]
    /\ dispatch' = [dispatch EXCEPT ![p] = IF item.status = "deleted" THEN "off" ELSE "tell"]
    /\ UNCHANGED <<kind, now, staff, cron, ticked, told, linked, reminded, history, bounds>>

Tell(p) ==
    /\ dispatch[p] = "tell"
    /\ told' = told + 1
    /\ dispatch' = [dispatch EXCEPT ![p] = "off"]
    /\ UNCHANGED <<kind, now, item, staff, cron, ticked, linked, reminded, history, bounds>>

\* It fails half-way: the tick marks the row failed, a request only logs it.
FailDispatch(p) ==
    /\ dispatch[p] # "off" /\ MayHappen
    /\ fails' = fails + 1
    /\ told' \in {told} \cup (IF dispatch[p] = "tell" THEN {told + 1} ELSE {})
    /\ item' = IF p \in Instances /\ item.status # "deleted"
               THEN [item EXCEPT !.status = "failed"] ELSE item
    /\ dispatch' = [dispatch EXCEPT ![p] = "off"]
    /\ UNCHANGED <<kind, now, staff, cron, ticked, linked, reminded, history, edits, crashes>>

\* The participant of a campaign that is under way.
SubmitLink ==
    /\ kind = "campaign" /\ item.status = "active" /\ item.at > Clock /\ ~linked
    /\ linked' = TRUE
    /\ UNCHANGED <<kind, now, item, staff, cron, ticked, dispatch, told, reminded, history, bounds>>

\* The process of a request or a tick is killed.
Crash(p) ==
    /\ MayHappen
    /\ crashes' = crashes + 1
    /\ IF p \in Staff
       THEN staff[p].busy /\ staff' = [staff EXCEPT ![p] = Idle] /\ UNCHANGED cron
       ELSE cron' = [cron EXCEPT ![p] = Idle] /\ UNCHANGED staff
    /\ dispatch' = [dispatch EXCEPT ![p] = "off"]
    /\ UNCHANGED <<kind, now, item, ticked, told, linked, reminded, history, edits, fails>>

ClockStep(c) == StartTick(c) \/ Claim(c) \/ PublishDue(c) \/ CompleteDue(c) \/ Remind(c)

DispatchStep(p) == BeginDispatch(p) \/ Tell(p)

Next ==
    \/ \E s \in Staff : Create(s) \/ BeginEdit(s) \/ FinishEdit(s)
    \/ \E c \in Instances : ClockStep(c)
    \/ Advance \/ SubmitLink
    \/ \E p \in Runners : DispatchStep(p) \/ FailDispatch(p) \/ Crash(p)

Spec == Init /\ [][Next]_vars

\* Ticks come, instances go on with what they have begun, and requests finish.
FairSpec ==
    /\ Spec /\ WF_vars(Advance)
    /\ \A s \in Staff : WF_vars(FinishEdit(s))
    /\ \A c \in Instances : WF_vars(ClockStep(c))
    /\ \A p \in Runners : WF_vars(DispatchStep(p))

-----------------------------------------------------------------------------
(* Properties.                                                             *)

\* A broadcast goes out once, whatever ticks, claims and manual sends interleave:
\* again only after a dispatch that failed, or after a request was saved over a
\* row that had changed since it was read (broadcast.repository.ts:89).  And the
\* clock sends, publishes or completes nothing before its date, unless the item was
\* changed after the tick had listed it.
SentOnce == (~stale => told <= 1 + fails) /\ ~early

\* What is due is served: a due broadcast reaches its audience, a due article is
\* published and an ended campaign completed, unless staff take it back or the
\* dispatch fails or is killed; a broadcast that says "sent" has been told.
Waiting == item.status \in {"scheduled", "active"} /\ Due(item)

DueIsServed ==
    Waiting \/ item.status = "sent"
        ~> (~Waiting /\ item.status # "sent") \/ told > 0 \/ fails + crashes > 0

\* The hourly windows leave no gap, wherever in the hour a campaign ends and
\* even if one instance dies: a participant of a campaign that nobody
\* touched and that ran for three hours at least, who never submitted, got every
\* reminder its duration calls for.
EveryReminder ==
    kind = "campaign" /\ item.status = "completed" /\ edits = 0 /\ crashes <= 1 /\ ~linked
    /\ item.at - item.since >= 5 * 3 =>
        "final" \in reminded /\ (item.at - item.since >= 5 * 24 => "first" \in reminded)

\* notification.catalog.ts:812, "The submission deadline ... has been extended to":
\* the clock does not complete a campaign before the deadline announced last.
DeadlineKept ==
    \A c \in Instances :
        cron[c].busy /\ kind = "campaign" /\ ~stale /\ item = cron[c].seen /\ Due(item)
            => item.stage <= Clock

=============================================================================
