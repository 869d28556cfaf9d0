--------------------------- MODULE Notifications ---------------------------
(***************************************************************************)
(* One event of the platform and everyone who is to be told of it.  The    *)
(* event may be notified by several callers: a cron fires on every PM2     *)
(* instance and a webhook is redelivered.  A call enqueues a job, or, when *)
(* Redis does not answer within three seconds or refuses, dispatches the   *)
(* event in its own process while the parked add() may still land.  The    *)
(* dispatcher writes a row of the feed for each recipient, then pushes,    *)
(* then mails.                                                             *)
(*                                                                         *)
(* Each awaited write is a step, after which the settings may change; the  *)
(* push, which never throws and is not recorded, is one with its row.      *)
(***************************************************************************)
EXTENDS Naturals, FiniteSets

CONSTANTS
    Callers,      \* calls of notify() for the event
    Users,        \* users the event is about, or who have the role it is for
    Synthetic,    \* users whose address is a placeholder
    Events,       \* events to consider
    Settings,     \* what users have switched off to begin with
    Flips,        \* toggles a user may change meanwhile
    Attempts,     \* attempts of a job: 3 in the code
    Stalls,       \* times a job is taken back from a dead worker: 1 in BullMQ
    MaxIncidents  \* bound: failures of the database or of mail, instances killed,
                  \* and changes of a user's settings

-----------------------------------------------------------------------------
(* The catalog: what a type of notification is, as far as delivery depends *)
(* on it.  Every type has the in-app channel.                              *)

Entries(category, priorities, mail) ==
    {[category |-> category, priority |-> p, mail |-> mail] : p \in priorities}

ApplicationEntries == Entries("applications", {"high", "critical"}, TRUE)

SubmissionEntries ==
    Entries("applications", {"high", "critical"}, TRUE) \cup Entries("payments", {"critical"}, TRUE)

PaymentEntries ==
    Entries("payments", {"high", "critical"}, TRUE)
        \cup Entries("campaigns", {"medium", "high", "critical"}, TRUE)

AccountEntries ==
    Entries("opportunities", {"high"}, TRUE) \cup Entries("security", {"high", "critical"}, TRUE)
        \cup Entries("campaigns", {"medium"}, TRUE) \cup Entries("account", {"low", "medium"}, TRUE)

SocialEntries == Entries("security", {"low"}, TRUE)

DisputeEntries == Entries("chatDispute", {"high"}, TRUE)

StaffEntries ==
    Entries("account", {"low", "medium", "high", "critical"}, FALSE)
        \cup Entries("chatDispute", {"high"}, TRUE) \cup Entries("campaigns", {"high"}, FALSE)
        \cup Entries("broadcast", {"low"}, FALSE)

ImpactEntries ==
    Entries("opportunities", {"high", "critical"}, TRUE) \cup Entries("account", {"medium"}, TRUE)
        \cup Entries("opportunities", {"medium", "high"}, FALSE)

ImpactStaffEntries == Entries("campaigns", {"low", "medium", "high"}, FALSE)

Catalog ==
    ApplicationEntries \cup SubmissionEntries \cup PaymentEntries \cup AccountEntries
        \cup SocialEntries \cup DisputeEntries \cup StaffEntries \cup ImpactEntries
        \cup ImpactStaffEntries

Toggles == {"applicationUpdates", "paymentAlerts", "newCampaigns", "emailNotifications",
            "pushNotifications"}

\* The setting that mutes a category; those that are missing here have none.
CategoryKey ==
    [c \in {"campaigns", "applications", "payments", "opportunities"} |->
        CASE c = "payments" -> "paymentAlerts"
          [] c = "opportunities" -> "newCampaigns"
          [] OTHER -> "applicationUpdates"]

NeverMuted == {"security", "chatDispute"}

\* The channels of an entry for a user who has switched the toggles off.
Resolve(e, off) ==
    LET on == e.category \in DOMAIN CategoryKey => CategoryKey[e.category] \notin off
        inApp == on \/ e.priority \in {"high", "critical"} \/ e.category \in NeverMuted
        mail == (on /\ "emailNotifications" \notin off) \/ e.category \in NeverMuted
    IN  {ch \in {"inApp", "mail", "push"} :
            CASE ch = "inApp" -> inApp
              [] ch = "mail" -> e.mail /\ mail
              [] ch = "push" -> inApp /\ "pushNotifications" \notin off}

\* To: "users" by their ids, or everyone with a role, "creators" or "staff".
EventRec == [entry : Catalog, to : {"users", "creators", "staff"}, keyed : BOOLEAN,
             actor : SUBSET Users]

ASSUME NotificationConstants ==
    /\ Events \subseteq EventRec /\ Settings \subseteq [Users -> SUBSET Toggles]
    /\ Flips \subseteq Toggles /\ Synthetic \subseteq Users /\ Attempts \in Nat \ {0}
    /\ Stalls \in Nat /\ MaxIncidents \in Nat

Runs == Callers \X {"job", "inline"}

VARIABLES
    event,      \* the event, never changed
    off,        \* toggles each user has switched off
    caller,     \* calls: idle, adding (awaiting add), returned
    parked,     \* calls that returned while their add() is still pending
    job,        \* state of the job each call has added
    taken,      \* how often each job was taken by a worker
    stalled,    \* how often it was taken back from a dead one
    run,        \* dispatches: of a job, or inline by a caller
    rows,       \* rows of the feed, per user
    status,     \* emailStatus of the user's latest row
    pushed, mailed,   \* pushes and mails sent, per user
    allowed,    \* history: toggles each user has had on at some time since the first call
    excused,    \* history: users who may not have been told because of their
                \* settings since the first call, of a fault or of a crash
    unrecorded, \* history: users whose row was never told what became of their mail
    faults, crashes, changes

told == <<rows, status, pushed, mailed, unrecorded>>
queue == <<parked, job, taken, stalled>>
bounds == <<faults, crashes, changes>>

QuietSoFar == faults + crashes + changes < MaxIncidents
noticeVars == <<event, off, caller, queue, run, told, allowed, excused, bounds>>

Off == [pc |-> "off", todo |-> {}, user |-> CHOOSE u \in Users : TRUE]

Recipients == IF event.to = "users" THEN Users \ event.actor ELSE Users

\* Staff fan-outs bypass the settings.
Wanted(S) ==
    IF event.to = "staff"
    THEN Resolve(event.entry, {}) ELSE Resolve(event.entry, S)

InitNotifications ==
    /\ event \in Events
    /\ off \in Settings
    /\ caller = [c \in Callers |-> "idle"]
    /\ parked = {}
    /\ job = [c \in Callers |-> "none"]
    /\ taken = [c \in Callers |-> 0] /\ stalled = [c \in Callers |-> 0]
    /\ run = [d \in Runs |-> Off]
    /\ rows = [u \in Users |-> 0] /\ status = [u \in Users |-> "none"]
    /\ pushed = [u \in Users |-> 0] /\ mailed = [u \in Users |-> 0]
    /\ allowed = [u \in Users |-> {}]
    /\ excused = {} /\ unrecorded = {}
    /\ faults = 0 /\ crashes = 0 /\ changes = 0

-----------------------------------------------------------------------------
(* Settings.                                                               *)

\* History: what the settings allow from now on.
Heed(S) ==
    /\ allowed' = [u \in Users |-> allowed[u] \cup (Toggles \ S[u])]
    /\ excused' = excused \cup {u \in Users : "inApp" \notin Wanted(S[u])}

\* PATCH /profile/notifications.
ChangeSettings(u, t) ==
    /\ QuietSoFar
    /\ off' = [off EXCEPT ![u] = IF t \in @ THEN @ \ {t} ELSE @ \cup {t}]
    /\ IF \A c \in Callers : caller[c] = "idle" THEN UNCHANGED <<allowed, excused>> ELSE Heed(off')
    /\ changes' = changes + 1
    /\ UNCHANGED <<event, caller, queue, run, told, faults, crashes>>

-----------------------------------------------------------------------------
(* notify().                                                               *)

Call(c) ==
    /\ caller[c] = "idle"
    /\ caller' = [caller EXCEPT ![c] = "adding"]
    /\ Heed(off)
    /\ UNCHANGED <<event, off, queue, run, told, bounds>>

\* A job with the same id is in the queue or among the ones that are kept.
Known == event.keyed /\ \E d \in Callers : job[d] \notin {"none", "removed"}

\* add() lands; the queue ignores it if it knows the id.
Add(c) ==
    /\ caller[c] = "adding" \/ c \in parked
    /\ job[c] = "none"
    /\ job' = IF Known THEN job ELSE [job EXCEPT ![c] = "waiting"]
    /\ caller' = [caller EXCEPT ![c] = "returned"]
    /\ parked' = parked \ {c}
    /\ UNCHANGED <<event, off, taken, stalled, run, told, allowed, excused, bounds>>

\* Redis did not answer in time, or it refused: the event is dispatched inline
\* and the call returns without waiting for that.
DispatchInline(c) ==
    /\ caller[c] = "adding"
    /\ caller' = [caller EXCEPT ![c] = "returned"]
    /\ run' = [run EXCEPT ![<<c, "inline">>].pc = "resolve"]
    /\ parked' \in {parked, parked \cup {c}}
    /\ UNCHANGED <<event, off, job, taken, stalled, told, allowed, excused, bounds>>

-----------------------------------------------------------------------------
(* The queue and its workers, one per instance.                            *)

Take(c) ==
    /\ job[c] = "waiting"
    /\ job' = [job EXCEPT ![c] = "active"]
    /\ taken' = [taken EXCEPT ![c] = @ + 1]
    /\ run' = [run EXCEPT ![<<c, "job">>].pc = "resolve"]
    /\ UNCHANGED <<event, off, caller, parked, stalled, told, allowed, excused, bounds>>

\* The lock of a job whose worker died runs out.
Stall(c) ==
    /\ job[c] = "active" /\ run[<<c, "job">>].pc = "off"
    /\ stalled' = [stalled EXCEPT ![c] = @ + 1]
    /\ IF stalled[c] < Stalls
       THEN job' = [job EXCEPT ![c] = "waiting"] /\ UNCHANGED excused
       ELSE job' = [job EXCEPT ![c] = "failed"] /\ excused' = Users
    /\ UNCHANGED <<event, off, caller, parked, taken, run, told, allowed, bounds>>

\* removeOnComplete and removeOnFail: old jobs are forgotten, with their ids.
Remove(c) ==
    /\ job[c] \in {"completed", "failed"}
    /\ job' = [job EXCEPT ![c] = "removed"]
    /\ UNCHANGED <<event, off, caller, parked, taken, stalled, run, told, allowed, excused,
                   bounds>>

-----------------------------------------------------------------------------
(* dispatch(), by a worker or inline.                                      *)

\* The dispatch of d ends; so does its job.
EndOf(d) == IF d[2] = "job" THEN [job EXCEPT ![d[1]] = "completed"] ELSE job

ReadRecipients(d) ==
    /\ run[d].pc = "resolve"
    /\ run' = [run EXCEPT ![d] = [@ EXCEPT !.pc = "next",
                 !.todo = {<<u, Wanted(off[u])>> : u \in Recipients}]]
    /\ UNCHANGED <<event, off, caller, queue, told, allowed, excused, bounds>>

\* The read fails: an inline dispatch is given up, a job is tried again later.
ReadFails(d) ==
    /\ run[d].pc = "resolve" /\ QuietSoFar
    /\ faults' = faults + 1
    /\ run' = [run EXCEPT ![d] = Off]
    /\ LET c == d[1]
           again == d[2] = "job" /\ taken[c] < Attempts
       IN  /\ job' = IF d[2] = "job"
                     THEN [job EXCEPT ![c] = IF again THEN "waiting" ELSE "failed"] ELSE job
           /\ excused' = IF again THEN excused ELSE Users
    /\ UNCHANGED <<event, off, caller, parked, taken, stalled, told, allowed, crashes, changes>>

\* Mutant of CreateRow: the dedupe key has no unique index.
CreateRowTwice(d, r) ==
    /\ run[d].pc = "next" /\ r \in run[d].todo
    /\ rows' = [rows EXCEPT ![r[1]] = @ + 1]
    /\ run' = [run EXCEPT ![d].todo = @ \ {r}]
    /\ UNCHANGED <<event, off, caller, queue, status, pushed, mailed, unrecorded, allowed, excused,
                   bounds>>

\* The row of the next recipient.  A keyed one that is there already ends the
\* delivery to him; so does a user who is to have it neither in-app nor by mail.
CreateRow(d, r) ==
    /\ run[d].pc = "next" /\ r \in run[d].todo
    /\ LET u == r[1]
           skip == r[2] \cap {"inApp", "mail"} = {} \/ (event.keyed /\ rows[u] > 0)
       IN  IF skip
           THEN run' = [run EXCEPT ![d].todo = @ \ {r}] /\ UNCHANGED <<rows, status, pushed>>
           ELSE /\ rows' = [rows EXCEPT ![u] = @ + 1]
                /\ status' = [status EXCEPT ![u] = "skipped"]
                /\ pushed' = IF "push" \in r[2] THEN [pushed EXCEPT ![u] = @ + 1] ELSE pushed
                /\ run' = [run EXCEPT ![d] =
                             [pc |-> IF "mail" \in r[2] /\ u \notin Synthetic THEN "mail" ELSE "next",
                              todo |-> @.todo \ {r}, user |-> u]]
    /\ UNCHANGED <<event, off, caller, queue, mailed, unrecorded, allowed, excused, bounds>>

\* Mutant of CreateFails: one recipient's failure ends the batch.
CreateFailsBatch(d, r) ==
    /\ run[d].pc = "next" /\ r \in run[d].todo /\ QuietSoFar
    /\ faults' = faults + 1
    /\ run' = [run EXCEPT ![d] = Off]
    /\ job' = EndOf(d)
    /\ excused' = excused \cup {r[1]}
    /\ UNCHANGED <<event, off, caller, parked, taken, stalled, told, allowed, crashes, changes>>

\* The insert fails: logged, and the loop goes on to the next recipient.
CreateFails(d, r) ==
    /\ run[d].pc = "next" /\ r \in run[d].todo /\ QuietSoFar
    /\ faults' = faults + 1
    /\ run' = [run EXCEPT ![d].todo = @ \ {r}]
    /\ excused' = excused \cup {r[1]}
    /\ UNCHANGED <<event, off, caller, queue, told, allowed, crashes, changes>>

SendMail(d) ==
    /\ run[d].pc = "mail"
    /\ mailed' = [mailed EXCEPT ![run[d].user] = @ + 1]
    /\ run' = [run EXCEPT ![d].pc = "sent"]
    /\ UNCHANGED <<event, off, caller, queue, rows, status, pushed, unrecorded, allowed, excused,
                   bounds>>

MailFails(d) ==
    /\ run[d].pc = "mail" /\ QuietSoFar
    /\ faults' = faults + 1
    /\ run' = [run EXCEPT ![d].pc = "failed"]
    /\ UNCHANGED <<event, off, caller, queue, told, allowed, excused, crashes, changes>>

\* Mutant of RecordMail: the outcome of the mail is not looked at.
RecordAnyMail(d) ==
    /\ run[d].pc \in {"sent", "failed"}
    /\ status' = [status EXCEPT ![run[d].user] = "sent"]
    /\ run' = [run EXCEPT ![d].pc = "next"]
    /\ UNCHANGED <<event, off, caller, queue, rows, pushed, mailed, unrecorded, allowed, excused,
                   bounds>>

\* notification.update({ emailStatus }).
RecordMail(d) ==
    /\ run[d].pc \in {"sent", "failed"}
    /\ status' = [status EXCEPT ![run[d].user] = run[d].pc]
    /\ run' = [run EXCEPT ![d].pc = "next"]
    /\ UNCHANGED <<event, off, caller, queue, rows, pushed, mailed, unrecorded, allowed, excused,
                   bounds>>

\* That update fails.  After a mail this is caught and to be recorded as a failure; but the
\* outage may last, and what the second update throws ends the delivery to this recipient.
RecordFails(d) ==
    /\ run[d].pc \in {"sent", "failed"} /\ QuietSoFar
    /\ faults' = faults + 1
    /\ \E pc \in {"failed", "next"} \ {run[d].pc} :
         /\ run' = [run EXCEPT ![d].pc = pc]
         /\ unrecorded' = IF pc = "next" THEN unrecorded \cup {run[d].user} ELSE unrecorded
    /\ UNCHANGED <<event, off, caller, queue, rows, status, pushed, mailed, allowed, excused,
                   crashes, changes>>

EndDispatch(d) ==
    /\ run[d].pc = "next" /\ run[d].todo = {}
    /\ run' = [run EXCEPT ![d] = Off]
    /\ job' = EndOf(d)
    /\ UNCHANGED <<event, off, caller, parked, taken, stalled, told, allowed, excused, bounds>>

-----------------------------------------------------------------------------
\* The instance of the call c dies, with the jobs its worker was at.  Its parked
\* add() and inline dispatch are lost, the jobs are not.
Crash(c, J) ==
    /\ QuietSoFar
    /\ crashes' = crashes + 1
    /\ J \subseteq {d \in Callers : run[<<d, "job">>].pc # "off"}
    /\ LET dead == {<<c, "inline">>} \cup (J \X {"job"})
           inline == run[<<c, "inline">>].pc # "off"
       IN  /\ run' = [d \in Runs |-> IF d \in dead THEN Off ELSE run[d]]
           /\ unrecorded' = unrecorded \cup
                {run[d].user : d \in {e \in dead : run[e].pc \in {"sent", "failed"}}}
           /\ excused' = IF caller[c] = "adding" \/ inline \/ c \in parked THEN Users ELSE excused
    /\ caller' = [caller EXCEPT ![c] = IF @ = "adding" THEN "returned" ELSE @]
    /\ parked' = parked \ {c}
    /\ UNCHANGED <<event, off, job, taken, stalled, rows, status, pushed, mailed, allowed, faults,
                   changes>>

DispatchStep(d) ==
    \/ ReadRecipients(d) \/ SendMail(d) \/ RecordMail(d) \/ EndDispatch(d)
    \/ \E r \in run[d].todo : CreateRow(d, r)

Fault(d) ==
    \/ ReadFails(d) \/ MailFails(d) \/ RecordFails(d)
    \/ \E r \in run[d].todo : CreateFails(d, r)

NextNotifications ==
    \/ \E u \in Users : \E t \in Flips : ChangeSettings(u, t)
    \/ \E c \in Callers : Call(c) \/ Add(c) \/ DispatchInline(c) \/ Take(c) \/ Stall(c) \/ Remove(c)
    \/ \E d \in Runs : DispatchStep(d) \/ Fault(d)
    \/ \E c \in Callers : \E J \in SUBSET Callers : Crash(c, J)

SpecNotifications == InitNotifications /\ [][NextNotifications]_noticeVars

\* A call is answered or times out and its process goes on with what it dispatches; the
\* queue goes on with each job, which is taken again when its instance has died.  Nothing is
\* assumed of parked adds, settings, faults and crashes.
CallsGoOn ==
    \A c \in Callers :
        /\ WF_noticeVars(Add(c) \/ DispatchInline(c) \/ DispatchStep(<<c, "inline">>))
        /\ WF_noticeVars(Take(c) \/ Stall(c) \/ DispatchStep(<<c, "job">>))

-----------------------------------------------------------------------------
(* Properties.                                                             *)

\* notification-dispatcher.service.ts:295: whatever callers, retries, late adds
\* and crashes do, an event with a dedupeKey reaches a user once: one row, one
\* push and one mail.
ToldOnce ==
    event.keyed => \A u \in Users : rows[u] <= 1 /\ pushed[u] <= 1 /\ mailed[u] <= 1

\* notify() "NEVER throws" and yet loses nothing: once it is called, every
\* recipient whose settings have allowed the event all along is told, short of a
\* fault of the database that kept him from it or the death of the instance that
\* held the event in memory alone.
CalledIsTold ==
    (\E c \in Callers : caller[c] # "idle")
        ~> \A u \in Recipients : rows[u] > 0 \/ u \in excused

\* The audit trail is honest, though row, mail and status are three writes and
\* jobs are retried: once nothing is under way, the row of a keyed event says
\* "sent" only if a mail went out, and does not say "skipped" of one that did,
\* unless, between the mail and its record, the instance died or the database
\* failed both the update and the one that was to say so ("failed" may be said
\* of a mail that went out, when the first update alone fails).
StatusIsTrue ==
    (event.keyed /\ \A d \in Runs : run[d].pc = "off") =>
        \A u \in Users :
            /\ status[u] = "sent" => mailed[u] = 1
            /\ status[u] = "skipped" /\ u \notin unrecorded => mailed[u] = 0

\* A toggle that has been off since before the first call silences its channel on
\* every path (job, inline dispatch, retry), whatever else is changed meanwhile;
\* only security and disputes, and what is sent to the staff, get past it.
MutedStaysQuiet ==
    event.to # "staff" =>
        \A u \in Users :
            /\ pushed[u] > 0 => "pushNotifications" \in allowed[u]
            /\ mailed[u] > 0 /\ event.entry.category \notin NeverMuted =>
                 \A t \in {"emailNotifications"} \cup {CategoryKey[c] :
                            c \in {event.entry.category} \cap DOMAIN CategoryKey} :
                    t \in allowed[u]

\* Nobody is told twice, and nobody of what was muted.
NoNoise == ToldOnce /\ MutedStaysQuiet

=============================================================================
