-------------------------- MODULE PublishingProofs --------------------------
(***************************************************************************)
(* Proofs about what goes out to an audience and what a dashboard shows:   *)
(* Publishing and, after it, Reports, which has no variable in common with *)
(* it.  Publishing is for any staff, instances, dates and bounds.          *)
(* SentInv says what is on its way to the audience and what the row says   *)
(* of it; RemindInv says which ticks have served the participant of a      *)
(* campaign that nobody touched.                                           *)
(***************************************************************************)
EXTENDS Publishing, Reports, Sums, FiniteSetTheorems, SequenceTheorems, TLAPS

Statuses == {"none", "deleted", "draft", "scheduled", "sent", "failed", "published",
             "active", "paused", "cancelled", "completed"}
Rows == [status : Statuses, at : Nat, stage : Nat, since : Nat]
Requests == [busy : BOOLEAN, seen : Rows]

PublishingTypeOK ==
    /\ kind \in Kinds /\ now \in Nat /\ item \in Rows
    /\ staff \in [Staff -> Requests] /\ cron \in [Instances -> Requests]
    /\ ticked \subseteq Instances
    /\ dispatch \in [Runners -> {"off", "begin", "tell"}]
    /\ told \in Nat /\ linked \in BOOLEAN /\ reminded \subseteq {"first", "final"}
    /\ stale \in BOOLEAN /\ early \in BOOLEAN
    /\ edits \in Nat /\ fails \in Nat /\ crashes \in Nat

LEMMA RowTypes ==
    /\ NoItem \in Rows /\ Idle \in Requests /\ Idle.busy = FALSE
    /\ \A r \in Rows : \A st \in Statuses : [r EXCEPT !.status = st] \in Rows
    /\ \A r \in Rows : \A st \in Statuses : \A d \in Nat :
           [r EXCEPT !.status = st, !.at = d] \in Rows
    /\ \A r \in Rows : \A d \in Nat : [r EXCEPT !.stage = d] \in Rows
    /\ \A r \in Rows : \A d, e \in Nat : [r EXCEPT !.at = d, !.stage = e] \in Rows
    /\ \A r \in Rows : [busy |-> TRUE, seen |-> r] \in Requests
<1>1. NoItem \in Rows
    BY DEF NoItem, Rows, Statuses, NoDate
<1>. QED BY <1>1 DEF Rows, Idle, Requests

\* What a staff request does when it saves: the row, and the dispatch of a broadcast that is
\* sent by hand.
LEMMA EditEffect ==
    ASSUME PublishingTypeOK, NEW s \in Staff, FinishEdit(s)
    PROVE  \E new \in Rows :
               /\ staff[s].busy /\ Save(s, new)
               /\ \/ /\ dispatch' = dispatch
                     /\ kind = "broadcast" => new.status = "deleted" \/ staff[s].seen.status # "sent"
                  \/ /\ dispatch' = [dispatch EXCEPT ![s] = "begin"]
                     /\ kind = "broadcast" /\ new.status = "sent" /\ item.status # "deleted"
                     /\ staff[s].seen.status # "sent"
<1>. USE PublishingConstants DEF Rows, Statuses, NoDate
<1>1. item \in Rows /\ staff[s].seen \in Rows /\ s \in Runners
      /\ dispatch \in [Runners -> {"off", "begin", "tell"}] /\ kind \in Kinds
    BY DEF PublishingTypeOK, Requests, Runners
<1>2. staff[s].busy
    BY DEF FinishEdit
<1>3. ASSUME NEW status \in {"keep", "draft", "scheduled", "sent"}, NEW date \in Dates \cup {NoDate},
             UpdateBroadcast(s, status, date)
      PROVE  \E new \in Rows :
               /\ Save(s, new)
               /\ \/ /\ dispatch' = dispatch
                     /\ kind = "broadcast" => new.status = "deleted" \/ staff[s].seen.status # "sent"
                  \/ /\ dispatch' = [dispatch EXCEPT ![s] = "begin"]
                     /\ kind = "broadcast" /\ new.status = "sent" /\ item.status # "deleted"
                     /\ staff[s].seen.status # "sent"
  <2> DEFINE at == IF date # NoDate THEN date ELSE staff[s].seen.at
             dated == status = "scheduled" \/ (date # NoDate /\ staff[s].seen.status = "scheduled")
             new == [item EXCEPT !.status = IF status = "keep" THEN @ ELSE status,
                                 !.at = IF dated THEN at ELSE @]
  <2>1. at \in Nat
      BY <1>1
  <2>2. new \in Rows /\ (status = "sent" => new.status = "sent")
      BY <1>1, <2>1
  <2>3. Save(s, new) /\ kind = "broadcast" /\ staff[s].seen.status # "sent"
        /\ dispatch' = [dispatch EXCEPT ![s] = IF status = "sent" /\ item.status # "deleted"
                                               THEN "begin" ELSE @]
      BY <1>3 DEF UpdateBroadcast
  <2>. HIDE DEF new
  <2>4. CASE status = "sent" /\ item.status # "deleted"
      BY <2>2, <2>3, <2>4
  <2>5. CASE ~(status = "sent" /\ item.status # "deleted")
    <3>1. dispatch' = dispatch
        BY <1>1, <2>3, <2>5
    <3>. QED BY <2>2, <2>3, <3>1
  <2>. QED BY <2>4, <2>5
<1>4. ASSUME NEW status \in {"keep", "draft", "scheduled", "published"},
             NEW date \in Dates \cup {NoDate}, UpdateArticle(s, status, date)
      PROVE  kind = "article" /\ dispatch' = dispatch /\ \E new \in Rows : Save(s, new)
  <2> DEFINE at == IF date # NoDate THEN date ELSE staff[s].seen.at
             passed == status = "scheduled" /\ at # NoDate /\ at <= Clock
             st == CASE passed -> "published"
                     [] status \in {"keep", "sent"} -> item.status
                     [] OTHER -> status
  <2>1. at \in Nat
      BY <1>1
  <2>2. st \in Statuses
      BY <1>1
  <2>3. [item EXCEPT !.at = at, !.status = st] \in Rows
      BY <1>1, <2>1, <2>2
  <2>. QED BY <1>4, <2>3 DEF UpdateArticle
<1>5. ASSUME NEW date \in Dates, UpdateCampaign(s, date)
      PROVE  kind = "campaign" /\ dispatch' = dispatch /\ \E new \in Rows : Save(s, new)
  <2>1. [WithTimeline(staff[s].seen) EXCEPT !.at = date, !.stage = date] \in Rows
      BY <1>1 DEF WithTimeline
  <2>. QED BY <1>5, <2>1 DEF UpdateCampaign
<1>6. ASSUME NEW date \in Dates, ExtendDeadline(s, date)
      PROVE  kind = "campaign" /\ dispatch' = dispatch /\ \E new \in Rows : Save(s, new)
  <2>1. \A base \in {item, WithTimeline(staff[s].seen)} : [base EXCEPT !.stage = date] \in Rows
      BY <1>1 DEF WithTimeline
  <2>. QED BY <1>6, <2>1 DEF ExtendDeadline
<1>7. ASSUME NEW status \in {"paused", "active", "cancelled", "completed"}, SetStatus(s, status)
      PROVE  kind = "campaign" /\ dispatch' = dispatch /\ \E new \in Rows : Save(s, new)
  <2>1. [item EXCEPT !.status = status] \in Rows
      BY <1>1
  <2>. QED BY <1>7, <2>1 DEF SetStatus
<1>8. ASSUME PublishCampaign(s)
      PROVE  kind = "campaign" /\ dispatch' = dispatch /\ \E new \in Rows : Save(s, new)
  <2>1. Clock \in Nat
      BY DEF Clock, PublishingTypeOK
  <2>2. [staff[s].seen EXCEPT !.status = "active", !.since = Clock, !.stage = staff[s].seen.at] \in Rows
      BY <1>1, <2>1
  <2>3. [item EXCEPT !.status = "active",
                     !.since = IF staff[s].seen.status = "draft" THEN Clock ELSE @] \in Rows
      BY <1>1, <2>1
  <2>. QED BY <1>8, <2>2, <2>3 DEF PublishCampaign
<1>9. ASSUME Delete(s)
      PROVE  dispatch' = dispatch /\ \E new \in Rows : Save(s, new) /\ new.status = "deleted"
  <2>1. [NoItem EXCEPT !.status = "deleted"] \in Rows
      BY DEF NoItem
  <2>2. [NoItem EXCEPT !.status = "deleted"].status = "deleted"
      BY DEF NoItem
  <2>. QED BY <1>9, <2>1, <2>2 DEF Delete
<1>. QED
  <2>1. CASE Delete(s)
      BY <1>2, <1>9, <2>1
  <2>2. CASE \E status \in {"keep", "draft", "scheduled", "sent"} : \E date \in Dates \cup {NoDate} :
                UpdateBroadcast(s, status, date)
      BY <1>2, <1>3, <2>2
  <2>3. CASE kind # "broadcast" /\ dispatch' = dispatch /\ \E new \in Rows : Save(s, new)
      BY <1>2, <2>3
  <2>. QED BY <1>4, <1>5, <1>6, <1>7, <1>8, <2>1, <2>2, <2>3 DEF FinishEdit

\* What a staff request creates: a row of today, if it is a campaign's.
LEMMA CreateEffect ==
    ASSUME PublishingTypeOK, NEW s \in Staff, Create(s)
    PROVE  /\ item' \in Rows /\ item'.status \notin {"completed", "failed", "deleted", "none"}
           /\ kind = "campaign" =>
                item'.since = Clock /\ item'.status \in {"draft", "active"}
           /\ \/ dispatch' = dispatch /\ (kind = "broadcast" => item'.status # "sent")
              \/ /\ kind = "broadcast" /\ item'.status = "sent"
                 /\ dispatch' = [dispatch EXCEPT ![s] = "begin"]
<1>1. Clock \in Nat /\ dispatch \in [Runners -> {"off", "begin", "tell"}]
    BY DEF Clock, PublishingTypeOK
<1>2. PICK date \in Dates :
         \/ \E status \in {"draft", "scheduled", "sent"} : CreateBroadcast(s, status, date)
         \/ \E status \in {"draft", "scheduled", "published"} : CreateArticle(status, date)
         \/ \E status \in {"draft", "active"} : CreateCampaign(status, date)
    BY DEF Create
<1>3. date \in Nat
    BY PublishingConstants
<1>4. ASSUME NEW status \in {"draft", "scheduled", "sent"}, CreateBroadcast(s, status, date)
      PROVE  /\ item' \in Rows /\ item'.status = status /\ kind = "broadcast"
             /\ dispatch' = [dispatch EXCEPT ![s] = IF status = "sent" THEN "begin" ELSE @]
    BY <1>3, <1>4 DEF CreateBroadcast, NoItem, NoDate, Rows, Statuses
<1>5. ASSUME NEW status \in {"draft", "scheduled", "sent"}, CreateBroadcast(s, status, date)
      PROVE  \/ dispatch' = dispatch /\ item'.status # "sent"
             \/ item'.status = "sent" /\ dispatch' = [dispatch EXCEPT ![s] = "begin"]
    BY <1>1, <1>4, <1>5
<1>6. ASSUME NEW status \in {"draft", "scheduled", "published"}, CreateArticle(status, date)
      PROVE  item' \in Rows /\ item'.status \in {"draft", "scheduled", "published"}
             /\ kind = "article" /\ dispatch' = dispatch
    BY <1>3, <1>6 DEF CreateArticle, NoItem, NoDate, Rows, Statuses
<1>7. ASSUME NEW status \in {"draft", "active"}, CreateCampaign(status, date)
      PROVE  /\ item' \in Rows /\ item'.status = status
             /\ item'.since = Clock
             /\ kind = "campaign" /\ dispatch' = dispatch
    BY <1>1, <1>3, <1>7 DEF CreateCampaign, Rows, Statuses
<1>. QED BY <1>2, <1>4, <1>5, <1>6, <1>7

\* A tick goes on with its item: the row keeps all but its status.
LEMMA ActEffect ==
    ASSUME PublishingTypeOK, NEW c \in Instances, Claim(c) \/ PublishDue(c) \/ CompleteDue(c) \/ Remind(c)
    PROVE  /\ item' \in Rows /\ cron[c].busy /\ cron' = [cron EXCEPT ![c] = Idle]
           /\ item'.at = item.at /\ item'.since = item.since
           /\ early' = (early \/ (item = cron[c].seen /\ item' # item /\ ~Due(item)))
           /\ dispatch' \in [Runners -> {"off", "begin", "tell"}]
           /\ UNCHANGED <<kind, now, staff, ticked, told, linked, stale, bounds>>
<1>1. item \in Rows /\ dispatch \in [Runners -> {"off", "begin", "tell"}]
    BY DEF PublishingTypeOK
<1>2. \A st \in Statuses : [item EXCEPT !.status = st] \in Rows
                           /\ [item EXCEPT !.status = st].at = item.at
                           /\ [item EXCEPT !.status = st].since = item.since
    BY <1>1 DEF Rows
<1>3. ASSUME NEW new \in Rows, new.at = item.at, new.since = item.since, Act(c, new)
      PROVE  /\ item' \in Rows /\ cron[c].busy /\ cron' = [cron EXCEPT ![c] = Idle]
             /\ item'.at = item.at /\ item'.since = item.since
             /\ early' = (early \/ (item = cron[c].seen /\ item' # item /\ ~Due(item)))
             /\ UNCHANGED <<kind, now, staff, ticked, told, linked, stale, bounds>>
    BY <1>1, <1>3 DEF Act
<1>4. PICK new \in Rows : new.at = item.at /\ new.since = item.since /\ Act(c, new)
  <2>1. item.status \in Statuses
      BY <1>1 DEF Rows
  <2>2. {"sent", "published", "completed"} \subseteq Statuses
      BY DEF Statuses
  <2>. QED BY <1>1, <1>2, <2>1, <2>2 DEF Claim, PublishDue, CompleteDue, Remind
<1>5. dispatch' \in [Runners -> {"off", "begin", "tell"}]
    BY <1>1 DEF Claim, PublishDue, CompleteDue, Remind
<1>. QED BY <1>3, <1>4, <1>5

LEMMA TypesStart == Init => PublishingTypeOK
<1>. SUFFICES ASSUME Init PROVE PublishingTypeOK
    OBVIOUS
<1>1. staff \in [Staff -> Requests] /\ cron \in [Instances -> Requests]
    BY RowTypes DEF Init
<1>2. dispatch \in [Runners -> {"off", "begin", "tell"}]
    BY DEF Init
<1>. QED BY <1>1, <1>2, RowTypes DEF Init, PublishingTypeOK

LEMMA TypesStep == PublishingTypeOK /\ [Next]_vars => PublishingTypeOK'
<1>. SUFFICES ASSUME PublishingTypeOK, [Next]_vars PROVE PublishingTypeOK'
    OBVIOUS
<1>. USE DEF PublishingTypeOK
<1>1. ASSUME NEW s \in Staff, Create(s)
      PROVE  PublishingTypeOK'
  <2>1. item' \in Rows /\ dispatch' \in [Runners -> {"off", "begin", "tell"}]
      BY <1>1, CreateEffect
  <2>. QED BY <1>1, <2>1 DEF Create, bounds
<1>2. ASSUME NEW s \in Staff, BeginEdit(s)
      PROVE  PublishingTypeOK'
  <2>1. [busy |-> TRUE, seen |-> item] \in Requests
      BY DEF Requests
  <2>. QED BY <1>2, <2>1 DEF BeginEdit, history
<1>3. ASSUME NEW s \in Staff, FinishEdit(s)
      PROVE  PublishingTypeOK'
  <2>1. PICK new \in Rows : Save(s, new)
                           /\ (dispatch' = dispatch \/ dispatch' = [dispatch EXCEPT ![s] = "begin"])
      BY <1>3, EditEffect
  <2>2. stale' \in BOOLEAN
      BY <2>1 DEF Save
  <2>. QED BY <2>1, <2>2, RowTypes DEF Save, bounds
<1>4. ASSUME NEW c \in Instances, StartTick(c)
      PROVE  PublishingTypeOK'
  <2>1. [busy |-> TRUE, seen |-> item] \in Requests
      BY DEF Requests
  <2>. QED BY <1>4, <2>1, RowTypes DEF StartTick, history, bounds
<1>5. ASSUME NEW c \in Instances, Claim(c) \/ PublishDue(c) \/ CompleteDue(c) \/ Remind(c)
      PROVE  PublishingTypeOK'
  <2>1. reminded' \subseteq {"first", "final"}
    <3>1. \A x : ReminderDue(x) \subseteq {"first", "final"}
        BY DEF ReminderDue
    <3>. QED BY <1>5, <3>1 DEF Claim, PublishDue, CompleteDue, Remind
  <2>2. early' \in BOOLEAN
      BY <1>5, ActEffect
  <2>. QED BY <1>5, <2>1, <2>2, ActEffect, RowTypes DEF bounds
<1>6. CASE Advance
    BY <1>6 DEF Advance, history, bounds
<1>7. CASE SubmitLink
    BY <1>7 DEF SubmitLink, history, bounds
<1>8. ASSUME NEW p \in Runners, DispatchStep(p)
      PROVE  PublishingTypeOK'
  <2>1. item' \in Rows
      BY <1>8 DEF DispatchStep, BeginDispatch, Tell, Rows, Statuses
  <2>. QED BY <1>8, <2>1 DEF DispatchStep, BeginDispatch, Tell, history, bounds
<1>9. ASSUME NEW p \in Runners, FailDispatch(p)
      PROVE  PublishingTypeOK'
  <2>1. item' \in Rows
      BY <1>9 DEF FailDispatch, Rows, Statuses
  <2>2. told' \in Nat
      BY <1>9 DEF FailDispatch
  <2>. QED BY <1>9, <2>1, <2>2 DEF FailDispatch, history
<1>10. ASSUME NEW p \in Runners, Crash(p)
       PROVE  PublishingTypeOK'
  <2>1. staff' \in [Staff -> Requests] /\ cron' \in [Instances -> Requests]
      BY <1>10, RowTypes DEF Crash
  <2>. QED BY <1>10, <2>1 DEF Crash, history
<1>11. CASE UNCHANGED vars
    BY <1>11 DEF vars, history, bounds
<1>. QED BY <1>1, <1>2, <1>3, <1>4, <1>5, <1>6, <1>7, <1>8, <1>9, <1>10, <1>11 DEF Next, ClockStep

-----------------------------------------------------------------------------
(* What has been sent.                                                     *)

On(p) == dispatch[p] # "off"

\* A tick goes by what was due when it listed it.
ListedDue ==
    \A c \in Instances : cron[c].busy /\ kind # "campaign" => Due(cron[c].seen)

\* Only broadcasts are dispatched.
OnlyBroadcasts == kind # "broadcast" => told = 0 /\ \A p \in Runners : ~On(p)

\* One dispatch at a time, of a row that says so, and none that went through before.
OneDispatch ==
    ~stale =>
        /\ \A p, q \in Runners : On(p) /\ On(q) => p = q
        /\ \A p \in Runners : On(p) => item.status \in {"sent", "deleted"} /\ told <= fails
        /\ item.status \notin {"sent", "deleted"} => told <= fails
        /\ told <= 1 + fails

SentInv == ListedDue /\ OnlyBroadcasts /\ OneDispatch /\ ~early

LEMMA SentStart == Init => SentInv
BY DEF Init, SentInv, ListedDue, OnlyBroadcasts, OneDispatch, On, Idle, NoItem

\* Nobody new is on the way and nothing was told: the row decides.
LEMMA SentStays ==
    ASSUME SentInv, PublishingTypeOK, UNCHANGED <<kind, told, fails>>, stale => stale',
           \A p \in Runners : On(p)' => On(p),
           item.status = "deleted" => item'.status = "deleted",
           ~stale' /\ item.status = "sent" => item'.status \in {"sent", "deleted"}
    PROVE  OnlyBroadcasts' /\ OneDispatch'
<1>1. told \in Nat /\ fails \in Nat
    BY DEF PublishingTypeOK
<1>2. OnlyBroadcasts'
    BY DEF SentInv, OnlyBroadcasts
<1>3. ASSUME ~stale'
      PROVE  OneDispatch'
  <2>1. OneDispatch /\ ~stale
      BY <1>3 DEF SentInv
  <2>2. told <= 1 + fails
      BY <1>1, <2>1 DEF OneDispatch
  <2>3. \A p \in Runners : On(p)' => item'.status \in {"sent", "deleted"} /\ told <= fails
      BY <1>1, <1>3, <2>1 DEF OneDispatch
  <2>4. item'.status \notin {"sent", "deleted"} => told <= fails
      BY <1>1, <1>3, <2>1 DEF OneDispatch
  <2>. QED BY <2>1, <2>2, <2>3, <2>4 DEF OneDispatch
<1>. QED BY <1>2, <1>3 DEF OneDispatch

\* What has been listed stays due, as time does not go back.
LEMMA ListedStays ==
    ASSUME SentInv, PublishingTypeOK, kind' = kind, now' \in Nat, now <= now',
           \A c \in Instances : cron'[c].busy => cron'[c] = cron[c]
    PROVE  ListedDue'
<1>. SUFFICES ASSUME NEW c \in Instances, cron'[c].busy, kind # "campaign"
              PROVE  cron'[c].seen.at # NoDate /\ cron'[c].seen.at <= 5 * now'
    BY DEF ListedDue, Due, Clock
<1>1. cron'[c] = cron[c] /\ cron[c] \in Requests
    BY DEF PublishingTypeOK
<1>2. cron[c].seen.at # NoDate /\ cron[c].seen.at <= 5 * now
    BY <1>1 DEF SentInv, ListedDue, Due, Clock
<1>3. cron[c].seen.at \in Nat /\ now \in Nat
    BY <1>1 DEF Requests, Rows, PublishingTypeOK
<1>. QED BY <1>1, <1>2, <1>3

\* A dispatch that begins, where there was none, of a broadcast that was not sent.
LEMMA SentBegins ==
    ASSUME SentInv, PublishingTypeOK, NEW p \in Runners,
           dispatch' = [dispatch EXCEPT ![p] = "begin"], kind = "broadcast",
           UNCHANGED <<kind, told, fails>>, stale => stale',
           ~stale' => item.status \notin {"sent", "deleted"}, item'.status = "sent"
    PROVE  OnlyBroadcasts' /\ OneDispatch'
<1>1. told \in Nat /\ fails \in Nat /\ dispatch \in [Runners -> {"off", "begin", "tell"}]
    BY DEF PublishingTypeOK
<1>2. ASSUME ~stale'
      PROVE  OneDispatch'
  <2>1. told <= fails /\ \A r \in Runners : ~On(r)
      BY <1>2 DEF SentInv, OneDispatch
  <2>2. \A r \in Runners : On(r)' => r = p
      BY <1>1, <2>1 DEF On
  <2>3. told <= 1 + fails
      BY <1>1, <2>1
  <2>. QED BY <2>1, <2>2, <2>3 DEF OneDispatch
<1>. QED BY <1>2 DEF OneDispatch, OnlyBroadcasts

LEMMA SentStep == PublishingTypeOK /\ SentInv /\ [Next]_vars => SentInv'
<1>. SUFFICES ASSUME PublishingTypeOK, SentInv, [Next]_vars PROVE SentInv'
    OBVIOUS
<1>0. PublishingTypeOK'
    BY TypesStep
<1>1. /\ kind \in Kinds /\ now \in Nat /\ item \in Rows /\ told \in Nat /\ fails \in Nat
      /\ staff \in [Staff -> Requests] /\ cron \in [Instances -> Requests]
      /\ dispatch \in [Runners -> {"off", "begin", "tell"}]
      /\ now <= now
    BY <1>0 DEF PublishingTypeOK
<1>2. ListedDue /\ OnlyBroadcasts /\ OneDispatch /\ ~early
    BY DEF SentInv
<1>3. ASSUME NEW s \in Staff, Create(s)
      PROVE  SentInv'
  <2>1. item.status = "none" /\ UNCHANGED <<kind, now, cron, told, stale, early, fails>>
      BY <1>3 DEF Create, bounds
  <2>2. ListedDue'
      BY <1>1, <2>1, ListedStays
  <2>3. s \in Runners
      BY DEF Runners
  <2>4. OnlyBroadcasts' /\ OneDispatch'
    <3>1. CASE dispatch' = dispatch
        BY <1>1, <2>1, <3>1, SentStays DEF On
    <3>2. CASE kind = "broadcast" /\ item'.status = "sent" /\ dispatch' = [dispatch EXCEPT ![s] = "begin"]
        BY <2>1, <2>3, <3>2, SentBegins
    <3>. QED BY <1>3, <3>1, <3>2, CreateEffect
  <2>. QED BY <1>2, <2>1, <2>2, <2>4 DEF SentInv
<1>4. ASSUME NEW s \in Staff, FinishEdit(s)
      PROVE  SentInv'
  <2>1. PICK new \in Rows :
               /\ staff[s].busy /\ Save(s, new)
               /\ \/ /\ dispatch' = dispatch
                     /\ kind = "broadcast" => new.status = "deleted" \/ staff[s].seen.status # "sent"
                  \/ /\ dispatch' = [dispatch EXCEPT ![s] = "begin"]
                     /\ kind = "broadcast" /\ new.status = "sent" /\ item.status # "deleted"
                     /\ staff[s].seen.status # "sent"
      BY <1>4, EditEffect
  <2>2. /\ UNCHANGED <<kind, now, cron, told, early, fails>>
        /\ item' = (IF item.status = "deleted" THEN item ELSE new)
        /\ stale' = (stale \/ item # staff[s].seen)
      BY <2>1 DEF Save, bounds
  <2>3. ListedDue'
      BY <1>1, <2>2, ListedStays
  <2>4. s \in Runners
      BY DEF Runners
  <2>5. CASE kind = "broadcast"
    <3>1. CASE dispatch' = dispatch
      <4>1. ~stale' /\ item.status = "sent" => item'.status \in {"sent", "deleted"}
          BY <2>1, <2>2, <2>5, <3>1
      <4>2. item.status = "deleted" => item'.status = "deleted"
          BY <2>2
      <4>3. OnlyBroadcasts' /\ OneDispatch'
          BY <1>1, <2>2, <3>1, <4>1, <4>2, SentStays DEF On
      <4>. QED BY <1>2, <2>2, <2>3, <4>3 DEF SentInv
    <3>2. CASE dispatch' # dispatch
      <4>1. dispatch' = [dispatch EXCEPT ![s] = "begin"] /\ item'.status = "sent"
            /\ item.status # "deleted" /\ staff[s].seen.status # "sent"
          BY <2>1, <2>2, <3>2
      <4>2. ~stale' => item.status \notin {"sent", "deleted"}
          BY <2>2, <4>1
      <4>3. OnlyBroadcasts' /\ OneDispatch'
          BY <2>2, <2>4, <2>5, <4>1, <4>2, SentBegins
      <4>. QED BY <1>2, <2>2, <2>3, <4>3 DEF SentInv
    <3>. QED BY <3>1, <3>2
  <2>6. CASE kind # "broadcast"
    <3>1. dispatch' = dispatch
        BY <2>1, <2>6
    <3>2. told = 0 /\ \A p \in Runners : ~On(p) /\ ~On(p)'
        BY <1>2, <2>6, <3>1 DEF OnlyBroadcasts, On
    <3>3. OnlyBroadcasts' /\ OneDispatch'
        BY <1>1, <2>2, <3>2 DEF OnlyBroadcasts, OneDispatch
    <3>. QED BY <1>2, <2>2, <2>3, <3>3 DEF SentInv
  <2>. QED BY <2>5, <2>6
<1>5. ASSUME NEW c \in Instances, StartTick(c)
      PROVE  SentInv'
  <2>1. UNCHANGED <<kind, now, item, dispatch, told, stale, early, fails>>
        /\ cron' = [cron EXCEPT ![c] = IF Listed THEN [busy |-> TRUE, seen |-> item] ELSE Idle]
      BY <1>5 DEF StartTick, history, bounds
  <2>2. OnlyBroadcasts' /\ OneDispatch'
      BY <1>1, <2>1, SentStays DEF On
  <2>3. ASSUME NEW d \in Instances, cron'[d].busy, kind # "campaign"
        PROVE  Due(cron'[d].seen)
    <3>1. CASE d = c /\ Listed
        BY <1>1, <2>1, <2>3, <3>1 DEF Listed
    <3>2. CASE d = c /\ ~Listed
        BY <1>1, <2>1, <2>3, <3>2 DEF Idle
    <3>3. CASE d # c
        BY <1>1, <1>2, <2>1, <2>3, <3>3 DEF ListedDue
    <3>. QED BY <3>1, <3>2, <3>3
  <2>4. ListedDue'
      BY <2>1, <2>3 DEF ListedDue, Due, Clock
  <2>. QED BY <1>2, <2>1, <2>2, <2>4 DEF SentInv
<1>6. ASSUME NEW c \in Instances, Claim(c) \/ PublishDue(c) \/ CompleteDue(c) \/ Remind(c)
      PROVE  SentInv'
  <2>1. /\ cron[c].busy /\ cron' = [cron EXCEPT ![c] = Idle]
        /\ early' = (early \/ (item = cron[c].seen /\ item' # item /\ ~Due(item)))
        /\ UNCHANGED <<kind, now, told, stale, fails>>
      BY <1>6, ActEffect DEF bounds
  <2>2. \A d \in Instances : cron'[d].busy => cron'[d] = cron[d]
      BY <1>1, <2>1 DEF Idle
  <2>3. ListedDue'
      BY <1>1, <2>1, <2>2, ListedStays
  <2>4. ~early'
    <3>1. CASE kind = "campaign"
      <4>1. CASE CompleteDue(c)
          BY <1>2, <2>1, <4>1 DEF CompleteDue
      <4>2. CASE Remind(c)
          BY <1>2, <2>1, <4>2 DEF Remind, Act
      <4>. QED BY <1>6, <3>1, <4>1, <4>2 DEF Claim, PublishDue
    <3>2. CASE kind # "campaign"
        BY <1>2, <2>1, <3>2 DEF ListedDue
    <3>. QED BY <3>1, <3>2
  <2>5. OnlyBroadcasts' /\ OneDispatch'
    <3>1. CASE Claim(c) /\ item.status = "scheduled"
      <4>1. item'.status = "sent" /\ dispatch' = [dispatch EXCEPT ![c] = "begin"] /\ kind = "broadcast"
          BY <1>1, <3>1 DEF Claim, Act, Rows
      <4>. QED BY <2>1, <3>1, <4>1, SentBegins DEF Runners
    <3>2. CASE Claim(c) /\ item.status # "scheduled"
      <4>1. item'.status = item.status /\ dispatch' = dispatch
          BY <1>1, <3>2 DEF Claim, Act, Rows
      <4>. QED BY <1>1, <2>1, <4>1, SentStays DEF On
    <3>3. CASE kind # "broadcast"
      <4>1. dispatch' = dispatch
          BY <1>6, <3>3 DEF Claim, PublishDue, CompleteDue, Remind
      <4>2. told = 0 /\ \A p \in Runners : ~On(p) /\ ~On(p)'
          BY <1>2, <3>3, <4>1 DEF OnlyBroadcasts, On
      <4>. QED BY <1>1, <2>1, <4>2 DEF OnlyBroadcasts, OneDispatch
    <3>. QED BY <1>6, <3>1, <3>2, <3>3 DEF PublishDue, CompleteDue, Remind
  <2>. QED BY <2>3, <2>4, <2>5 DEF SentInv
<1>7. CASE Advance
  <2>1. UNCHANGED <<kind, item, cron, dispatch, told, stale, early, fails>> /\ now <= now' /\ now' \in Nat
      BY <1>1, <1>7 DEF Advance, history, bounds
  <2>2. ListedDue'
      BY <1>1, <2>1, ListedStays
  <2>3. OnlyBroadcasts' /\ OneDispatch'
      BY <1>1, <2>1, SentStays DEF On
  <2>. QED BY <1>2, <2>1, <2>2, <2>3 DEF SentInv
<1>8. CASE SubmitLink \/ UNCHANGED vars \/ \E s \in Staff : BeginEdit(s)
  <2>1. UNCHANGED <<kind, now, item, cron, dispatch, told, stale, early, fails>>
      BY <1>8 DEF SubmitLink, BeginEdit, vars, history, bounds
  <2>. QED BY <1>2, <2>1 DEF SentInv, ListedDue, OnlyBroadcasts, OneDispatch, On, Due, Clock
<1>9. ASSUME NEW p \in Runners, DispatchStep(p)
      PROVE  SentInv'
  <2>1. UNCHANGED <<kind, now, cron, stale, early, fails>> /\ On(p)
        /\ \A r \in Runners : On(r)' => On(r)
      BY <1>1, <1>9 DEF DispatchStep, BeginDispatch, Tell, history, bounds, On
  <2>2. ListedDue'
      BY <1>1, <2>1, ListedStays
  <2>3. OnlyBroadcasts' /\ OneDispatch'
    <3>1. CASE BeginDispatch(p)
      <4>1. told' = told /\ (item.status = "deleted" => item'.status = "deleted")
            /\ (item.status = "sent" => item'.status = "sent")
          BY <1>1, <3>1 DEF BeginDispatch, Rows
      <4>. QED BY <1>1, <2>1, <4>1, SentStays
    <3>2. CASE Tell(p)
      <4>1. told' = told + 1 /\ item' = item /\ \A r \in Runners : r # p => dispatch'[r] = dispatch[r]
          BY <1>1, <3>2 DEF Tell
      <4>2. ~On(p)' /\ kind = "broadcast"
          BY <1>1, <1>2, <2>1, <3>2 DEF On, OnlyBroadcasts, Tell
      <4>3. ASSUME ~stale
            PROVE  OneDispatch'
        <5>1. told <= fails /\ item.status \in {"sent", "deleted"} /\ \A r \in Runners : On(r) => r = p
            BY <1>2, <2>1, <4>3 DEF OneDispatch
        <5>2. \A r \in Runners : ~On(r)'
            BY <2>1, <4>2, <5>1
        <5>3. told' <= 1 + fails
            BY <1>1, <4>1, <5>1
        <5>. QED BY <2>1, <4>1, <5>1, <5>2, <5>3 DEF OneDispatch
      <4>. QED BY <2>1, <4>2, <4>3 DEF OneDispatch, OnlyBroadcasts
    <3>. QED BY <1>9, <3>1, <3>2 DEF DispatchStep
  <2>. QED BY <1>2, <2>1, <2>2, <2>3 DEF SentInv
<1>10. ASSUME NEW p \in Runners, FailDispatch(p)
       PROVE  SentInv'
  <2>1. /\ UNCHANGED <<kind, now, cron, stale, early>> /\ On(p) /\ fails' = fails + 1
        /\ dispatch' = [dispatch EXCEPT ![p] = "off"] /\ told' \in {told, told + 1}
        /\ (item.status = "deleted" => item' = item)
      BY <1>10 DEF FailDispatch, history, On
  <2>2. ListedDue'
      BY <1>1, <2>1, ListedStays
  <2>3. kind = "broadcast"
      BY <1>2, <2>1 DEF OnlyBroadcasts
  <2>4. ASSUME ~stale
        PROVE  OneDispatch'
    <3>1. told <= fails /\ \A r \in Runners : On(r) => r = p
        BY <1>2, <2>1, <2>4 DEF OneDispatch
    <3>2. \A r \in Runners : ~On(r)'
        BY <1>1, <2>1, <3>1 DEF On
    <3>3. told' <= fails' /\ told' <= 1 + fails'
        BY <1>1, <2>1, <3>1
    <3>. QED BY <3>2, <3>3 DEF OneDispatch
  <2>5. OnlyBroadcasts' /\ OneDispatch'
      BY <2>1, <2>3, <2>4 DEF OneDispatch, OnlyBroadcasts
  <2>. QED BY <1>2, <2>1, <2>2, <2>5 DEF SentInv
<1>11. ASSUME NEW p \in Runners, Crash(p)
       PROVE  SentInv'
  <2>1. UNCHANGED <<kind, now, item, told, stale, early, fails>>
        /\ dispatch' = [dispatch EXCEPT ![p] = "off"]
      BY <1>11 DEF Crash, history
  <2>2. \A c \in Instances : cron'[c].busy => cron'[c] = cron[c]
      BY <1>1, <1>11 DEF Crash, Idle
  <2>3. ListedDue'
      BY <1>1, <2>1, <2>2, ListedStays
  <2>4. \A r \in Runners : On(r)' => On(r)
      BY <1>1, <2>1 DEF On
  <2>5. OnlyBroadcasts' /\ OneDispatch'
      BY <1>1, <2>1, <2>4, SentStays
  <2>. QED BY <1>2, <2>1, <2>3, <2>5 DEF SentInv
<1>. QED BY <1>3, <1>4, <1>5, <1>6, <1>7, <1>8, <1>9, <1>10, <1>11 DEF Next, ClockStep

\* Every request, tick, dispatch and crash keeps the shape of the rows.
THEOREM PublishingTypeCorrect == Spec => []PublishingTypeOK
<1>. QED BY TypesStart, TypesStep, PTL DEF Spec

\* claimScheduled, dispatchBroadcast and the staff requests send a broadcast once between
\* them, and no tick acts before the date, for any number of instances and requests.
THEOREM PublishingSendsOnce == Spec => []SentOnce
<1>1. SentInv => SentOnce
    BY DEF SentInv, OneDispatch, SentOnce
<1>. QED BY <1>1, TypesStart, TypesStep, SentStart, SentStep, PTL DEF Spec

-----------------------------------------------------------------------------
(* Who has been reminded.                                                  *)

\* The reminder that the tick t sends for row x.
DueAt(x, t) ==
    LET left == x.at - 5 * t
        duration == x.at - x.since
        first == FirstReminder(duration)
    IN  IF duration >= 5 * 24 /\ InWindow(left, 2) THEN {"final"}
        ELSE IF InWindow(left, first) THEN {IF first = 2 THEN "final" ELSE "first"} ELSE {}

\* The campaign that EveryReminder is about.
Untouched == kind = "campaign" /\ edits = 0 /\ crashes <= 1 /\ ~linked

RowInv ==
    /\ \A s \in Staff : ~staff[s].busy
    /\ item.status \in {"none", "draft", "active", "completed"}
    /\ item.status # "none" => item.since <= Clock
    /\ item.status = "completed" => item.at <= Clock
    /\ \A c \in Instances : cron[c].busy =>
          /\ item.status \in {"active", "completed"}
          /\ cron[c].seen.at = item.at /\ cron[c].seen.since = item.since

\* Every tick since the campaign was created sent what was due.
PastInv ==
    item.status \in {"active", "completed"} =>
        \A t \in Nat : item.since < 5 * t /\ t < now => DueAt(item, t) \subseteq reminded

\* An instance is done with the current tick: it acted, or was killed.
Done(c) == c \in ticked /\ ~cron[c].busy

TickInv ==
    item.status \in {"active", "completed"} /\ item.since < Clock =>
        /\ crashes = 0 => \A c \in Instances : Done(c) => DueAt(item, now) \subseteq reminded
        /\ \A c, d \in Instances : c # d /\ Done(c) /\ Done(d) => DueAt(item, now) \subseteq reminded

RemindInv == Untouched => RowInv /\ PastInv /\ TickInv

\* A tick after the end has nothing to remind of.
LEMMA NothingAfterEnd ==
    ASSUME NEW x \in Rows, NEW t \in Nat, x.at <= 5 * t
    PROVE  DueAt(x, t) = {}
<1>1. x.at \in Nat /\ x.since \in Nat
    BY DEF Rows
<1>2. \A n \in Int : FirstReminder(n) \in {2, 12, 24, 48}
    BY DEF FirstReminder
<1>3. FirstReminder(x.at - x.since) \in {2, 12, 24, 48}
    BY <1>1, <1>2
<1>. QED BY <1>1, <1>3 DEF DueAt, InWindow

\* Of the row, only its dates count.
LEMMA DueByDates ==
    ASSUME NEW x, NEW y, NEW t, x.at = y.at, x.since = y.since
    PROVE  DueAt(x, t) = DueAt(y, t)
BY DEF DueAt

LEMMA RemindStart == Init => RemindInv
BY DEF Init, RemindInv, RowInv, PastInv, TickInv, NoItem, Idle

LEMMA RemindStep == PublishingTypeOK /\ SentInv /\ RemindInv
                    /\ (\E c, d \in Instances : c # d) /\ [Next]_vars => RemindInv'
<1>. SUFFICES ASSUME PublishingTypeOK, SentInv, RemindInv, [Next]_vars, Untouched',
                     \E c, d \in Instances : c # d
              PROVE  RowInv' /\ PastInv' /\ TickInv'
    BY DEF RemindInv
<1>0. PublishingTypeOK'
    BY TypesStep
<1>1. /\ now \in Nat /\ item \in Rows /\ item' \in Rows /\ edits \in Nat /\ crashes \in Nat
      /\ item.at \in Nat /\ item.since \in Nat /\ item'.at \in Nat /\ item'.since \in Nat
      /\ staff \in [Staff -> Requests] /\ cron \in [Instances -> Requests]
      /\ ticked \subseteq Instances
    BY <1>0 DEF PublishingTypeOK, Rows
<1>2. ASSUME NEW s \in Staff, Create(s), Untouched
      PROVE  RowInv' /\ PastInv' /\ TickInv'
  <2>1. RowInv /\ kind = "campaign"
      BY <1>2 DEF RemindInv, Untouched
  <2>2. item.status = "none" /\ UNCHANGED <<now, staff, cron>>
      BY <1>2 DEF Create
  <2>3. item'.since = Clock /\ item'.status \in {"draft", "active"}
      BY <1>2, <2>1, CreateEffect
  <2>4. RowInv'
    <3>1. \A c \in Instances : ~cron'[c].busy
        BY <2>1, <2>2 DEF RowInv
    <3>. QED BY <1>1, <2>1, <2>2, <2>3, <3>1 DEF RowInv, Clock
  <2>5. PastInv'
      BY <1>1, <2>2, <2>3 DEF PastInv, Clock
  <2>6. TickInv'
      BY <1>1, <2>2, <2>3 DEF TickInv, Clock
  <2>. QED BY <2>4, <2>5, <2>6
<1>3. ASSUME NEW s \in Staff, BeginEdit(s)
      PROVE  FALSE
    BY <1>1, <1>3 DEF BeginEdit, Untouched
<1>4. ASSUME NEW s \in Staff, FinishEdit(s), Untouched
      PROVE  FALSE
    BY <1>4 DEF FinishEdit, RemindInv, RowInv
<1>5. ASSUME NEW c \in Instances, StartTick(c), Untouched
      PROVE  RowInv' /\ PastInv' /\ TickInv'
  <2>1. RowInv /\ PastInv /\ TickInv /\ kind = "campaign"
      BY <1>5 DEF RemindInv, Untouched
  <2>2. /\ UNCHANGED <<now, item, staff, reminded, crashes>> /\ ticked' = ticked \cup {c}
        /\ cron' = [cron EXCEPT ![c] = IF Listed THEN [busy |-> TRUE, seen |-> item] ELSE Idle]
      BY <1>5 DEF StartTick, bounds
  <2>3. Listed <=> item.status = "active"
      BY <2>1 DEF Listed
  <2>4. RowInv'
    <3>1. \A d \in Instances : cron'[d].busy =>
              /\ item.status \in {"active", "completed"}
              /\ cron'[d].seen.at = item.at /\ cron'[d].seen.since = item.since
        BY <1>1, <2>1, <2>2, <2>3 DEF RowInv, Idle
    <3>. QED BY <2>1, <2>2, <3>1 DEF RowInv, Clock
  <2>5. PastInv'
      BY <2>1, <2>2 DEF PastInv
  <2>6. TickInv'
    <3>1. CASE item.status # "active"
      <4>1. item.status = "completed" => item.at <= 5 * now
          BY <2>1 DEF RowInv, Clock
      <4>2. item.status = "completed" => DueAt(item, now) = {}
          BY <1>1, <4>1, NothingAfterEnd
      <4>. QED BY <2>2, <3>1, <4>2 DEF TickInv
    <3>2. CASE item.status = "active"
      <4>1. \A d \in Instances : Done(d)' => Done(d)
          BY <1>1, <2>2, <2>3, <3>2 DEF Done
      <4>. QED BY <2>1, <2>2, <4>1 DEF TickInv, Clock
    <3>. QED BY <3>1, <3>2
  <2>. QED BY <2>4, <2>5, <2>6
<1>6. ASSUME NEW c \in Instances, CompleteDue(c) \/ Remind(c), Untouched
      PROVE  RowInv' /\ PastInv' /\ TickInv'
  <2>1. RowInv /\ PastInv /\ TickInv /\ ~linked
      BY <1>6 DEF RemindInv, Untouched
  <2>2. /\ UNCHANGED <<now, staff, ticked, crashes>> /\ cron[c].busy
        /\ cron' = [cron EXCEPT ![c] = Idle]
        /\ item'.at = item.at /\ item'.since = item.since
      BY <1>6, ActEffect DEF bounds
  <2>3. item.status \in {"active", "completed"}
        /\ cron[c].seen.at = item.at /\ cron[c].seen.since = item.since
      BY <2>1, <2>2 DEF RowInv
  <2>4. /\ item'.status \in {item.status, "completed"}
        /\ item'.status # item.status => item.at <= Clock
    <3>1. CASE CompleteDue(c)
        BY <1>1, <2>3, <3>1 DEF CompleteDue, Act, Due, Rows
    <3>2. CASE Remind(c)
        BY <3>2 DEF Remind, Act
    <3>. QED BY <1>6, <3>1, <3>2
  <2>5. reminded \subseteq reminded'
      BY <1>6 DEF CompleteDue, Remind
  <2>6. DueAt(item, now) \subseteq reminded'
    <3>1. CASE CompleteDue(c)
      <4>1. item.at <= 5 * now
          BY <2>3, <3>1 DEF CompleteDue, Due, Clock
      <4>. QED BY <1>1, <4>1, NothingAfterEnd
    <3>2. CASE Remind(c)
      <4>1. reminded' = reminded \cup ReminderDue(cron[c].seen)
          BY <2>1, <3>2 DEF Remind
      <4>2. ReminderDue(cron[c].seen) = DueAt(cron[c].seen, now)
          BY DEF ReminderDue, DueAt, Clock
      <4>3. DueAt(cron[c].seen, now) = DueAt(item, now)
          BY <2>3, DueByDates
      <4>. QED BY <4>1, <4>2, <4>3
    <3>. QED BY <1>6, <3>1, <3>2
  <2>7. \A t : DueAt(item', t) = DueAt(item, t)
      BY <2>2 DEF DueAt
  <2>8. RowInv'
    <3>1. \A d \in Instances : cron'[d].busy => cron'[d] = cron[d]
        BY <1>1, <2>2 DEF Idle
    <3>2. \A d \in Instances : cron'[d].busy =>
              /\ item'.status \in {"active", "completed"}
              /\ cron'[d].seen.at = item'.at /\ cron'[d].seen.since = item'.since
        BY <2>1, <2>2, <2>3, <2>4, <3>1 DEF RowInv
    <3>3. item'.status = "completed" => item'.at <= Clock
        BY <2>1, <2>2, <2>4 DEF RowInv
    <3>. QED BY <2>1, <2>2, <2>3, <2>4, <3>2, <3>3 DEF RowInv, Clock
  <2>9. PastInv'
      BY <2>1, <2>2, <2>3, <2>5, <2>7 DEF PastInv
  <2>10. TickInv'
      BY <2>2, <2>6, <2>7 DEF TickInv
  <2>. QED BY <2>8, <2>9, <2>10
<1>7. ASSUME Advance, Untouched
      PROVE  RowInv' /\ PastInv' /\ TickInv'
  <2>1. RowInv /\ PastInv /\ TickInv /\ kind = "campaign"
      BY <1>7 DEF RemindInv, Untouched
  <2>2. /\ UNCHANGED <<item, staff, cron, reminded, crashes>> /\ ticked' = {}
        /\ now' \in {now, now + 1}
        /\ \A c \in Instances : Done(c)
      BY <1>7, <2>1 DEF Advance, Done, bounds
  <2>3. item.status \in {"active", "completed"} /\ item.since < 5 * now
           => DueAt(item, now) \subseteq reminded
      BY <2>1, <2>2 DEF TickInv, Clock
  <2>4. RowInv'
    <3>1. item.status = "completed" => item.at <= 5 * now'
        BY <1>1, <2>1, <2>2 DEF RowInv, Clock
    <3>2. item.status # "none" => item.since <= 5 * now'
        BY <1>1, <2>1, <2>2 DEF RowInv, Clock
    <3>. QED BY <2>1, <2>2, <3>1, <3>2 DEF RowInv, Clock
  <2>5. PastInv'
    <3>. SUFFICES ASSUME item.status \in {"active", "completed"},
                         NEW t \in Nat, item.since < 5 * t, t < now'
                  PROVE  DueAt(item, t) \subseteq reminded
        BY <2>2 DEF PastInv
    <3>1. CASE t = now
        BY <2>3, <3>1
    <3>2. CASE t # now
      <4>1. t < now
          BY <1>1, <2>2, <3>2
      <4>. QED BY <2>1, <4>1 DEF PastInv
    <3>. QED BY <3>1, <3>2
  <2>6. TickInv'
      BY <2>2 DEF TickInv, Done
  <2>. QED BY <2>4, <2>5, <2>6
<1>8. ASSUME SubmitLink
      PROVE  FALSE
    BY <1>8 DEF SubmitLink, Untouched
<1>9. ASSUME NEW p \in Runners, DispatchStep(p) \/ FailDispatch(p), Untouched
      PROVE  FALSE
    BY <1>9 DEF DispatchStep, BeginDispatch, Tell, FailDispatch, SentInv, OnlyBroadcasts, On, Untouched
<1>10. ASSUME NEW p \in Runners, Crash(p), Untouched
       PROVE  RowInv' /\ PastInv' /\ TickInv'
  <2>1. RowInv /\ PastInv /\ TickInv
      BY <1>10 DEF RemindInv
  <2>2. /\ UNCHANGED <<now, item, staff, ticked, reminded>> /\ crashes' = crashes + 1
        /\ cron' = [cron EXCEPT ![p] = Idle]
      BY <1>10, <2>1 DEF Crash, RowInv
  <2>3. crashes = 0
      BY <1>1, <2>2 DEF Untouched
  <2>4. \A c \in Instances : c # p => cron'[c] = cron[c]
      BY <1>1, <2>2
  <2>5. \A c \in Instances : cron'[c].busy => cron'[c] = cron[c]
      BY <1>1, <2>2 DEF Idle
  <2>6. RowInv'
      BY <2>1, <2>2, <2>5 DEF RowInv, Clock
  <2>7. PastInv'
      BY <2>1, <2>2 DEF PastInv
  <2>8. TickInv'
    <3>1. crashes' # 0
        BY <1>1, <2>2
    <3>2. \A c, d \in Instances : c # d /\ Done(c)' /\ Done(d)' => Done(c) \/ Done(d)
        BY <2>2, <2>4 DEF Done
    <3>. QED BY <2>1, <2>2, <2>3, <3>1, <3>2 DEF TickInv, Clock
  <2>. QED BY <2>6, <2>7, <2>8
<1>11. CASE UNCHANGED vars
    BY <1>11 DEF vars, history, bounds, RemindInv, Untouched, RowInv, PastInv, TickInv, Done, Clock
<1>12. Untouched
  <2>1. kind' = kind /\ edits <= edits' /\ crashes <= crashes' /\ (linked => linked')
    <3>1. \A s \in Staff : Create(s) \/ BeginEdit(s) => kind' = kind /\ edits <= edits'
                                          /\ crashes <= crashes' /\ (linked => linked')
        BY <1>1 DEF Create, BeginEdit, bounds
    <3>2. ASSUME NEW s \in Staff, FinishEdit(s)
          PROVE  UNCHANGED <<kind, linked, bounds>>
      <4>1. \E new \in Rows : Save(s, new)
          BY <3>2, EditEffect
      <4>. QED BY <4>1 DEF Save
    <3>3. ASSUME NEW c \in Instances, ClockStep(c)
          PROVE  UNCHANGED <<kind, linked, bounds>>
        BY <3>3 DEF ClockStep, StartTick, Claim, PublishDue, CompleteDue, Remind, Act
    <3>4. Advance \/ SubmitLink => UNCHANGED <<kind, bounds>> /\ (linked => linked')
        BY DEF Advance, SubmitLink
    <3>5. \A p \in Runners : DispatchStep(p) \/ FailDispatch(p) \/ Crash(p) =>
              UNCHANGED <<kind, linked, edits>> /\ crashes <= crashes'
        BY <1>1 DEF DispatchStep, BeginDispatch, Tell, FailDispatch, Crash, bounds
    <3>. QED BY <1>1, <3>1, <3>2, <3>3, <3>4, <3>5 DEF Next, vars, bounds
  <2>2. edits' \in Nat /\ crashes' \in Nat
      BY <1>0 DEF PublishingTypeOK
  <2>. QED BY <1>1, <2>1, <2>2 DEF Untouched
<1>13. kind = "campaign"
    BY <1>12 DEF Untouched
<1>. QED BY <1>2, <1>3, <1>4, <1>5, <1>6, <1>7, <1>8, <1>9, <1>10, <1>11, <1>12, <1>13
     DEF Next, ClockStep, Claim, PublishDue

-----------------------------------------------------------------------------
(* The windows.                                                            *)

LEMMA Fives == \A n \in Nat : \E t \in Nat : 5 * t <= n /\ n <= 5 * t + 4
<1>. SUFFICES ASSUME NEW n \in Nat
              PROVE  \E t \in Nat : 5 * t <= n /\ n <= 5 * t + 4
    OBVIOUS
<1>1. n \div 5 \in Nat /\ 5 * (n \div 5) <= n /\ n <= 5 * (n \div 5) + 4
    OBVIOUS
<1>. QED BY <1>1

\* Wherever in the hour a campaign ends, a tick falls into every window of its reminders,
\* after the one at which it was created and before its end.
LEMMA WindowsAreHit ==
    ASSUME NEW x \in Rows, x.at - x.since >= 5 * 3
    PROVE  /\ \E t \in Nat : x.since < 5 * t /\ 5 * t < x.at /\ DueAt(x, t) = {"final"}
           /\ x.at - x.since >= 5 * 24 =>
                \E t \in Nat : x.since < 5 * t /\ 5 * t < x.at /\ DueAt(x, t) = {"first"}
<1> DEFINE first == FirstReminder(x.at - x.since)
<1>1. x.at \in Nat /\ x.since \in Nat
    BY DEF Rows
<1>2. \E t \in Nat : x.since < 5 * t /\ 5 * t < x.at /\ DueAt(x, t) = {"final"}
  <2>1. x.at - 5 \in Nat
      BY <1>1
  <2>2. PICK t \in Nat : 5 * t <= x.at - 5 /\ x.at - 5 <= 5 * t + 4
      BY <2>1, Fives
  <2>3. x.since < 5 * t /\ 5 * t < x.at
      BY <1>1, <2>2
  <2>4. InWindow(x.at - 5 * t, 2)
      BY <1>1, <2>2 DEF InWindow
  <2>5. x.at - x.since < 5 * 24 => first = 2
      BY <1>1 DEF FirstReminder
  <2>6. DueAt(x, t) = {"final"}
      BY <1>1, <2>4, <2>5 DEF DueAt
  <2>. QED BY <2>3, <2>6
<1>3. ASSUME x.at - x.since >= 5 * 24
      PROVE  \E t \in Nat : x.since < 5 * t /\ 5 * t < x.at /\ DueAt(x, t) = {"first"}
  <2>1. first \in {12, 24, 48} /\ 5 * first < x.at - x.since
      BY <1>1, <1>3 DEF FirstReminder
  <2>2. x.at - 5 * first + 5 \in Nat
      BY <1>1, <2>1
  <2>3. PICK t \in Nat : 5 * t <= x.at - 5 * first + 5 /\ x.at - 5 * first + 5 <= 5 * t + 4
      BY <2>2, Fives
  <2>4. x.since < 5 * t /\ 5 * t < x.at
      BY <1>1, <2>1, <2>3
  <2>5. InWindow(x.at - 5 * t, first) /\ ~InWindow(x.at - 5 * t, 2)
      BY <1>1, <2>1, <2>3 DEF InWindow
  <2>6. DueAt(x, t) = {"first"}
      BY <2>1, <2>5 DEF DueAt
  <2>. QED BY <2>4, <2>6
<1>. QED BY <1>2, <1>3

LEMMA RemindersServed == PublishingTypeOK /\ RemindInv => EveryReminder
<1>. SUFFICES ASSUME PublishingTypeOK, RemindInv,
                     kind = "campaign", item.status = "completed", edits = 0, crashes <= 1, ~linked,
                     item.at - item.since >= 5 * 3
              PROVE  "final" \in reminded /\ (item.at - item.since >= 5 * 24 => "first" \in reminded)
    BY DEF EveryReminder
<1>1. RowInv /\ PastInv /\ item \in Rows /\ now \in Nat /\ item.at \in Nat
    BY DEF RemindInv, Untouched, PublishingTypeOK, Rows
<1>2. item.at <= 5 * now
    BY <1>1 DEF RowInv, Clock
<1>3. \A t \in Nat : item.since < 5 * t /\ 5 * t < item.at => DueAt(item, t) \subseteq reminded
  <2>1. \A t \in Nat : 5 * t < item.at => t < now
      BY <1>1, <1>2
  <2>. QED BY <1>1, <2>1 DEF PastInv
<1>. QED BY <1>1, <1>3, WindowsAreHit

\* The hourly reminder windows of sendDeadlineReminders have no gap: with two instances at
\* least, one of which may die, whoever takes part in a campaign of three hours or more that
\* nobody touched has been sent every reminder when the cron completes it.
THEOREM RemindersComplete ==
    ASSUME NEW c \in Instances, NEW d \in Instances, c # d
    PROVE  Spec => []EveryReminder
<1>1. PublishingTypeOK /\ SentInv /\ RemindInv /\ [Next]_vars => RemindInv'
    BY RemindStep
<1>. QED BY <1>1, TypesStart, TypesStep, SentStart, SentStep, RemindStart, RemindersServed, PTL DEF Spec

-----------------------------------------------------------------------------
(* Reports.  Whatever request it is from, a figure of users counts those   *)
(* of whom Who holds, or tells the tier of one.                            *)

LEMMA TotalIs ==
    ASSUME NEW value, NEW S
    PROVE  Total(value, S) = SumOf(value, S)
BY DEF Total, MapThenSumSet, SumOf, FoldFunctionOnSet, MapThenFoldSet

LEMMA SeriesIs == ASSUME NEW f PROVE SeriesTotal(f) = SumOf(f, DOMAIN f)
BY DEF SeriesTotal, FoldFunction, SumOf

\* The first n of a key are those of the date.
Agrees(i, key, n) == \A k \in 1..n : key[k] = Calendar[i][k]

OfReach(reach) == ReportTier(Max({reach[1], reach[2]}))
Progress(row) == (IF row.role = "brand" THEN 25 ELSE 20) * row.done

Who(row, of, key) ==
    /\ of[1] = row.role
    /\ IF Len(of) = 1 THEN Agrees(row.created, key, Len(key))
       ELSE IF of[2] = "active"
       THEN IF row.login # 0 THEN Agrees(row.login, key, Len(key))
            ELSE Agrees(row.updated, key, Len(key)) \/ Agrees(row.created, key, Len(key))
       ELSE IF of[2] = "complete" THEN Progress(row) = 100
       ELSE Agrees(row.created, key, Len(key) - 1) /\ OfReach(row.reach) = key[Len(key)]

Counted(e, of, key) == {u \in DOMAIN e : Who(e[u], of, key)}
TierOf(row) == IF row.tier # 0 THEN row.tier ELSE OfReach(row.reach)

OfTier(of) == Len(of) = 2 /\ of[2] = "tier"
UserFigure(e, f) ==
    IF OfTier(f.of) THEN \E u \in DOMAIN e : f.key = <<u>> /\ f.n = TierOf(e[u])
                    ELSE f.n = Cardinality(Counted(e, f.of, f.key))

UserRec == [role : {"creator", "brand"}, created : DOMAIN Calendar, updated : DOMAIN Calendar,
            login : {0} \cup DOMAIN Calendar, reach : Nat \X Nat, tier : 0..4, done : 0..5,
            country : {"none"} \cup STRING]
UserOK(row) ==
    row \in UserRec /\ (row.role = "brand" => row.done <= 4) /\ (row.tier = 0 => row.reach = <<0, 0>>)
UsersOK ==
    /\ entry \in [DOMAIN entry -> UserRec] /\ DOMAIN entry \subseteq Registered
    /\ \A u \in DOMAIN entry : UserOK(entry[u])

LEMMA DateIs ==
    ASSUME NEW i \in DOMAIN Calendar
    PROVE  /\ Calendar[i] \in Seq(Nat) /\ Len(Calendar[i]) = 3
           /\ Calendar[i][2] \in 1..12 /\ Calendar[i][3] \in 1..31
<1>1. Calendar[i] \in Nat \X (1..12) \X (1..31)
    BY ReportsConstants
<1>2. PICK y \in Nat, m \in 1..12, d \in 1..31 : Calendar[i] = <<y, m, d>>
    BY <1>1
<1>3. <<y, m, d>> \in Seq(Nat) /\ Len(<<y, m, d>>) = 3
    OBVIOUS
<1>. QED BY <1>2, <1>3

LEMMA RangeIs ==
    ASSUME NEW range \in Ranges
    PROVE  range \in Seq(Nat) /\ Len(range) \in 0..2
<1>1. PICK date \in ToSet(Calendar) : range \in {SubSeq(date, 1, k) : k \in 0..2}
    BY DEF Ranges
<1>2. PICK k \in 0..2 : range = SubSeq(date, 1, k)
    BY <1>1
<1>3. PICK i \in DOMAIN Calendar : date = Calendar[i]
    BY DEF ToSet
<1>4. date \in Seq(Nat) /\ Len(date) = 3
    BY <1>3, DateIs
<1>. HIDE <1>1, <1>3
<1>5. k \in 0..2 /\ 1 \in 1..3
    OBVIOUS
<1>6. \A j \in 1..k : date[j] \in Nat
    BY SMTT(30), <1>4, <1>5
<1>. QED BY <1>2, <1>4, <1>5, <1>6

LEMMA PrefixIs ==
    ASSUME NEW d, d \in Seq(Nat), Len(d) = 3, NEW n \in 0..2
    PROVE  /\ SubSeq(d, 1, n) \in Seq(Nat) /\ Len(SubSeq(d, 1, n)) = n
           /\ \A k \in 1..n : SubSeq(d, 1, n)[k] = d[k]
<1>1. \A k \in 1..n : d[k] \in Nat
    BY SMTT(30)
<1>2. /\ SubSeq(d, 1, n) \in Seq(Nat) /\ Len(SubSeq(d, 1, n)) = IF 1 <= n THEN n - 1 + 1 ELSE 0
      /\ \A k \in 1..(n - 1 + 1) : SubSeq(d, 1, n)[k] = d[1 + k - 1]
    BY <1>1, SubSeqProperties
<1>3. n - 1 + 1 = n /\ (\A k \in 1..n : 1 + k - 1 = k) /\ (IF 1 <= n THEN n ELSE 0) = n
    OBVIOUS
<1>4. Len(SubSeq(d, 1, n)) = n
    BY <1>2, <1>3
<1>5. ASSUME NEW k \in 1..n PROVE SubSeq(d, 1, n)[k] = d[k]
  <2>1. k \in 1..(n - 1 + 1) /\ 1 + k - 1 = k
      BY <1>3
  <2>. QED BY <1>2, <2>1
<1>. QED BY <1>2, <1>4, <1>5

LEMMA WithinIs ==
    ASSUME NEW i \in DOMAIN Calendar, NEW range \in Seq(Nat), Len(range) \in 0..2
    PROVE  Within(i, range) <=> Agrees(i, range, Len(range))
<1>1. PICK d \in Seq(Nat) : d = Calendar[i] /\ Len(d) = 3
    BY DateIs
<1>2. PICK n \in 0..2 : n = Len(range)
    OBVIOUS
<1>3. SubSeq(range, 1, n) = range
    BY <1>2
<1>4. /\ SubSeq(d, 1, n) \in Seq(Nat) /\ Len(SubSeq(d, 1, n)) = n
      /\ \A k \in 1..n : SubSeq(d, 1, n)[k] = d[k]
    BY <1>1, PrefixIs
<1>5. range = SubSeq(d, 1, n) <=> \A k \in 1..n : range[k] = d[k]
  <2> DEFINE r == SubSeq(d, 1, n)
  <2>1. r \in Seq(Nat) /\ Len(r) = n /\ \A k \in 1..n : r[k] = d[k]
      BY <1>4
  <2>. HIDE DEF r
  <2>2. ASSUME \A k \in 1..n : range[k] = d[k]
        PROVE  range = r
    <3>1. \A k \in 1..Len(range) : range[k] = r[k]
        BY <1>2, <2>1, <2>2
    <3>. QED BY <1>2, <2>1, <3>1, SeqEqual
  <2>. QED BY <2>1, <2>2 DEF r
<1>6. IsPrefix(range, d) <=> range = SubSeq(d, 1, n)
    BY SMTT(30), <1>1, <1>2, <1>3 DEF IsPrefix
<1>. QED BY <1>1, <1>2, <1>5, <1>6 DEF Within, Agrees

LEMMA FurtherIs ==
    ASSUME NEW range \in Seq(Nat), NEW t \in Nat
    PROVE  /\ range \o <<t>> \in Seq(Nat) /\ Len(range \o <<t>>) = Len(range) + 1
           /\ (range \o <<t>>)[Len(range) + 1] = t
           /\ \A k \in 1..Len(range) : (range \o <<t>>)[k] = range[k]
<1>1. <<t>> \in Seq(Nat) /\ Len(<<t>>) = 1 /\ <<t>>[1] = t
    OBVIOUS
<1>2. Len(range) \in Nat
    OBVIOUS
<1>. QED BY <1>1, <1>2

\* Points.
LEMMA LeastOf == ASSUME NEW a \in Int, NEW b \in Int PROVE Min({a, b}) = IF a <= b THEN a ELSE b
<1>1. PICK least \in {a, b} : \A y \in {a, b} : least <= y
  <2>1. CASE a <= b
      BY <2>1
  <2>2. CASE ~(a <= b)
    <3>1. b <= a
        BY <2>2
    <3>. QED BY <3>1
  <2>. QED BY <2>1, <2>2
<1>2. Min({a, b}) \in {a, b} /\ \A y \in {a, b} : Min({a, b}) <= y
    BY <1>1 DEF Min
<1>. QED BY <1>2

LEMMA MostOf == ASSUME NEW a \in Int, NEW b \in Int PROVE Max({a, b}) = IF a >= b THEN a ELSE b
<1>1. PICK most \in {a, b} : \A y \in {a, b} : most >= y
  <2>1. CASE a >= b
      BY <2>1
  <2>2. CASE ~(a >= b)
    <3>1. b >= a
        BY <2>2
    <3>. QED BY <3>1
  <2>. QED BY <2>1, <2>2
<1>2. Max({a, b}) \in {a, b} /\ \A y \in {a, b} : Max({a, b}) >= y
    BY <1>1 DEF Max
<1>. QED BY <1>2

LEMMA PointIs ==
    ASSUME NEW i \in DOMAIN Calendar, NEW period \in DOMAIN Points
    PROVE  /\ PointOf(Calendar[i], period) \in Points[period]
           /\ period = "monthly" => PointOf(Calendar[i], period) = Calendar[i][2]
<1>1. PICK m \in 1..12, d \in 1..31 : m = Calendar[i][2] /\ d = Calendar[i][3]
    BY DateIs
<1>2. CASE period = "monthly"
    BY <1>1, <1>2 DEF Points, PointOf
<1>3. CASE period = "weekly"
  <2>1. (d - 1) \div 7 \in Nat
      BY <1>1
  <2>2. Min({(d - 1) \div 7, 3}) \in 0..3
      BY <2>1, LeastOf
  <2>. QED BY <1>1, <1>3, <2>2 DEF Points, PointOf
<1>4. CASE period = "daily"
  <2>1. Min({d - 1, 29}) \in 0..29
      BY <1>1, LeastOf
  <2>. QED BY <1>1, <1>4, <2>1 DEF Points, PointOf
<1>. QED BY <1>2, <1>3, <1>4 DEF Points

\* Tiers.
LEMMA ReportTierIs ==
    ASSUME NEW n \in Nat
    PROVE  ReportTier(n) \in 1..4
<1> DEFINE steps == <<0, 10000, 100000, 1000000>>
           Here(t) == (t = 1 \/ n >= steps[t]) /\ (t = 4 \/ n < steps[t + 1])
<1>1. steps[1] = 0 /\ steps[2] = 10000 /\ steps[3] = 100000 /\ steps[4] = 1000000
    OBVIOUS
<1>. HIDE DEF steps
<1>2. Here(1) \/ Here(2) \/ Here(3) \/ Here(4)
    BY <1>1
<1>3. \E t \in 1..4 : Here(t)
    BY <1>2
<1>4. ReportTier(n) = CHOOSE t \in 1..4 : Here(t)
    BY DEF ReportTier, Ladder, steps
<1>. HIDE DEF Here
<1>. QED BY <1>3, <1>4

LEMMA OfReachIs == ASSUME NEW reach \in Nat \X Nat PROVE OfReach(reach) \in 1..4
<1>1. PICK a \in Nat, b \in Nat : a = reach[1] /\ b = reach[2]
    OBVIOUS
<1>2. Max({a, b}) \in Nat
    BY MostOf
<1>. QED BY <1>1, <1>2, ReportTierIs DEF OfReach

\* What each request tells of users.
LEMMA UsersAre ==
    ASSUME UsersOK
    PROVE  /\ IsFiniteSet(DOMAIN entry)
           /\ \A us \in SUBSET DOMAIN entry : IsFiniteSet(us) /\ Cardinality(us) \in Nat
           /\ \A u \in DOMAIN entry :
                /\ UserOK(entry[u]) /\ entry[u].role \in {"creator", "brand"}
                /\ entry[u].created \in DOMAIN Calendar /\ entry[u].updated \in DOMAIN Calendar
                /\ entry[u].login = 0 \/ entry[u].login \in DOMAIN Calendar
                /\ entry[u].reach \in Nat \X Nat /\ entry[u].tier \in 0..4 /\ entry[u].done \in 0..5
<1>1. IsFiniteSet(DOMAIN entry)
    BY ReportsConstants, FS_Subset DEF UsersOK
<1>2. \A us \in SUBSET DOMAIN entry : IsFiniteSet(us) /\ Cardinality(us) \in Nat
    BY <1>1, FS_Subset, FS_CardinalityType
<1>3. \A u \in DOMAIN entry : UserOK(entry[u]) /\ entry[u] \in UserRec
    BY DEF UsersOK, UserOK
<1>. QED BY <1>1, <1>2, <1>3 DEF UserRec

LEMMA PointsAre ==
    /\ DOMAIN Points = {"monthly", "weekly", "daily"} /\ Points["monthly"] = 1..12
    /\ \A period \in DOMAIN Points : IsFiniteSet(Points[period])
<1>0. \A a, b \in Int : IsFiniteSet(a..b)
    BY FS_Interval
<1>1. IsFiniteSet(1..12) /\ IsFiniteSet(0..3) /\ IsFiniteSet(0..29)
  <2>1. 0 \in Int /\ 1 \in Int /\ 3 \in Int /\ 12 \in Int /\ 29 \in Int
      OBVIOUS
  <2>. QED BY <1>0, <2>1, Zenon
<1>2. /\ DOMAIN Points = {"monthly", "weekly", "daily"}
      /\ Points["monthly"] = 1..12 /\ Points["weekly"] = 0..3 /\ Points["daily"] = 0..29
    BY DEF Points
<1>. HIDE DEF Points
<1>3. ASSUME NEW period \in DOMAIN Points PROVE IsFiniteSet(Points[period])
  <2>1. period = "monthly" \/ period = "weekly" \/ period = "daily"
      BY <1>2
  <2>. QED BY <1>1, <1>2, <2>1, Zenon
<1>. QED BY <1>2, <1>3

\* A series tells of everyone who is asked about.
LEMMA SeriesCounts ==
    ASSUME UsersOK, NEW us \in SUBSET DOMAIN entry, NEW period \in DOMAIN Points,
           NEW field \in {"createdAt", "lastLoginAt"}
    PROVE  /\ SeriesTotal(generateTimeSeries(us, period, field)) = Cardinality(us)
           /\ \A p \in DOMAIN generateTimeSeries(us, period, field) :
                 /\ p \in Points[period]
                 /\ generateTimeSeries(us, period, field)[p]
                      = Cardinality({u \in us : PointOf(TargetDate(u, field), period) = p})
<1> DEFINE Point(u) == PointOf(TargetDate(u, field), period)
           T == {Point(u) : u \in us} \cap Points[period]
           g == generateTimeSeries(us, period, field)
           h == [u \in us |-> Point(u)]
<1>1. ASSUME NEW u \in us PROVE Point(u) \in Points[period]
  <2>1. PICK i \in DOMAIN Calendar : TargetDate(u, field) = Calendar[i]
    <3>1. /\ entry[u].created \in DOMAIN Calendar /\ entry[u].updated \in DOMAIN Calendar
          /\ entry[u].login = 0 \/ entry[u].login \in DOMAIN Calendar
        BY UsersAre
    <3>. QED BY <3>1 DEF TargetDate
  <2>. QED BY <2>1, PointIs
<1>2. \A u \in us : h[u] \in T
    BY <1>1
<1>3. IsFiniteSet(T) /\ IsFiniteSet(us)
  <2>1. IsFiniteSet(Points[period]) /\ T \subseteq Points[period]
      BY PointsAre
  <2>2. IsFiniteSet(T)
    <3>. HIDE DEF T
    <3>. QED BY <2>1, FS_Subset
  <2>. QED BY <2>2, UsersAre
<1>4. g = [p \in T |-> Cardinality({u \in us : Point(u) = p})]
    BY DEF generateTimeSeries
<1>5. DOMAIN g = T /\ \A p \in T : g[p] = Cardinality({u \in us : Point(u) = p})
    BY <1>4
<1>6. \A p \in T : g[p] = Cardinality({u \in us : h[u] = p})
  <2>1. \A p \in T : {u \in us : Point(u) = p} = {u \in us : h[u] = p}
      OBVIOUS
  <2>. QED BY <1>5, <2>1
<1>7. \A p \in T : p \in Points[period]
    OBVIOUS
<1>8. SumOf(g, T) = Cardinality(us)
  <2>. HIDE DEF T, g, h
  <2>. QED BY <1>2, <1>3, <1>5, <1>6, CountParts
<1>. QED BY <1>5, <1>7, <1>8, SeriesIs

LEMMA CreatedAre ==
    ASSUME UsersOK, NEW role \in {"creator", "brand"}, NEW range \in Ranges
    PROVE  CreatedIn(role, range) = Counted(entry, <<role>>, range)
<1>1. range \in Seq(Nat) /\ Len(range) \in 0..2
    BY RangeIs
<1>2. ASSUME NEW u \in DOMAIN entry
      PROVE  Within(entry[u].created, range) <=> Agrees(entry[u].created, range, Len(range))
    BY <1>1, UsersAre, WithinIs
<1>3. <<role>>[1] = role /\ Len(<<role>>) = 1
    OBVIOUS
<1>. QED BY <1>2, <1>3 DEF CreatedIn, WithRole, Counted, Who

LEMMA LoggedAre ==
    ASSUME UsersOK, NEW role \in {"creator", "brand"}, NEW range \in Ranges
    PROVE  LoggedIn(role, range)
             = Counted(entry, IF range = <<>> THEN <<role>> ELSE <<role, "active">>, range)
<1>1. range \in Seq(Nat) /\ Len(range) \in 0..2
    BY RangeIs
<1>2. ASSUME NEW u \in DOMAIN entry
      PROVE  /\ Within(entry[u].created, range) <=> Agrees(entry[u].created, range, Len(range))
             /\ Within(entry[u].updated, range) <=> Agrees(entry[u].updated, range, Len(range))
             /\ entry[u].login # 0 =>
                  (Within(entry[u].login, range) <=> Agrees(entry[u].login, range, Len(range)))
  <2>1. /\ entry[u].created \in DOMAIN Calendar /\ entry[u].updated \in DOMAIN Calendar
        /\ entry[u].login = 0 \/ entry[u].login \in DOMAIN Calendar
      BY UsersAre
  <2>. QED BY <1>1, <2>1, WithinIs
<1>3. CASE range = <<>>
  <2>1. Len(range) = 0 /\ \A i : Agrees(i, range, Len(range))
    <3>1. Len(range) = 0
        BY <1>3
    <3>. QED BY <3>1 DEF Agrees
  <2>2. <<role>>[1] = role /\ Len(<<role>>) = 1
      OBVIOUS
  <2>. QED BY <1>2, <1>3, <2>1, <2>2 DEF LoggedIn, WithRole, Counted, Who
<1>4. CASE range # <<>>
  <2>1. /\ <<role, "active">>[1] = role /\ Len(<<role, "active">>) = 2
        /\ <<role, "active">>[2] = "active"
      OBVIOUS
  <2>. QED BY <1>2, <1>4, <2>1 DEF LoggedIn, WithRole, Counted, Who
<1>. QED BY <1>3, <1>4

\* The figures of a set of users.
LEMMA FigureOf ==
    ASSUME NEW of, NEW key, NEW n, ~OfTier(of), n = Cardinality(Counted(entry, of, key))
    PROVE  UserFigure(entry, Figure(of, key, n))
BY DEF Figure, UserFigure

LEMMA OfRole ==
    ASSUME NEW role
    PROVE  ~OfTier(<<role>>) /\ \A s : (OfTier(<<role, s>>) => s = "tier")
<1>1. Len(<<role>>) = 1
    OBVIOUS
<1>2. \A s : <<role, s>>[2] = s
    OBVIOUS
<1>. QED BY <1>1, <1>2 DEF OfTier

LEMMA SignupFigures ==
    ASSUME UsersOK, NEW role \in {"creator", "brand"}, NEW range \in Ranges,
           NEW f \in getSignupGrowth(role, range)
    PROVE  UserFigure(entry, f)
<1> DEFINE Series(period) == generateTimeSeries(CreatedIn(role, range), period, "createdAt")
<1>1. CreatedIn(role, range) \in SUBSET DOMAIN entry
    BY DEF CreatedIn, WithRole
<1>2. CASE \E period \in DOMAIN Points : f = Figure(<<role>>, range, SeriesTotal(Series(period)))
  <2>1. PICK period \in DOMAIN Points : f = Figure(<<role>>, range, SeriesTotal(Series(period)))
      BY <1>2
  <2>2. SeriesTotal(Series(period)) = Cardinality(CreatedIn(role, range))
      BY <1>1, SeriesCounts
  <2>. QED BY <2>1, <2>2, CreatedAre, FigureOf, OfRole
<1>3. CASE Len(range) = 1 /\ \E m \in DOMAIN Series("monthly") :
             f = Figure(<<role>>, range \o <<m>>, Series("monthly")[m])
  <2>1. PICK m \in DOMAIN Series("monthly") : f = Figure(<<role>>, range \o <<m>>, Series("monthly")[m])
      BY <1>3
  <2>2. /\ m \in 1..12
        /\ Series("monthly")[m]
             = Cardinality({u \in CreatedIn(role, range) : PointOf(TargetDate(u, "createdAt"), "monthly") = m})
    <3>1. "monthly" \in DOMAIN Points
        BY PointsAre
    <3>. QED BY SMTT(30), <1>1, <3>1, SeriesCounts, PointsAre
  <2> DEFINE key == range \o <<m>>
  <2>3. key \in Seq(Nat) /\ Len(key) = 2 /\ key[2] = m /\ key[1] = range[1]
    <3>1. range \in Seq(Nat) /\ m \in Nat
      <4>. HIDE DEF Series, key
      <4>1. m \in Nat
          BY <2>2
      <4>. QED BY <4>1, RangeIs
    <3>2. /\ key \in Seq(Nat) /\ Len(key) = Len(range) + 1 /\ key[Len(range) + 1] = m
          /\ \A k \in 1..Len(range) : key[k] = range[k]
        BY <3>1, FurtherIs
    <3>3. Len(range) = 1 /\ 1 \in 1..1 /\ 1 + 1 = 2
        BY <1>3
    <3>. HIDE DEF key, Series
    <3>. QED BY <3>2, <3>3
  <2>. HIDE DEF key
  <2>4. ASSUME NEW u \in DOMAIN entry
        PROVE  /\ PointOf(TargetDate(u, "createdAt"), "monthly") = Calendar[entry[u].created][2]
               /\ Agrees(entry[u].created, key, 2)
                    <=> /\ Agrees(entry[u].created, range, 1)
                        /\ Calendar[entry[u].created][2] = m
    <3>1. entry[u].created \in DOMAIN Calendar /\ "monthly" \in DOMAIN Points
        BY UsersAre, PointsAre
    <3>2. PointOf(TargetDate(u, "createdAt"), "monthly") = Calendar[entry[u].created][2]
      <4>1. TargetDate(u, "createdAt") = Calendar[entry[u].created]
          BY DEF TargetDate
      <4>. QED BY <3>1, <4>1, PointIs
    <3>3. 1..1 = {1} /\ 1..2 = {1, 2}
        OBVIOUS
    <3>4. Agrees(entry[u].created, key, 2)
            <=> key[1] = Calendar[entry[u].created][1] /\ key[2] = Calendar[entry[u].created][2]
        BY <3>3 DEF Agrees
    <3>5. Agrees(entry[u].created, range, 1) <=> range[1] = Calendar[entry[u].created][1]
        BY <3>3 DEF Agrees
    <3>. QED BY <2>3, <3>2, <3>4, <3>5
  <2>5. {u \in CreatedIn(role, range) : PointOf(TargetDate(u, "createdAt"), "monthly") = m}
          = Counted(entry, <<role>>, key)
    <3>1. <<role>>[1] = role /\ Len(<<role>>) = 1
        OBVIOUS
    <3>2. CreatedIn(role, range) = Counted(entry, <<role>>, range)
        BY CreatedAre
    <3>. QED BY <1>3, <2>3, <2>4, <3>1, <3>2 DEF Counted, Who
  <2>. QED BY <2>1, <2>2, <2>5, FigureOf, OfRole DEF key
<1>. QED BY <1>2, <1>3 DEF getSignupGrowth

LEMMA ActiveFigures ==
    ASSUME UsersOK, NEW role \in {"creator", "brand"}, NEW range \in Ranges,
           NEW f \in getActiveUsers(role, range)
    PROVE  UserFigure(entry, f)
<1> DEFINE of == IF range = <<>> THEN <<role>> ELSE <<role, "active">>
           Series(period) == generateTimeSeries(LoggedIn(role, range), period, "lastLoginAt")
<1>1. PICK period \in DOMAIN Points : f = Figure(of, range, SeriesTotal(Series(period)))
    BY DEF getActiveUsers
<1>2. LoggedIn(role, range) \in SUBSET DOMAIN entry
    BY DEF LoggedIn, WithRole
<1>3. SeriesTotal(Series(period)) = Cardinality(LoggedIn(role, range))
    BY <1>2, SeriesCounts
<1>4. LoggedIn(role, range) = Counted(entry, of, range)
    BY LoggedAre
<1>5. ~OfTier(of)
    BY OfRole
<1>. QED
  <2>. HIDE DEF of, Series
  <2>. QED BY <1>1, <1>3, <1>4, <1>5, FigureOf

LEMMA CountryFigures ==
    ASSUME UsersOK, NEW role \in {"creator", "brand"}, NEW range \in Ranges,
           NEW f \in getCountryBreakdown(role, range)
    PROVE  UserFigure(entry, f)
<1> DEFINE us == CreatedIn(role, range)
           Name(u) == IF entry[u].country = "none" THEN "Nigeria" ELSE entry[u].country
           T == {Name(u) : u \in us}
           h == [u \in us |-> Name(u)]
           count == [c \in T |-> Cardinality({u \in us : Name(u) = c})]
<1>1. f = Figure(<<role>>, range, SeriesTotal(count))
    BY DEF getCountryBreakdown
<1>2. us \in SUBSET DOMAIN entry /\ IsFiniteSet(us)
    BY UsersAre DEF CreatedIn, WithRole
<1>3. IsFiniteSet(T)
  <2>1. h \in Surjection(us, T)
      BY DEF Surjection
  <2>. HIDE DEF T, h, us
  <2>. QED BY <1>2, <2>1, FS_Surjection
<1>4. DOMAIN count = T /\ \A u \in us : h[u] \in T
    OBVIOUS
<1>5. \A c \in T : count[c] = Cardinality({u \in us : h[u] = c})
  <2>1. \A c \in T : {u \in us : Name(u) = c} = {u \in us : h[u] = c}
      OBVIOUS
  <2>. QED BY <2>1
<1>6. SumOf(count, T) = Cardinality(us)
  <2>. HIDE DEF T, h, count, us
  <2>. QED BY <1>2, <1>3, <1>4, <1>5, CountParts
<1>7. SeriesTotal(count) = Cardinality(us)
  <2>. HIDE DEF T, count, us
  <2>. QED BY <1>4, <1>6, SeriesIs
<1>. HIDE DEF count, T, h
<1>. QED BY <1>1, <1>7, CreatedAre, FigureOf, OfRole

\* The creators of a set, tier by tier.
LEMMA TiersCount ==
    ASSUME UsersOK, NEW us \in SUBSET DOMAIN entry
    PROVE  /\ SeriesTotal(TierCounts(us)) = Cardinality(us)
           /\ \A t \in 1..4 :
                TierCounts(us)[t] = Cardinality({u \in us : OfReach(entry[u].reach) = t})
<1> DEFINE T == 1..4
           h == [u \in us |-> OfReach(entry[u].reach)]
           g == TierCounts(us)
<1>1. IsFiniteSet(T) /\ IsFiniteSet(us)
  <2>1. \A a, b \in Int : IsFiniteSet(a..b)
      BY FS_Interval
  <2>2. 1 \in Int /\ 4 \in Int
      OBVIOUS
  <2>3. IsFiniteSet(1..4)
      BY <2>1, <2>2, Zenon
  <2>. QED BY <2>3, UsersAre
<1>2. \A u \in us : h[u] \in T
    BY UsersAre, OfReachIs
<1>3. g = [t \in T |-> Cardinality({u \in us : OfReach(entry[u].reach) = t})]
    BY DEF TierCounts, OfReach
<1>4. DOMAIN g = T /\ \A t \in T : g[t] = Cardinality({u \in us : OfReach(entry[u].reach) = t})
    BY <1>3
<1>5. \A t \in T : g[t] = Cardinality({u \in us : h[u] = t})
  <2>1. \A t \in T : {u \in us : OfReach(entry[u].reach) = t} = {u \in us : h[u] = t}
      OBVIOUS
  <2>. QED BY <1>4, <2>1
<1>6. SumOf(g, T) = Cardinality(us)
  <2>. HIDE DEF T, g, h
  <2>. QED BY <1>1, <1>2, <1>4, <1>5, CountParts
<1>. QED BY <1>4, <1>6, SeriesIs

\* Those of one tier among who joined in a range.
LEMMA TierIs ==
    ASSUME UsersOK, NEW range \in Seq(Nat), NEW t \in 1..4
    PROVE  {u \in Counted(entry, <<"creator">>, range) : OfReach(entry[u].reach) = t}
             = Counted(entry, <<"creator", "in a tier">>, range \o <<t>>)
<1> DEFINE key == range \o <<t>>
<1>1. Len(range) \in Nat /\ t \in Nat
    OBVIOUS
<1>2. /\ Len(key) = Len(range) + 1 /\ key[Len(range) + 1] = t
      /\ \A k \in 1..Len(range) : key[k] = range[k]
    BY <1>1, FurtherIs
<1>. HIDE DEF key
<1>3. Len(key) - 1 = Len(range) /\ key[Len(key)] = t
    BY <1>1, <1>2
<1>4. \A i : Agrees(i, key, Len(key) - 1) <=> Agrees(i, range, Len(range))
    BY <1>2, <1>3 DEF Agrees
<1>5. /\ <<"creator">>[1] = "creator" /\ Len(<<"creator">>) = 1
      /\ <<"creator", "in a tier">>[1] = "creator" /\ Len(<<"creator", "in a tier">>) = 2
      /\ <<"creator", "in a tier">>[2] = "in a tier"
    OBVIOUS
<1>6. \A u \in DOMAIN entry :
         Who(entry[u], <<"creator">>, range) /\ OfReach(entry[u].reach) = t
           <=> Who(entry[u], <<"creator", "in a tier">>, key)
    BY <1>3, <1>4, <1>5 DEF Who
<1>. QED BY <1>6 DEF Counted, key

LEMMA TierFigures ==
    ASSUME UsersOK, NEW range \in Ranges, NEW f \in getTierDistribution(range)
    PROVE  UserFigure(entry, f)
<1> DEFINE us == CreatedIn("creator", range)
<1>1. us \in SUBSET DOMAIN entry /\ us = Counted(entry, <<"creator">>, range)
    BY CreatedAre DEF Counted
<1>2. ~OfTier(<<"creator">>) /\ ~OfTier(<<"creator", "in a tier">>)
    BY OfRole
<1>3. CASE f = Figure(<<"creator">>, range, SeriesTotal(TierCounts(us)))
  <2>1. SeriesTotal(TierCounts(us)) = Cardinality(us)
      BY <1>1, TiersCount
  <2>. QED BY <1>1, <1>2, <1>3, <2>1, FigureOf
<1>4. CASE \E t \in 1..4 : f = Figure(<<"creator", "in a tier">>, range \o <<t>>, TierCounts(us)[t])
  <2>1. PICK t \in 1..4 : f = Figure(<<"creator", "in a tier">>, range \o <<t>>, TierCounts(us)[t])
      BY <1>4
  <2>2. TierCounts(us)[t] = Cardinality({u \in us : OfReach(entry[u].reach) = t})
      BY <1>1, TiersCount
  <2>3. range \in Seq(Nat)
      BY RangeIs
  <2>. HIDE DEF us
  <2>4. TierCounts(us)[t] = Cardinality(Counted(entry, <<"creator", "in a tier">>, range \o <<t>>))
      BY <1>1, <2>2, <2>3, TierIs
  <2>. QED BY <1>2, <2>1, <2>4, FigureOf
<1>. QED BY <1>3, <1>4 DEF getTierDistribution

LEMMA RoleAre ==
    ASSUME UsersOK, NEW role \in {"creator", "brand"}
    PROVE  WithRole(role) = Counted(entry, <<role>>, <<>>) /\ WithRole(role) \in SUBSET DOMAIN entry
<1>1. <<role>>[1] = role /\ Len(<<role>>) = 1 /\ Len(<<>>) = 0
    OBVIOUS
<1>2. \A i : Agrees(i, <<>>, Len(<<>>))
    BY <1>1 DEF Agrees
<1>. QED BY <1>1, <1>2 DEF WithRole, Counted, Who

LEMMA ShownTierIs ==
    ASSUME UsersOK, NEW u \in DOMAIN entry, entry[u].role = "creator"
    PROVE  UserFigure(entry, tierInList(u)) /\ UserFigure(entry, tierInProfile(u))
<1>1. PICK row : row = entry[u]
    OBVIOUS
<1>2. row.reach \in Nat \X Nat /\ row.tier \in 0..4 /\ (row.tier = 0 => row.reach = <<0, 0>>)
    BY <1>1, UsersAre DEF UserOK
<1>3. tierInList(u) = Figure(<<"creator", "tier">>, <<u>>, TierOf(row))
    BY <1>1 DEF tierInList, ShownTier, TierOf, OfReach
<1>4. tierInProfile(u) = Figure(<<"creator", "tier">>, <<u>>, TierOf(row))
  <2>1. CASE row.tier # 0
      BY <1>1, <2>1 DEF tierInProfile, ShownTier, TierOf
  <2>2. CASE row.tier = 0
    <3>1. row.reach[1] = 0 /\ row.reach[2] = 0
        BY <1>2, <2>2
    <3>2. Max({row.reach[1], row.reach[2]}) = row.reach[1] + row.reach[2]
      <4>1. Max({0, 0}) = 0
          BY MostOf
      <4>. QED BY <3>1, <4>1
    <3>. QED BY <1>1, <2>2, <3>2 DEF tierInProfile, ShownTier, TierOf, OfReach
  <2>. QED BY <2>1, <2>2
<1>5. OfTier(<<"creator", "tier">>)
    BY DEF OfTier
<1>. QED BY <1>1, <1>3, <1>4, <1>5 DEF UserFigure, Figure

\* The bands of progress.
Falls(n, from, k) == (k = 1 \/ n >= from[k]) /\ (k = Len(from) \/ n < from[k + 1])

LEMMA BandIs ==
    ASSUME NEW role \in {"creator", "brand"}, NEW n \in Nat, NEW from, from = Bands(role)
    PROVE  /\ DOMAIN from = 1..Len(from) /\ Len(from) \in {4, 5}
           /\ \E k \in DOMAIN from : Falls(n, from, k)
           /\ \A j, k \in DOMAIN from : Falls(n, from, j) /\ Falls(n, from, k) => j = k
           /\ Falls(n, from, Len(from)) <=> n >= 90
<1>1. CASE role = "brand"
  <2>1. /\ Len(from) = 5 /\ DOMAIN from = {1, 2, 3, 4, 5}
        /\ from[1] = 0 /\ from[2] = 35 /\ from[3] = 55 /\ from[4] = 75 /\ from[5] = 90
      BY <1>1 DEF Bands
  <2>2. {1, 2, 3, 4, 5} = 1..5
      OBVIOUS
  <2>3. \E k \in {1, 2, 3, 4, 5} : Falls(n, from, k)
    <3>1. Falls(n, from, 1) \/ Falls(n, from, 2) \/ Falls(n, from, 3) \/ Falls(n, from, 4)
            \/ Falls(n, from, 5)
        BY <2>1 DEF Falls
    <3>. QED BY <3>1
  <2>4. \A j, k \in {1, 2, 3, 4, 5} : Falls(n, from, j) /\ Falls(n, from, k) => j = k
      BY <2>1 DEF Falls
  <2>5. Falls(n, from, 5) <=> n >= 90
      BY <2>1 DEF Falls
  <2>. QED BY <2>1, <2>2, <2>3, <2>4, <2>5
<1>2. CASE role = "creator"
  <2>1. /\ Len(from) = 4 /\ DOMAIN from = {1, 2, 3, 4}
        /\ from[1] = 0 /\ from[2] = 35 /\ from[3] = 75 /\ from[4] = 90
      BY <1>2 DEF Bands
  <2>2. {1, 2, 3, 4} = 1..4
      OBVIOUS
  <2>3. \E k \in {1, 2, 3, 4} : Falls(n, from, k)
    <3>1. Falls(n, from, 1) \/ Falls(n, from, 2) \/ Falls(n, from, 3) \/ Falls(n, from, 4)
        BY <2>1 DEF Falls
    <3>. QED BY <3>1
  <2>4. \A j, k \in {1, 2, 3, 4} : Falls(n, from, j) /\ Falls(n, from, k) => j = k
      BY <2>1 DEF Falls
  <2>5. Falls(n, from, 4) <=> n >= 90
      BY <2>1 DEF Falls
  <2>. QED BY <2>1, <2>2, <2>3, <2>4, <2>5
<1>. QED BY <1>1, <1>2

LEMMA ProgressIs ==
    ASSUME UsersOK, NEW u \in DOMAIN entry
    PROVE  /\ OnboardingPercentage(u) = Progress(entry[u]) /\ Progress(entry[u]) \in Nat
           /\ Progress(entry[u]) >= 90 <=> Progress(entry[u]) = 100
<1>1. PICK row : row = entry[u]
    OBVIOUS
<1>2. row.done \in 0..5 /\ (row.role = "brand" => row.done <= 4)
    BY <1>1, UsersAre DEF UserOK
<1>3. OnboardingPercentage(u) = Progress(row)
    BY <1>1 DEF OnboardingPercentage, Progress
<1>4. PICK d \in 0..5 : d = row.done
    BY <1>2
<1>5. CASE row.role = "brand"
  <2>1. Progress(row) = 25 * d /\ d <= 4
      BY <1>2, <1>4, <1>5 DEF Progress
  <2>. QED BY <1>1, <1>3, <2>1
<1>6. CASE row.role # "brand"
  <2>1. Progress(row) = 20 * d
      BY <1>4, <1>6 DEF Progress
  <2>. QED BY <1>1, <1>3, <2>1
<1>. QED BY <1>5, <1>6

LEMMA SummaryFigures ==
    ASSUME UsersOK, NEW role \in {"creator", "brand"}, NEW f \in getSummary(role)
    PROVE  UserFigure(entry, f)
<1> DEFINE us == WithRole(role)
           T == DOMAIN Bands(role)
           band == [k \in T |-> Cardinality({u \in us : InBand(u, k)})]
           h == [u \in us |-> CHOOSE k \in T : InBand(u, k)]
           whole == {u \in us : OnboardingPercentage(u) = 100}
<1>1. us \in SUBSET DOMAIN entry /\ us = Counted(entry, <<role>>, <<>>) /\ IsFiniteSet(us)
    BY RoleAre, UsersAre
<1>2. /\ T = 1..Len(Bands(role)) /\ Len(Bands(role)) \in {4, 5}
      /\ IsFiniteSet(T) /\ Len(Bands(role)) \in T
  <2>1. T = 1..Len(Bands(role)) /\ Len(Bands(role)) \in {4, 5}
    <3>1. 0 \in Nat
        OBVIOUS
    <3>. QED BY <3>1, BandIs
  <2>2. Len(Bands(role)) \in Int /\ 1 \in Int
      BY <2>1
  <2>3. IsFiniteSet(T)
    <3>. HIDE DEF T
    <3>. QED BY <2>1, <2>2, FS_Interval
  <2>. QED BY <2>1, <2>3
<1>3. ASSUME NEW u \in us
      PROVE  /\ \E k \in T : InBand(u, k)
             /\ \A j, k \in T : InBand(u, j) /\ InBand(u, k) => j = k
             /\ InBand(u, Len(Bands(role))) <=> OnboardingPercentage(u) = 100
  <2>1. entry[u].role = role /\ u \in DOMAIN entry
      BY DEF WithRole
  <2>2. PICK n \in Nat : n = OnboardingPercentage(u) /\ (n >= 90 <=> n = 100)
      BY <2>1, ProgressIs
  <2>3. PICK from : from = Bands(role)
      OBVIOUS
  <2>4. \A k : InBand(u, k) <=> Falls(n, from, k)
      BY <2>1, <2>2, <2>3 DEF InBand, Falls
  <2>5. /\ \E k \in DOMAIN from : Falls(n, from, k)
        /\ \A j, k \in DOMAIN from : Falls(n, from, j) /\ Falls(n, from, k) => j = k
        /\ Falls(n, from, Len(from)) <=> n >= 90
      BY <2>3, BandIs
  <2>. HIDE DEF us
  <2>. QED BY <2>2, <2>3, <2>4, <2>5
<1>4. \A u \in us : h[u] \in T /\ \A k \in T : (InBand(u, k) <=> h[u] = k)
  <2>. SUFFICES ASSUME NEW u \in us
                PROVE  h[u] \in T /\ \A k \in T : (InBand(u, k) <=> h[u] = k)
      OBVIOUS
  <2>1. h[u] = CHOOSE k \in T : InBand(u, k)
      OBVIOUS
  <2>. HIDE DEF h, T, us
  <2>2. h[u] \in T /\ InBand(u, h[u])
      BY <1>3, <2>1
  <2>. QED BY <1>3, <2>2
<1>5. DOMAIN band = T /\ \A k \in T : band[k] = Cardinality({u \in us : h[u] = k})
  <2>. HIDE DEF h, T, us
  <2>1. \A k \in T : {u \in us : InBand(u, k)} = {u \in us : h[u] = k}
      BY <1>4
  <2>. QED BY <2>1
<1>6. SeriesTotal(band) = Cardinality(us)
  <2>. HIDE DEF h, T, us, band
  <2>1. IsFiniteSet(us) /\ IsFiniteSet(T) /\ (\A u \in us : h[u] \in T) /\ DOMAIN band = T
      BY <1>1, <1>2, <1>4, <1>5
  <2>2. SumOf(band, T) = Cardinality(us)
      BY <1>5, <2>1, CountParts
  <2>. QED BY <2>1, <2>2, SeriesIs
<1>7. band[Len(Bands(role))] = Cardinality(whole)
  <2>1. {u \in us : InBand(u, Len(Bands(role)))} = whole
      BY <1>3
  <2>2. band[Len(Bands(role))] = Cardinality({u \in us : InBand(u, Len(Bands(role)))})
      BY <1>2
  <2>. QED BY <2>1, <2>2
<1>8. whole = Counted(entry, <<role, "complete">>, <<>>)
  <2>1. /\ <<role, "complete">>[1] = role /\ Len(<<role, "complete">>) = 2
        /\ <<role, "complete">>[2] = "complete"
      OBVIOUS
  <2>2. \A u \in DOMAIN entry : OnboardingPercentage(u) = Progress(entry[u])
      BY ProgressIs
  <2>. QED BY <2>1, <2>2 DEF WithRole, Counted, Who
<1>9. ~OfTier(<<role>>) /\ ~OfTier(<<role, "complete">>)
    BY OfRole
<1>10. getSummary(role) =
         {Figure(<<role>>, <<>>, Cardinality(us)), Figure(<<role>>, <<>>, SeriesTotal(band)),
          Figure(<<role, "complete">>, <<>>, Cardinality(whole)),
          Figure(<<role, "complete">>, <<>>, band[Len(band)])}
    BY DEF getSummary
<1>12. Len(band) = Len(Bands(role))
  <2>1. PICK n \in Nat : n = Len(Bands(role)) /\ T = 1..n
      BY <1>2
  <2>2. \A k \in 1..n : band[k] \in Nat
    <3>1. \A k \in T : {u \in us : InBand(u, k)} \in SUBSET DOMAIN entry
        BY <1>1
    <3>2. \A k \in T : Cardinality({u \in us : InBand(u, k)}) \in Nat
      <4>. HIDE DEF us, T
      <4>. QED BY <3>1, UsersAre
    <3>. QED BY <2>1, <3>2
  <2>3. DOMAIN band = 1..n /\ band = [k \in 1..n |-> band[k]]
      BY <2>1
  <2>. HIDE DEF band, T, us
  <2>4. band \in Seq(Nat)
      BY <2>2, <2>3
  <2>5. 1..Len(band) = 1..n /\ Len(band) \in Nat
      BY <2>3, <2>4
  <2>. QED BY SMTT(30), <2>1, <2>5
<1>11. \/ f = Figure(<<role>>, <<>>, Cardinality(us))
       \/ f = Figure(<<role>>, <<>>, SeriesTotal(band))
       \/ f = Figure(<<role, "complete">>, <<>>, Cardinality(whole))
       \/ f = Figure(<<role, "complete">>, <<>>, band[Len(Bands(role))])
  <2>. HIDE DEF us, T, band, h, whole
  <2>. QED BY <1>10, <1>12
<1>. HIDE DEF us, T, band, h, whole
<1>. QED BY <1>1, <1>6, <1>7, <1>8, <1>9, <1>11, FigureOf

LEMMA OverviewFigures ==
    ASSUME UsersOK, NEW f \in getOverviewOfUsers
    PROVE  UserFigure(entry, f)
<1> DEFINE us == WithRole("creator")
<1>1. us \in SUBSET DOMAIN entry /\ us = Counted(entry, <<"creator">>, <<>>)
    BY RoleAre
<1>2. CASE \E role \in {"creator", "brand"} : f = Figure(<<role>>, <<>>, Cardinality(WithRole(role)))
    BY <1>2, RoleAre, FigureOf, OfRole
<1>3. CASE \E t \in 1..4 : f = Figure(<<"creator", "in a tier">>, <<t>>, TierCounts(us)[t])
  <2>1. PICK t \in 1..4 : f = Figure(<<"creator", "in a tier">>, <<t>>, TierCounts(us)[t])
      BY <1>3
  <2>2. TierCounts(us)[t] = Cardinality({u \in us : OfReach(entry[u].reach) = t})
      BY <1>1, TiersCount
  <2>3. <<>> \in Seq(Nat) /\ <<>> \o <<t>> = <<t>>
      OBVIOUS
  <2>. HIDE DEF us
  <2>4. TierCounts(us)[t] = Cardinality(Counted(entry, <<"creator", "in a tier">>, <<t>>))
    <3>1. {u \in Counted(entry, <<"creator">>, <<>>) : OfReach(entry[u].reach) = t}
             = Counted(entry, <<"creator", "in a tier">>, <<>> \o <<t>>)
        BY <2>3, TierIs
    <3>. QED BY <1>1, <2>2, <2>3, <3>1
  <2>5. ~OfTier(<<"creator", "in a tier">>)
      BY OfRole
  <2>. QED BY <2>1, <2>4, <2>5, FigureOf
<1>4. CASE \E u \in us : f = tierInList(u)
    BY <1>4, ShownTierIs DEF WithRole
<1>. QED BY <1>2, <1>3, <1>4 DEF getOverviewOfUsers

\* Every figure of users is what it claims to be.
LEMMA UsersFigures ==
    ASSUME UsersOK, NEW f \in FiguresOfUsers
    PROVE  UserFigure(entry, f)
<1>1. CASE f \in getOverviewOfUsers
    BY <1>1, OverviewFigures
<1>2. CASE \E u \in WithRole("creator") : f = tierInProfile(u)
    BY <1>2, ShownTierIs DEF WithRole
<1>3. CASE \E range \in Ranges : f \in getTierDistribution(range)
    BY <1>3, TierFigures
<1>4. CASE \E role \in {"creator", "brand"} : f \in getSummary(role)
    BY <1>4, SummaryFigures
<1>5. CASE \E role \in {"creator", "brand"}, range \in Ranges :
             f \in getSignupGrowth(role, range) \cup getActiveUsers(role, range)
                     \cup getCountryBreakdown(role, range)
    BY <1>5, SignupFigures, ActiveFigures, CountryFigures
<1> DEFINE A == {tierInProfile(u) : u \in WithRole("creator")}
           B == {getTierDistribution(range) : range \in Ranges}
           C == {getSummary(role) : role \in {"creator", "brand"}}
           D == {getSignupGrowth(role, range) \cup getActiveUsers(role, range)
                   \cup getCountryBreakdown(role, range) :
                   role \in {"creator", "brand"}, range \in Ranges}
<1>6. ASSUME NEW a, NEW b, NEW c, NEW d, NEW e, a = getOverviewOfUsers, b = A, c = UNION B,
             d = UNION C, e = UNION D
      PROVE  f \in a \/ f \in b \/ f \in c \/ f \in d \/ f \in e
  <2>1. FiguresOfUsers = a \cup b \cup c \cup d \cup e
      BY <1>6 DEF FiguresOfUsers
  <2>. HIDE DEF A, B, C, D
  <2>. QED BY <2>1
<1>7. /\ f \in A => \E u \in WithRole("creator") : f = tierInProfile(u)
      /\ \A X \in B : \E range \in Ranges : X = getTierDistribution(range)
      /\ \A X \in C : \E role \in {"creator", "brand"} : X = getSummary(role)
      /\ \A X \in D : \E role \in {"creator", "brand"}, range \in Ranges :
            X = getSignupGrowth(role, range) \cup getActiveUsers(role, range)
                  \cup getCountryBreakdown(role, range)
    OBVIOUS
<1>. HIDE DEF A, B, C, D
<1>8. CASE f \in A
    BY <1>2, <1>7, <1>8
<1>9. CASE f \in UNION B
    BY <1>3, <1>7, <1>9
<1>10. CASE f \in UNION C
    BY <1>4, <1>7, <1>10
<1>11. CASE f \in UNION D
  <2>1. PICK X \in D : f \in X
      BY <1>11
  <2>. QED BY <1>5, <1>7, <2>1
<1>12. f \in getOverviewOfUsers \/ f \in A \/ (f \in UNION B) \/ (f \in UNION C) \/ (f \in UNION D)
    BY <1>6, Zenon
<1>. QED BY <1>1, <1>8, <1>9, <1>10, <1>11, <1>12

-----------------------------------------------------------------------------
(* A figure of money, or of campaigns, is the sum of a weight over the     *)
(* campaigns whose rows count for it.                                      *)

\* booked's and dues' row of a campaign of creator c, for a figure that is told in a way.
IsCounted(b, d, c, of, key, way) ==
    \/ of[1] = "spent" /\ b.payment = "paid"
    \/ of = <<"in escrow">> /\ b.payment = "paid" /\ (way = "items" => b.status # "cancelled")
    \/ of[1] = "paid out" /\ d.status = "released"
    \/ of \in {<<"earned">>, <<"done">>} /\ key = <<c>> /\ Earns(way, b, d)
    \/ of[1] = "on hold" /\ key[1] = c /\ d.status \in {"pending", "escrow_pending"} /\ ~d.past
    \/ of[1] = "budgets" /\ b.paid = "paid"
    \/ of = <<"campaigns", "active">> /\ IsActive(way, b)
    \/ /\ of[1] = "campaigns" /\ of # <<"campaigns", "active">>
       /\ Len(of) = 1 \/ b.status = of[2]

One == [k \in Campaigned |-> 1]
Weight(of) == IF of[1] \in {"spent", "in escrow"} THEN Charge
              ELSE IF of[1] \in {"paid out", "earned", "on hold"} THEN Share
              ELSE IF of[1] = "budgets" THEN Budget ELSE One

Counting(b, d, of, key, way) == {k \in Campaigned : IsCounted(b[k], d[k], CreatorOf[k], of, key, way)}
Value(b, d, of, key, way) == SumOf(Weight(of), Counting(b, d, of, key, way))
MoneyFigure(b, d, f) == f.n = Value(b, d, f.of, f.key, f.way)

BookedRec == [status : {"draft", "pending_payment", "live", "reviewing_applicant", "active",
                        "completed", "cancelled"},
              paid : {"unpaid", "pending", "paid"}, payment : {"none", "pending", "paid"},
              escrow : {"null", "funded"}]
BookedOK(row) ==
    /\ row \in BookedRec
    /\ row.payment = "paid" <=> row.escrow = "funded"
    /\ row.status = "draft" <=> row.paid = "unpaid"
DueRec == [status : {"none"} \cup DueStatuses, past : BOOLEAN]
RowsOK ==
    /\ booked \in [Campaigned -> BookedRec] /\ \A k \in Campaigned : BookedOK(booked[k])
    /\ dues \in [Campaigned -> DueRec]

LEMMA WeightIs ==
    ASSUME NEW of
    PROVE  /\ IsFiniteSet(Campaigned) /\ \A k \in Campaigned : Weight(of)[k] \in Nat
           /\ \A S \in SUBSET Campaigned : IsFiniteSet(S) /\ SumOf(Weight(of), S) \in Nat
<1>1. IsFiniteSet(Campaigned)
    BY ReportsConstants DEF Campaigned
<1>2. \A k \in Campaigned : Charge[k] \in Nat /\ Share[k] \in Nat /\ Budget[k] \in Nat /\ One[k] \in Nat
    BY ReportsConstants DEF Campaigned, One
<1>3. \A k \in Campaigned : Weight(of)[k] \in Nat
    BY <1>2 DEF Weight
<1>4. ASSUME NEW S \in SUBSET Campaigned
      PROVE  IsFiniteSet(S) /\ SumOf(Weight(of), S) \in Nat
  <2>1. IsFiniteSet(S) /\ \A k \in S : Weight(of)[k] \in Nat
      BY <1>1, <1>3, FS_Subset
  <2>. QED BY <2>1, SumType
<1>. QED BY <1>1, <1>3, <1>4

LEMMA MoneyIs ==
    ASSUME NEW of, NEW key, NEW way, NEW S, S = Counting(booked, dues, of, key, way),
           NEW w, w = Weight(of)
    PROVE  MoneyFigure(booked, dues, FigureBy(way, of, key, Total(w, S)))
BY TotalIs DEF FigureBy, MoneyFigure, Value

LEMMA CountIs ==
    ASSUME NEW of, NEW key, NEW way, NEW S, S = Counting(booked, dues, of, key, way),
           Weight(of) = One
    PROVE  MoneyFigure(booked, dues, FigureBy(way, of, key, Cardinality(S)))
<1>1. S \in SUBSET Campaigned
    BY DEF Counting
<1>2. IsFiniteSet(S) /\ \A k \in S : One[k] = 1
    BY <1>1, WeightIs DEF One
<1>3. Value(booked, dues, of, key, way) = Cardinality(S)
    BY <1>2, CountIsSum DEF Value
<1>. QED BY <1>3 DEF FigureBy, MoneyFigure

LEMMA NamesAre ==
    /\ <<"spent">>[1] = "spent" /\ <<"in escrow">>[1] = "in escrow"
    /\ <<"paid out">>[1] = "paid out" /\ <<"earned">>[1] = "earned" /\ <<"done">>[1] = "done"
    /\ <<"on hold">>[1] = "on hold" /\ <<"budgets">>[1] = "budgets"
    /\ <<"campaigns">>[1] = "campaigns" /\ Len(<<"campaigns">>) = 1
    /\ <<"campaigns", "active">>[1] = "campaigns"
    /\ \A s : /\ <<"campaigns", s>>[1] = "campaigns" /\ <<"campaigns", s>>[2] = s
             /\ Len(<<"campaigns", s>>) = 2
    /\ \A c : <<c>>[1] = c
OBVIOUS

LEMMA BookedIs ==
    ASSUME RowsOK, NEW k \in Campaigned
    PROVE  /\ booked[k].payment \in {"none", "pending", "paid"} /\ booked[k].escrow \in {"null", "funded"}
           /\ booked[k].payment = "paid" <=> booked[k].escrow = "funded"
           /\ booked[k].status = "draft" <=> booked[k].paid = "unpaid"
BY DEF RowsOK, BookedOK, BookedRec

\* Who paid for what.
LEMMA SpentIs ==
    ASSUME RowsOK
    PROVE  /\ PaidAs({"paid", "escrowed", "completed"}) = Counting(booked, dues, <<"spent">>, <<>>, "one")
           /\ \A S : S \in {PaidAs({"paid", "escrowed"}),
                            {k \in PaidAs({"paid", "escrowed"}) : booked[k].escrow \notin {"null", "released"}},
                            {k \in PaidAs({"paid"}) : booked[k].escrow # "completed"}}
                => S = Counting(booked, dues, <<"in escrow">>, <<>>, "payments")
           /\ {k \in PaidAs({"paid"}) \ In({"cancelled"}) : booked[k].escrow # "completed"}
                = Counting(booked, dues, <<"in escrow">>, <<>>, "items")
           /\ Weight(<<"spent">>) = Charge /\ Weight(<<"in escrow">>) = Charge
<1>1. \A k \in Campaigned :
        /\ IsCounted(booked[k], dues[k], CreatorOf[k], <<"spent">>, <<>>, "one")
             <=> booked[k].payment = "paid"
        /\ IsCounted(booked[k], dues[k], CreatorOf[k], <<"in escrow">>, <<>>, "payments")
             <=> booked[k].payment = "paid"
        /\ IsCounted(booked[k], dues[k], CreatorOf[k], <<"in escrow">>, <<>>, "items")
             <=> booked[k].payment = "paid" /\ booked[k].status # "cancelled"
    BY NamesAre DEF IsCounted
<1>2. PICK P : P = {k \in Campaigned : booked[k].payment = "paid"}
    OBVIOUS
<1>3. /\ Counting(booked, dues, <<"spent">>, <<>>, "one") = P
      /\ Counting(booked, dues, <<"in escrow">>, <<>>, "payments") = P
      /\ Counting(booked, dues, <<"in escrow">>, <<>>, "items") = P \ In({"cancelled"})
    BY <1>1, <1>2 DEF Counting, In
<1>4. PaidAs({"paid", "escrowed", "completed"}) = P /\ PaidAs({"paid", "escrowed"}) = P /\ PaidAs({"paid"}) = P
    BY <1>2, BookedIs DEF PaidAs
<1>5. \A k \in P : booked[k].escrow = "funded"
    BY <1>2, BookedIs
<1>6. /\ {k \in P : booked[k].escrow \notin {"null", "released"}} = P
      /\ {k \in P : booked[k].escrow # "completed"} = P
      /\ {k \in P \ In({"cancelled"}) : booked[k].escrow # "completed"} = P \ In({"cancelled"})
    BY <1>5
<1>7. Weight(<<"spent">>) = Charge /\ Weight(<<"in escrow">>) = Charge
    BY NamesAre DEF Weight
<1>. QED BY <1>3, <1>4, <1>6, <1>7

\* What is released, and what is on hold.
LEMMA ShareIs ==
    ASSUME RowsOK
    PROVE  /\ Dues({"released"}) = Counting(booked, dues, <<"paid out">>, <<>>, "one")
           /\ \A c : {k \in OwedTo(c) \cap Dues({"pending", "escrow_pending"}) : ~dues[k].past}
                     = Counting(booked, dues, <<"on hold">>, <<c>>, "one")
           /\ Weight(<<"paid out">>) = Share /\ Weight(<<"on hold">>) = Share
<1>1. Dues({"released"}) = Counting(booked, dues, <<"paid out">>, <<>>, "one")
    BY NamesAre DEF Dues, Counting, IsCounted
<1>2. ASSUME NEW c
      PROVE  {k \in OwedTo(c) \cap Dues({"pending", "escrow_pending"}) : ~dues[k].past}
               = Counting(booked, dues, <<"on hold">>, <<c>>, "one")
  <2>1. \A k \in Campaigned :
          IsCounted(booked[k], dues[k], CreatorOf[k], <<"on hold">>, <<c>>, "one")
            <=> /\ c = CreatorOf[k] /\ dues[k].status \in {"pending", "escrow_pending"}
                /\ ~dues[k].past
      BY NamesAre DEF IsCounted
  <2>. QED BY <2>1 DEF OwedTo, Dues, Counting
<1>3. Weight(<<"paid out">>) = Share /\ Weight(<<"on hold">>) = Share
    BY NamesAre DEF Weight
<1>. QED BY <1>1, <1>2, <1>3

\* What a creator earned, and at how many campaigns, in each of the ways.
LEMMA EarnedIs ==
    ASSUME RowsOK, NEW c, NEW way, NEW S, S = {k \in OwedTo(c) : Earns(way, booked[k], dues[k])},
           NEW f \in WhatEarned(way, c, S)
    PROVE  MoneyFigure(booked, dues, f)
<1>1. ASSUME NEW of \in {<<"earned">>, <<"done">>}
      PROVE  S = Counting(booked, dues, of, <<c>>, way)
  <2>1. \A k \in Campaigned :
          IsCounted(booked[k], dues[k], CreatorOf[k], of, <<c>>, way)
            <=> CreatorOf[k] = c /\ Earns(way, booked[k], dues[k])
      BY NamesAre DEF IsCounted
  <2>. QED BY <2>1 DEF Counting, OwedTo
<1>2. Weight(<<"earned">>) = Share /\ Weight(<<"done">>) = One
    BY NamesAre DEF Weight
<1>3. MoneyFigure(booked, dues, FigureBy(way, <<"earned">>, <<c>>, Total(Share, S)))
    BY <1>1, <1>2, MoneyIs
<1>4. MoneyFigure(booked, dues, FigureBy(way, <<"done">>, <<c>>, Cardinality(S)))
    BY <1>1, <1>2, CountIs
<1>. QED BY <1>3, <1>4 DEF WhatEarned

LEMMA EarningsFigures ==
    ASSUME RowsOK, NEW c,
           NEW f \in WhatEarned("releases", c, OwedTo(c) \cap Dues({"released"})) \cup earnedInList(c)
                       \cup WhatEarned("overview", c, {k \in OwedTo(c) : "completed" \in ApplicationStatuses})
    PROVE  MoneyFigure(booked, dues, f)
<1>1. /\ OwedTo(c) \cap Dues({"released"}) = {k \in OwedTo(c) : Earns("releases", booked[k], dues[k])}
      /\ OwedTo(c) \cap In({"completed"}) = {k \in OwedTo(c) : Earns("list", booked[k], dues[k])}
      /\ {k \in OwedTo(c) : "completed" \in ApplicationStatuses}
           = {k \in OwedTo(c) : Earns("overview", booked[k], dues[k])}
    BY DEF OwedTo, Dues, In, Earns, ApplicationStatuses
<1>. QED BY <1>1, EarnedIs DEF earnedInList

\* How many campaigns there are, of a status, and active in each of the ways.
LEMMA StatusCount ==
    ASSUME RowsOK
    PROVE  /\ MoneyFigure(booked, dues, Figure(<<"campaigns">>, <<>>, Cardinality(Campaigned)))
           /\ \A s : s # "active" =>
                MoneyFigure(booked, dues, Figure(<<"campaigns", s>>, <<>>, Cardinality(In({s}))))
           /\ MoneyFigure(booked, dues, Active("overview", In({"active"})))
           /\ MoneyFigure(booked, dues, Active("brand", In({"active", "live"})))
           /\ MoneyFigure(booked, dues,
                          Active("summary", Campaigned \ In({"draft", "live", "completed", "cancelled"})))
<1>1. Weight(<<"campaigns">>) = One /\ \A s : Weight(<<"campaigns", s>>) = One
    BY NamesAre DEF Weight
<1>2. Campaigned = Counting(booked, dues, <<"campaigns">>, <<>>, "one")
    BY NamesAre DEF Counting, IsCounted
<1>3. ASSUME NEW s, s # "active"
      PROVE  In({s}) = Counting(booked, dues, <<"campaigns", s>>, <<>>, "one")
  <2>1. <<"campaigns", s>> # <<"campaigns", "active">>
      BY <1>3, NamesAre
  <2>2. \A k \in Campaigned :
          IsCounted(booked[k], dues[k], CreatorOf[k], <<"campaigns", s>>, <<>>, "one")
            <=> booked[k].status = s
      BY <2>1, NamesAre DEF IsCounted
  <2>. QED BY <2>2 DEF In, Counting
<1>4. ASSUME NEW way, NEW S, S = {k \in Campaigned : IsActive(way, booked[k])}
      PROVE  MoneyFigure(booked, dues, Active(way, S))
  <2>1. \A k \in Campaigned :
          IsCounted(booked[k], dues[k], CreatorOf[k], <<"campaigns", "active">>, <<>>, way)
            <=> IsActive(way, booked[k])
      BY NamesAre DEF IsCounted
  <2>2. S = Counting(booked, dues, <<"campaigns", "active">>, <<>>, way)
      BY <1>4, <2>1 DEF Counting
  <2>. QED BY <1>1, <2>2, CountIs DEF Active
<1>5. /\ In({"active"}) = {k \in Campaigned : IsActive("overview", booked[k])}
      /\ In({"active", "live"}) = {k \in Campaigned : IsActive("brand", booked[k])}
      /\ Campaigned \ In({"draft", "live", "completed", "cancelled"})
           = {k \in Campaigned : IsActive("summary", booked[k])}
  <2>1. \A k \in Campaigned : booked[k].status \in {"draft", "pending_payment", "live",
            "reviewing_applicant", "active", "completed", "cancelled"}
      BY DEF RowsOK, BookedRec
  <2>. QED BY <2>1 DEF In, IsActive
<1>6. MoneyFigure(booked, dues, FigureBy("one", <<"campaigns">>, <<>>, Cardinality(Campaigned)))
    BY <1>1, <1>2, CountIs
<1>7. ASSUME NEW s, s # "active"
      PROVE  MoneyFigure(booked, dues, FigureBy("one", <<"campaigns", s>>, <<>>, Cardinality(In({s}))))
    BY <1>1, <1>3, <1>7, CountIs
<1>. QED BY <1>4, <1>5, <1>6, <1>7 DEF Figure, FigureBy

\* What each request tells of money.
LEMMA MoneyFigures1 ==
    ASSUME RowsOK,
           NEW f \in getGlobalSummary \cup getEscrowOverview \cup getBrandPaymentSummary
                       \cup getBrandEscrowItems \cup totalSpend
    PROVE  MoneyFigure(booked, dues, f)
<1> DEFINE Is(of, S, way) == S = Counting(booked, dues, of, <<>>, way)
           MF(of, w, S, way) == MoneyFigure(booked, dues, FigureBy(way, of, <<>>, Total(w, S)))
<1>1. \A of, S, way : Is(of, S, way) => MF(of, Weight(of), S, way)
    BY MoneyIs
<1>2. \A of, w, S : MF(of, w, S, "one") => MoneyFigure(booked, dues, Figure(of, <<>>, Total(w, S)))
    BY DEF Figure, FigureBy
<1>. HIDE DEF MF
<1>3. MF(<<"spent">>, Charge, PaidAs({"paid", "escrowed", "completed"}), "one")
  <2>1. Is(<<"spent">>, PaidAs({"paid", "escrowed", "completed"}), "one") /\ Weight(<<"spent">>) = Charge
      BY SpentIs
  <2>. QED BY <1>1, <2>1
<1>4. MF(<<"paid out">>, Share, Dues({"released"}), "one")
  <2>1. Is(<<"paid out">>, Dues({"released"}), "one") /\ Weight(<<"paid out">>) = Share
      BY ShareIs
  <2>. QED BY <1>1, <2>1
<1>5. ASSUME NEW S, S \in {PaidAs({"paid", "escrowed"}),
                {k \in PaidAs({"paid", "escrowed"}) : booked[k].escrow \notin {"null", "released"}},
                {k \in PaidAs({"paid"}) : booked[k].escrow # "completed"}}
      PROVE  MoneyFigure(booked, dues, InEscrow("payments", S))
  <2>1. Is(<<"in escrow">>, S, "payments") /\ Weight(<<"in escrow">>) = Charge
      BY <1>5, SpentIs
  <2>. QED BY <1>1, <2>1 DEF MF, InEscrow
<1>6. MoneyFigure(booked, dues, InEscrow("items",
         {k \in PaidAs({"paid"}) \ In({"cancelled"}) : booked[k].escrow # "completed"}))
  <2>1. PICK S : S = {k \in PaidAs({"paid"}) \ In({"cancelled"}) : booked[k].escrow # "completed"}
      OBVIOUS
  <2>2. Is(<<"in escrow">>, S, "items") /\ Weight(<<"in escrow">>) = Charge
      BY <2>1, SpentIs
  <2>. QED BY <1>1, <2>1, <2>2 DEF MF, InEscrow
<1>7. MF(<<"budgets">>, Budget, {k \in Campaigned : booked[k].paid = "paid"}, "one")
  <2>1. \A k \in Campaigned :
          IsCounted(booked[k], dues[k], CreatorOf[k], <<"budgets">>, <<>>, "one") <=> booked[k].paid = "paid"
      BY NamesAre DEF IsCounted
  <2>2. Is(<<"budgets">>, {k \in Campaigned : booked[k].paid = "paid"}, "one") /\ Weight(<<"budgets">>) = Budget
      BY <2>1, NamesAre DEF Counting, Weight
  <2>. QED BY <1>1, <2>2
<1>8. CASE f \in getGlobalSummary
    BY <1>2, <1>3, <1>4, <1>5, <1>8 DEF getGlobalSummary
<1>9. CASE f \in getEscrowOverview
    BY <1>2, <1>3, <1>4, <1>5, <1>9 DEF getEscrowOverview
<1>10. CASE f \in getBrandPaymentSummary
    BY <1>2, <1>4, <1>5, <1>10 DEF getBrandPaymentSummary
<1>11. CASE f \in getBrandEscrowItems
    BY <1>6, <1>11 DEF getBrandEscrowItems
<1>12. CASE f \in totalSpend
    BY <1>2, <1>7, <1>12, StatusCount DEF totalSpend
<1>. QED BY <1>8, <1>9, <1>10, <1>11, <1>12

LEMMA CreatorFigures ==
    ASSUME RowsOK, NEW c,
           NEW f \in getCreatorPayoutSummary(c) \cup getCreatorEscrowItems(c)
                       \cup getCreatorProfileDetails(c) \cup earnedInList(c)
    PROVE  MoneyFigure(booked, dues, f)
<1>1. ASSUME NEW g \in WhatEarned("releases", c, OwedTo(c) \cap Dues({"released"})) \cup earnedInList(c)
      PROVE  MoneyFigure(booked, dues, g)
    BY <1>1, EarningsFigures
<1>2. MoneyFigure(booked, dues, Figure(<<"on hold">>, <<c>>, Total(Share,
        {k \in OwedTo(c) \cap Dues({"pending", "escrow_pending"}) : ~dues[k].past})))
  <2>1. PICK S : S = {k \in OwedTo(c) \cap Dues({"pending", "escrow_pending"}) : ~dues[k].past}
      OBVIOUS
  <2>2. S = Counting(booked, dues, <<"on hold">>, <<c>>, "one") /\ Weight(<<"on hold">>) = Share
      BY <2>1, ShareIs
  <2>3. MoneyFigure(booked, dues, FigureBy("one", <<"on hold">>, <<c>>, Total(Share, S)))
      BY <2>2, MoneyIs
  <2>. QED BY <2>1, <2>3 DEF Figure, FigureBy
<1>3. CASE f \in getCreatorPayoutSummary(c)
    BY <1>1, <1>2, <1>3 DEF getCreatorPayoutSummary, WhatEarned
<1>4. CASE f \in getCreatorEscrowItems(c)
    BY <1>2, <1>4 DEF getCreatorEscrowItems
<1>5. CASE f \in getCreatorProfileDetails(c) \cup earnedInList(c)
    BY <1>1, <1>5 DEF getCreatorProfileDetails
<1>. QED BY <1>3, <1>4, <1>5

\* The top creators are all to whom anything is released, and what they earned is all of it.
LEMMA TopFigures ==
    ASSUME RowsOK, NEW f \in getTopCreators
    PROVE  MoneyFigure(booked, dues, f)
<1> DEFINE Out == Dues({"released"})
           top == {c \in Creators : OwedTo(c) \cap Out # {}}
           earned == [c \in top |-> Total(Share, OwedTo(c) \cap Out)]
<1>1. CASE f \in UNION {WhatEarned("releases", c, OwedTo(c) \cap Out) : c \in top}
    BY <1>1, EarningsFigures
<1>2. SeriesTotal(earned) = SumOf(Share, Out)
  <2>1. /\ Out \in SUBSET Campaigned /\ IsFiniteSet(Out) /\ IsFiniteSet(Campaigned)
        /\ \A k \in Out : Share[k] \in Int
    <3>1. Out \in SUBSET Campaigned
        BY DEF Dues
    <3>2. \A k \in Campaigned : Share[k] \in Int
        BY ReportsConstants DEF Campaigned
    <3>. QED BY <3>1, <3>2, WeightIs
  <2>2. IsFiniteSet(top)
    <3> DEFINE h == [k \in Campaigned |-> CreatorOf[k]]
    <3>1. h \in Surjection(Campaigned, Creators)
        BY DEF Surjection, Creators
    <3>2. IsFiniteSet(Creators)
      <4>. HIDE DEF h
      <4>. QED BY <2>1, <3>1, FS_Surjection
    <3>3. top \in SUBSET Creators
        OBVIOUS
    <3>. HIDE DEF top
    <3>. QED BY <3>2, <3>3, FS_Subset
  <2>3. \A k \in Out : CreatorOf[k] \in top
    <3>1. \A k \in Out : k \in Campaigned /\ k \in OwedTo(CreatorOf[k]) /\ CreatorOf[k] \in Creators
        BY <2>1 DEF OwedTo, Creators
    <3>. QED BY <3>1
  <2>4. \A c \in top : OwedTo(c) \cap Out = {k \in Out : CreatorOf[k] = c}
      BY <2>1 DEF OwedTo
  <2>5. earned = [c \in top |-> SumOf(Share, {k \in Out : CreatorOf[k] = c})]
    <3>1. \A c \in top : Total(Share, OwedTo(c) \cap Out) = SumOf(Share, {k \in Out : CreatorOf[k] = c})
        BY <2>4, TotalIs
    <3>. HIDE DEF top, Out
    <3>. QED BY <3>1
  <2>6. SumOf(earned, top) = SumOf(Share, Out)
    <3>1. SumOf([c \in top |-> SumOf(Share, {k \in Out : CreatorOf[k] = c})], top) = SumOf(Share, Out)
      <4>. HIDE DEF top, Out, earned
      <4>. QED BY <2>1, <2>2, <2>3, SumParts
    <3>. HIDE DEF top, Out, earned
    <3>. QED BY <2>5, <3>1
  <2>7. DOMAIN earned = top
      OBVIOUS
  <2>. HIDE DEF earned
  <2>. QED BY <2>6, <2>7, SeriesIs
<1>3. CASE f = Figure(<<"paid out">>, <<>>, SeriesTotal(earned))
  <2>1. Out = Counting(booked, dues, <<"paid out">>, <<>>, "one") /\ Weight(<<"paid out">>) = Share
      BY ShareIs
  <2>. HIDE DEF earned, Out
  <2>. QED BY <1>2, <1>3, <2>1 DEF MoneyFigure, Figure, Value
<1>. QED BY <1>1, <1>3 DEF getTopCreators

LEMMA FiniteFive == ASSUME NEW a, NEW b, NEW c, NEW d, NEW e PROVE IsFiniteSet({a, b, c, d, e})
<1>1. IsFiniteSet({a}) /\ IsFiniteSet({a} \cup {b})
    BY FS_EmptySet, FS_AddElement, FS_Singleton
<1>2. IsFiniteSet(({a} \cup {b}) \cup {c})
    BY <1>1, FS_AddElement
<1>3. IsFiniteSet((({a} \cup {b}) \cup {c}) \cup {d})
    BY <1>2, FS_AddElement
<1>4. IsFiniteSet(((({a} \cup {b}) \cup {c}) \cup {d}) \cup {e})
    BY <1>3, FS_AddElement
<1>5. ((({a} \cup {b}) \cup {c}) \cup {d}) \cup {e} = {a, b, c, d, e}
    OBVIOUS
<1>. QED BY <1>4, <1>5

LEMMA CampaignFigures ==
    ASSUME RowsOK, NEW f \in getOverviewOfCampaigns \cup getCampaignsSummary \cup activeOfBrand
    PROVE  MoneyFigure(booked, dues, f)
<1> DEFINE drafts == {k \in Campaigned : booked[k].status = "draft" \/ booked[k].paid = "unpaid"}
           Rest(s) == In({s}) \ drafts
           others == In({"draft", "live", "completed", "cancelled"}) \cup drafts
           count == [draft |-> drafts, live |-> Rest("live"), completed |-> Rest("completed"),
                     cancelled |-> Rest("cancelled"), active |-> Campaigned \ others]
           T == {"draft", "live", "completed", "cancelled", "active"}
           g == [s \in DOMAIN count |-> Cardinality(count[s])]
           h == [k \in Campaigned |-> IF k \in drafts THEN "draft"
                                      ELSE IF booked[k].status \in {"live", "completed", "cancelled"}
                                      THEN booked[k].status ELSE "active"]
<1>1. MoneyFigure(booked, dues, Figure(<<"campaigns">>, <<>>, Cardinality(Campaigned)))
    BY StatusCount
<1>2. ASSUME NEW s \in {"draft", "live", "completed"}, NEW n, n = Cardinality(In({s}))
      PROVE  MoneyFigure(booked, dues, Figure(<<"campaigns", s>>, <<>>, n))
    BY <1>2, StatusCount
<1>3. drafts = In({"draft"})
    BY BookedIs DEF In
<1>4. /\ DOMAIN count = T
      /\ count["draft"] = In({"draft"}) /\ count["live"] = In({"live"})
      /\ count["completed"] = In({"completed"}) /\ count["cancelled"] = In({"cancelled"})
      /\ count["active"] = Campaigned \ In({"draft", "live", "completed", "cancelled"})
  <2>1. Rest("live") = In({"live"}) /\ Rest("completed") = In({"completed"})
        /\ Rest("cancelled") = In({"cancelled"}) /\ others = In({"draft", "live", "completed", "cancelled"})
    <3>. HIDE DEF drafts
    <3>. QED BY <1>3 DEF In
  <2>2. DOMAIN count = T
      OBVIOUS
  <2>3. /\ count["draft"] = drafts /\ count["live"] = Rest("live")
        /\ count["completed"] = Rest("completed") /\ count["cancelled"] = Rest("cancelled")
        /\ count["active"] = Campaigned \ others
      OBVIOUS
  <2>. HIDE DEF count, drafts, Rest, others
  <2>. QED BY <1>3, <2>1, <2>2, <2>3
<1>5. \A k \in Campaigned :
         h[k] = IF booked[k].status \in {"draft", "live", "completed", "cancelled"}
                THEN booked[k].status ELSE "active"
  <2>1. \A k \in Campaigned : k \in drafts <=> booked[k].status = "draft"
    <3>. HIDE DEF drafts
    <3>. QED BY <1>3 DEF In
  <2>. HIDE DEF drafts
  <2>. QED BY <2>1
<1>6. \A k \in Campaigned : h[k] \in T
  <2>. HIDE DEF h
  <2>. QED BY <1>5
<1>7. \A s \in T : count[s] = {k \in Campaigned : h[k] = s}
  <2>. HIDE DEF h, count
  <2>1. \A s \in {"draft", "live", "completed", "cancelled"} :
           {k \in Campaigned : h[k] = s} = In({s})
      BY <1>5 DEF In
  <2>2. {k \in Campaigned : h[k] = "active"}
           = Campaigned \ In({"draft", "live", "completed", "cancelled"})
      BY <1>5 DEF In
  <2>. QED BY <1>4, <2>1, <2>2
<1>8. DOMAIN g = T /\ \A s \in T : g[s] = Cardinality({k \in Campaigned : h[k] = s})
  <2>1. DOMAIN g = DOMAIN count /\ \A s \in DOMAIN count : g[s] = Cardinality(count[s])
    <3>. HIDE DEF count
    <3>. QED OBVIOUS
  <2>. HIDE DEF g, h, count
  <2>. QED BY <1>4, <1>7, <2>1
<1>9. SeriesTotal(g) = Cardinality(Campaigned)
  <2>1. IsFiniteSet(Campaigned) /\ IsFiniteSet(T)
      BY WeightIs, FiniteFive
  <2>. HIDE DEF g, h, count, T
  <2>2. SumOf(g, T) = Cardinality(Campaigned)
      BY <1>6, <1>8, <2>1, CountParts
  <2>. QED BY <1>8, <2>2, SeriesIs
<1>10. CASE f \in getOverviewOfCampaigns \cup activeOfBrand
    BY <1>1, <1>2, <1>10, StatusCount DEF getOverviewOfCampaigns, activeOfBrand
<1>11. CASE f = Figure(<<"campaigns">>, <<>>, SeriesTotal(g))
    BY <1>1, <1>9, <1>11
<1>12. CASE \E s \in {"draft", "live", "completed"} : f = Figure(<<"campaigns", s>>, <<>>, Cardinality(count[s]))
  <2>1. PICK s \in {"draft", "live", "completed"} : f = Figure(<<"campaigns", s>>, <<>>, Cardinality(count[s]))
      BY <1>12
  <2>. HIDE DEF count
  <2>2. Cardinality(count[s]) = Cardinality(In({s}))
      BY <1>4
  <2>. QED BY <1>2, <2>1, <2>2
<1>13. f \in getCampaignsSummary =>
         \/ f = Figure(<<"campaigns">>, <<>>, SeriesTotal(g))
         \/ f = Active("summary", count["active"])
         \/ \E s \in {"draft", "live", "completed"} : f = Figure(<<"campaigns", s>>, <<>>, Cardinality(count[s]))
  <2>1. getCampaignsSummary =
          {Figure(<<"campaigns">>, <<>>, SeriesTotal(g)), Active("summary", count["active"])}
          \cup {Figure(<<"campaigns", s>>, <<>>, Cardinality(count[s])) : s \in {"draft", "live", "completed"}}
      BY DEF getCampaignsSummary
  <2>. HIDE DEF g, count
  <2>. QED BY <2>1
<1>. HIDE DEF g, count
<1>14. CASE f = Active("summary", count["active"])
    BY <1>4, <1>14, StatusCount
<1>. QED BY <1>10, <1>11, <1>12, <1>13, <1>14

\* Every figure of money is what it claims to be.
LEMMA MoneysFigures ==
    ASSUME RowsOK, NEW f \in FiguresOfMoney
    PROVE  MoneyFigure(booked, dues, f)
<1>1. \/ f \in getGlobalSummary \cup getEscrowOverview \cup getBrandPaymentSummary
                 \cup getBrandEscrowItems \cup totalSpend
      \/ f \in getTopCreators
      \/ f \in getOverviewOfCampaigns \cup getCampaignsSummary \cup activeOfBrand
      \/ f \in topCreatorsOfOverview
      \/ \E c \in Creators : f \in getCreatorPayoutSummary(c) \cup getCreatorEscrowItems(c)
                                     \cup getCreatorProfileDetails(c) \cup earnedInList(c)
    BY DEF FiguresOfMoney
<1>2. CASE f \in topCreatorsOfOverview
    BY <1>2, EarningsFigures DEF topCreatorsOfOverview
<1>. QED BY <1>1, <1>2, MoneyFigures1, TopFigures, CampaignFigures, CreatorFigures

\* The first figure is within n of what it would be now.
Near(f, v, n) == f.n \in Int /\ v \in Int /\ f.n - v \in -n..n

UserNear(e, f, n) ==
    IF OfTier(f.of) THEN \E u \in DOMAIN e : f.key = <<u>> /\ Near(f, TierOf(e[u]), n)
                    ELSE Near(f, Cardinality(Counted(e, f.of, f.key)), n)
MoneyNear(b, d, f, n) == Near(f, Value(b, d, f.of, f.key, f.way), n)

ReportsInv ==
    /\ desk \in {"users", "money"} /\ drift \in Nat
    /\ UsersOK /\ RowsOK
    /\ \/ shown = <<>>
       \/ \E f : /\ shown = <<f>>
                 /\ desk = "users" => UserNear(entry, f, drift)
                 /\ desk = "money" => MoneyNear(booked, dues, f, drift)
       \/ Len(shown) = 2 /\ FiguresAgree

LEMMA FurtherOff ==
    ASSUME NEW f, NEW v, NEW w, NEW n \in Nat, NEW by \in Nat, NEW m, m = n + by,
           Near(f, v, n), w \in Int, w - v \in -by..by
    PROVE  Near(f, w, m)
BY DEF Near

LEMMA AssignedTierIs ==
    ASSUME NEW reach \in Nat \X Nat
    PROVE  AssignedTier(reach) \in 1..4
<1>1. PICK a \in Nat, b \in Nat : a = reach[1] /\ b = reach[2]
    OBVIOUS
<1>2. PICK n \in Nat : n = Max({reach[1], reach[2]})
  <2>1. Max({a, b}) \in Nat
      BY MostOf
  <2>. QED BY <1>1, <2>1
<1> DEFINE steps == <<0, 10000, 200000, 1000000>>
           Here(t) == (t = 1 \/ n >= steps[t]) /\ (t = 4 \/ n < steps[t + 1])
<1>3. steps[1] = 0 /\ steps[2] = 10000 /\ steps[3] = 200000 /\ steps[4] = 1000000
    OBVIOUS
<1>4. AssignedTier(reach) = CHOOSE t \in 1..4 : Here(t)
    BY <1>2 DEF AssignedTier, Ladder
<1>. HIDE DEF steps
<1>5. Here(1) \/ Here(2) \/ Here(3) \/ Here(4)
    BY <1>3
<1>6. \E t \in 1..4 : Here(t)
    BY <1>5
<1>. HIDE DEF Here
<1>. QED BY <1>4, <1>6

LEMMA TierOfIs ==
    ASSUME NEW row \in UserRec
    PROVE  TierOf(row) \in 1..4
<1>1. row.tier \in 0..4 /\ row.reach \in Nat \X Nat
    BY DEF UserRec
<1>. QED BY <1>1, OfReachIs DEF TierOf

\* One row of users changes: no count moves by more than one.
LEMMA OneUser ==
    ASSUME UsersOK, NEW u \in Registered, NEW row, UserOK(row), NEW e,
           DOMAIN e = DOMAIN entry \cup {u}, e = [v \in DOMAIN e |-> e[v]], e[u] = row,
           \A v \in DOMAIN entry \ {u} : e[v] = entry[v],
           NEW by \in Nat, by >= 1,
           u \in DOMAIN entry => TierOf(row) - TierOf(entry[u]) \in -by..by,
           NEW f, NEW n \in Nat, UserNear(entry, f, n), NEW m, m = n + by
    PROVE  UserNear(e, f, m)
<1>1. CASE OfTier(f.of)
  <2>1. PICK v \in DOMAIN entry : f.key = <<v>> /\ Near(f, TierOf(entry[v]), n)
      BY <1>1 DEF UserNear
  <2>2. TierOf(row) \in Int /\ TierOf(entry[v]) \in Int
      BY TierOfIs DEF UserOK, UsersOK
  <2>3. v \in DOMAIN e /\ Near(f, TierOf(e[v]), m)
    <3>1. CASE v = u
      <4>1. TierOf(e[v]) = TierOf(row) /\ TierOf(row) - TierOf(entry[v]) \in -by..by
          BY <3>1
      <4>. QED BY <2>1, <2>2, <3>1, <4>1, FurtherOff
    <3>2. CASE v # u
      <4>1. e[v] = entry[v] /\ TierOf(entry[v]) - TierOf(entry[v]) \in -by..by
          BY <2>2, <3>2
      <4>. QED BY <2>1, <2>2, <4>1, FurtherOff
    <3>. QED BY <3>1, <3>2
  <2>. QED BY <1>1, <2>1, <2>3 DEF UserNear
<1>2. CASE ~OfTier(f.of)
  <2> DEFINE S == Counted(entry, f.of, f.key)
             R == Counted(e, f.of, f.key)
  <2>1. S \subseteq Registered /\ R \subseteq Registered /\ S \ {u} = R \ {u}
      BY DEF Counted, UsersOK
  <2>2. Near(f, Cardinality(S), n)
      BY <1>2 DEF UserNear
  <2>. HIDE DEF S, R
  <2>3. /\ Cardinality(S) \in Nat /\ Cardinality(R) \in Nat
        /\ Cardinality(R) - Cardinality(S) \in -1..1
    <3>1. IsFiniteSet(Registered)
        BY ReportsConstants
    <3>. QED BY <2>1, <3>1, CountDrift
  <2>4. Cardinality(R) - Cardinality(S) \in -by..by /\ Cardinality(R) \in Int
      BY <2>3
  <2>5. Near(f, Cardinality(R), m)
      BY <2>2, <2>4, FurtherOff
  <2>. QED BY <1>2, <2>5 DEF UserNear, R
<1>. QED BY <1>1, <1>2

\* What a change of users does to the invariant.
LEMMA UserStep ==
    ASSUME ReportsInv, NEW u \in Registered, NEW row, UserOK(row), NEW by \in Nat, by >= 1,
           desk = "users", Change(by),
           entry' \in [DOMAIN entry \cup {u} -> UserRec], entry'[u] = row,
           \A v \in DOMAIN entry \ {u} : entry'[v] = entry[v],
           booked' = booked, dues' = dues,
           u \in DOMAIN entry => TierOf(row) - TierOf(entry[u]) \in -by..by
    PROVE  ReportsInv'
<1>1. drift \in Nat /\ UsersOK /\ RowsOK
    BY DEF ReportsInv
<1>2. Len(shown) = 1 /\ drift' = drift + by /\ desk' = desk /\ shown' = shown
    BY DEF Change
<1>3. PICK f : shown = <<f>> /\ UserNear(entry, f, drift)
  <2>1. shown # <<>>
      BY <1>2
  <2>. QED BY <1>2, <2>1 DEF ReportsInv
<1>4. UserNear(entry', f, drift')
  <2>1. PICK e : e = entry'
      OBVIOUS
  <2>2. DOMAIN e = DOMAIN entry \cup {u} /\ e = [v \in DOMAIN e |-> e[v]] /\ e[u] = row
      BY <2>1
  <2>3. \A v \in DOMAIN entry \ {u} : e[v] = entry[v]
      BY <2>1
  <2>4. UserNear(e, f, drift')
      BY <1>1, <1>2, <1>3, <2>2, <2>3, OneUser
  <2>. QED BY <2>1, <2>4
<1>5. UsersOK'
  <2>1. DOMAIN entry' = DOMAIN entry \cup {u}
      OBVIOUS
  <2>2. \A v \in DOMAIN entry' : UserOK(entry'[v])
    <3>. SUFFICES ASSUME NEW v \in DOMAIN entry' PROVE UserOK(entry'[v])
        OBVIOUS
    <3>1. v = u \/ v \in DOMAIN entry \ {u}
        BY <2>1
    <3>2. v # u => UserOK(entry[v])
        BY <1>1, <3>1 DEF UsersOK
    <3>. QED BY <3>1, <3>2
  <2>3. DOMAIN entry' \subseteq Registered
      BY <1>1, <2>1 DEF UsersOK
  <2>. QED BY <2>1, <2>2, <2>3 DEF UsersOK
<1>6. RowsOK'
    BY <1>1 DEF RowsOK, BookedOK
<1>. QED BY <1>1, <1>2, <1>3, <1>4, <1>5, <1>6 DEF ReportsInv

LEMMA ChangeUserStep ==
    ASSUME ReportsInv, NEW row, NEW u \in Registered, ChangeUser(row, u), UserOK(row),
           u \in DOMAIN entry => row.tier = entry[u].tier /\ row.reach = entry[u].reach
    PROVE  ReportsInv'
<1> DEFINE new == [row EXCEPT !.updated = Today]
<1>1. UserOK(new) /\ TierOf(new) = TierOf(row) /\ new \in UserRec
  <2>1. row \in UserRec
      BY DEF UserOK
  <2>2. Today \in DOMAIN Calendar
      BY ReportsConstants DEF Today
  <2>3. new \in UserRec
      BY <2>1, <2>2 DEF UserRec
  <2>4. new.role = row.role /\ new.done = row.done /\ new.tier = row.tier /\ new.reach = row.reach
      BY <2>1 DEF UserRec
  <2>. HIDE DEF new
  <2>. QED BY <2>3, <2>4 DEF UserOK, TierOf
<1>2. desk = "users" /\ Change(1) /\ booked' = booked /\ dues' = dues
    BY DEF ChangeUser
<1>3. entry' = [v \in DOMAIN entry \cup {u} |-> IF v = u THEN new ELSE entry[v]]
    BY DEF ChangeUser
<1>4. UsersOK
    BY DEF ReportsInv
<1>5. \A v \in DOMAIN entry : entry[v] \in UserRec
    BY <1>4 DEF UsersOK
<1>. HIDE DEF new
<1>6. /\ entry' \in [DOMAIN entry \cup {u} -> UserRec] /\ entry'[u] = new
      /\ \A v \in DOMAIN entry \ {u} : entry'[v] = entry[v]
    BY <1>1, <1>3, <1>5
<1>7. ASSUME u \in DOMAIN entry PROVE TierOf(new) - TierOf(entry[u]) \in -1..1
  <2>1. TierOf(new) = TierOf(entry[u])
      BY <1>1, <1>7 DEF TierOf
  <2>2. TierOf(entry[u]) \in 1..4
      BY <1>5, <1>7, TierOfIs
  <2>. QED BY <2>1, <2>2
<1>. QED BY <1>1, <1>2, <1>6, <1>7, UserStep

\* The row of one campaign changes: a figure moves by its weight at most, if it counts the
\* row otherwise than before.
LEMMA OneCampaign ==
    ASSUME NEW k \in Campaigned, NEW b, NEW d,
           \A j \in Campaigned \ {k} : b[j] = booked[j] /\ d[j] = dues[j],
           NEW by \in Nat, NEW of, NEW key, NEW way,
           \/ Weight(of)[k] <= by
           \/ IsCounted(b[k], d[k], CreatorOf[k], of, key, way)
                <=> IsCounted(booked[k], dues[k], CreatorOf[k], of, key, way)
    PROVE  /\ Value(b, d, of, key, way) \in Int /\ Value(booked, dues, of, key, way) \in Int
           /\ Value(b, d, of, key, way) - Value(booked, dues, of, key, way) \in -by..by
<1> DEFINE S == Counting(booked, dues, of, key, way)
           R == Counting(b, d, of, key, way)
<1>1. S \subseteq Campaigned /\ R \subseteq Campaigned /\ S \ {k} = R \ {k}
    BY DEF Counting
<1>2. (k \in S <=> k \in R) \/ Weight(of)[k] <= by
    BY DEF Counting
<1>3. IsFiniteSet(Campaigned) /\ \A j \in Campaigned : Weight(of)[j] \in Nat
    BY WeightIs
<1>. HIDE DEF S, R
<1>4. /\ SumOf(Weight(of), S) \in Nat /\ SumOf(Weight(of), R) \in Nat
      /\ SumOf(Weight(of), R) - SumOf(Weight(of), S) \in -by..by
    BY <1>1, <1>2, <1>3, SumDrift
<1>. QED BY <1>4 DEF Value, S, R

\* A campaign's new row moves no figure by more than that.
MovesBy(k, row, due, by) ==
    \A of, key, way : \/ Weight(of)[k] <= by
                      \/ IsCounted(row, due, CreatorOf[k], of, key, way)
                           <=> IsCounted(booked[k], dues[k], CreatorOf[k], of, key, way)

LEMMA MoneyStep ==
    ASSUME ReportsInv, NEW k \in Campaigned, NEW row, BookedOK(row), NEW due \in DueRec,
           NEW by \in Nat, Move(k, row, due, by),
           MovesBy(k, row, due, by)
    PROVE  ReportsInv'
<1>1. drift \in Nat /\ UsersOK /\ RowsOK
    BY DEF ReportsInv
<1>2. /\ desk = "money" /\ Len(shown) = 1 /\ drift' = drift + by /\ desk' = desk /\ shown' = shown
      /\ entry' = entry
    BY DEF Move, Change
<1>3. /\ booked' \in [Campaigned -> BookedRec] /\ booked'[k] = row
      /\ dues' \in [Campaigned -> DueRec] /\ dues'[k] = due
      /\ \A j \in Campaigned \ {k} : booked'[j] = booked[j] /\ dues'[j] = dues[j]
    BY <1>1 DEF Move, RowsOK, BookedOK
<1>4. RowsOK'
  <2>1. \A j \in Campaigned : BookedOK(booked'[j])
    <3>. SUFFICES ASSUME NEW j \in Campaigned PROVE BookedOK(booked'[j])
        OBVIOUS
    <3>1. j = k \/ booked'[j] = booked[j]
        BY <1>3
    <3>2. BookedOK(booked[j])
        BY <1>1 DEF RowsOK
    <3>. QED BY <1>3, <3>1, <3>2
  <2>. QED BY <1>3, <2>1 DEF RowsOK
<1>5. PICK f : shown = <<f>> /\ MoneyNear(booked, dues, f, drift)
  <2>1. shown # <<>>
      BY <1>2
  <2>. QED BY <1>2, <2>1 DEF ReportsInv
<1>6. MoneyNear(booked', dues', f, drift')
  <2>1. PICK b, d : b = booked' /\ d = dues'
      OBVIOUS
  <2>2. Near(f, Value(booked, dues, f.of, f.key, f.way), drift)
      BY <1>5 DEF MoneyNear
  <2>3. \A j \in Campaigned \ {k} : b[j] = booked[j] /\ d[j] = dues[j]
      BY <1>3, <2>1
  <2>4. \/ Weight(f.of)[k] <= by
        \/ IsCounted(b[k], d[k], CreatorOf[k], f.of, f.key, f.way)
             <=> IsCounted(booked[k], dues[k], CreatorOf[k], f.of, f.key, f.way)
      BY <1>3, <2>1 DEF MovesBy
  <2>5. /\ Value(b, d, f.of, f.key, f.way) \in Int
        /\ Value(b, d, f.of, f.key, f.way) - Value(booked, dues, f.of, f.key, f.way) \in -by..by
      BY <2>3, <2>4, OneCampaign
  <2>6. Near(f, Value(b, d, f.of, f.key, f.way), drift')
      BY <1>1, <1>2, <2>2, <2>5, FurtherOff
  <2>. QED BY <2>1, <2>6 DEF MoneyNear
<1>7. UsersOK'
    BY <1>1, <1>2 DEF UsersOK
<1>. QED BY <1>1, <1>2, <1>4, <1>5, <1>6, <1>7 DEF ReportsInv

LEMMA SignUpKeeps == ASSUME ReportsInv, SignUp PROVE ReportsInv'
<1>1. PICK u \in Registered \ DOMAIN entry, role \in {"creator", "brand"} :
        ChangeUser([role |-> role, created |-> Today, updated |-> Today, login |-> 0, tier |-> 0,
                    reach |-> <<0, 0>>, done |-> 0, country |-> "none"], u)
    BY DEF SignUp
<1>2. Today \in DOMAIN Calendar
    BY ReportsConstants DEF Today
<1>3. PICK row : row = [role |-> role, created |-> Today, updated |-> Today, login |-> 0, tier |-> 0,
                        reach |-> <<0, 0>>, done |-> 0, country |-> "none"]
    OBVIOUS
<1>4. row \in UserRec
  <2>1. PICK today \in DOMAIN Calendar : today = Today
      BY <1>2
  <2>2. PICK reach \in Nat \X Nat : reach = <<0, 0>>
      OBVIOUS
  <2>3. row = [role |-> role, created |-> today, updated |-> today, login |-> 0, tier |-> 0,
               reach |-> reach, done |-> 0, country |-> "none"]
      BY <1>3, <2>1, <2>2
  <2>4. 0 \in 0..4 /\ 0 \in 0..5 /\ 0 \in {0} \cup DOMAIN Calendar
      OBVIOUS
  <2>5. "none" \in {"none"} \cup STRING
      OBVIOUS
  <2>. QED BY <2>3, <2>4, <2>5 DEF UserRec
<1>5. row.done = 0 /\ row.reach = <<0, 0>>
    BY <1>3
<1>6. UserOK(row)
    BY <1>4, <1>5 DEF UserOK
<1>. QED BY <1>1, <1>3, <1>6, ChangeUserStep

LEMMA LogInKeeps == ASSUME ReportsInv, LogIn PROVE ReportsInv'
<1>1. PICK u \in DOMAIN entry : ChangeUser([entry[u] EXCEPT !.login = Today], u)
    BY DEF LogIn
<1>2. UserOK(entry[u]) /\ u \in Registered
    BY DEF ReportsInv, UsersOK
<1>3. Today \in DOMAIN Calendar
    BY ReportsConstants DEF Today
<1>4. PICK row : row = [entry[u] EXCEPT !.login = Today]
    OBVIOUS
<1>5. UserOK(row) /\ row.tier = entry[u].tier /\ row.reach = entry[u].reach
  <2>1. row \in UserRec /\ row.tier = entry[u].tier /\ row.reach = entry[u].reach
        /\ row.role = entry[u].role /\ row.done = entry[u].done
      BY <1>2, <1>3, <1>4 DEF UserOK, UserRec
  <2>. QED BY <1>2, <2>1 DEF UserOK
<1>. QED BY <1>1, <1>2, <1>4, <1>5, ChangeUserStep

LEMMA OnboardKeeps == ASSUME ReportsInv, Onboard PROVE ReportsInv'
<1>1. PICK u \in DOMAIN entry : \E n \in {entry[u].done - 1, entry[u].done + 1} :
            /\ n \in 0..(IF entry[u].role = "brand" THEN 4 ELSE 5)
            /\ ChangeUser([entry[u] EXCEPT !.done = n], u)
    BY DEF Onboard
<1>2. PICK n : /\ n \in 0..(IF entry[u].role = "brand" THEN 4 ELSE 5)
               /\ ChangeUser([entry[u] EXCEPT !.done = n], u)
    BY <1>1
<1>3. UserOK(entry[u]) /\ u \in Registered
    BY DEF ReportsInv, UsersOK
<1>4. PICK row : row = [entry[u] EXCEPT !.done = n]
    OBVIOUS
<1>5. UserOK(row) /\ row.tier = entry[u].tier /\ row.reach = entry[u].reach
  <2>1. n \in 0..5 /\ (entry[u].role = "brand" => n <= 4)
      BY <1>2
  <2>2. row \in UserRec /\ row.tier = entry[u].tier /\ row.reach = entry[u].reach
        /\ row.role = entry[u].role /\ row.done = n
      BY <1>3, <1>4, <2>1 DEF UserOK, UserRec
  <2>. QED BY <1>3, <2>1, <2>2 DEF UserOK
<1>. QED BY <1>2, <1>3, <1>4, <1>5, ChangeUserStep

\* A tier moves by three at most.
LEMMA GainFollowersKeeps == ASSUME ReportsInv, GainFollowers PROVE ReportsInv'
<1>1. PICK u \in WithRole("creator"), reach \in Reaches :
        /\ Change(3) /\ desk = "users"
        /\ entry' = [entry EXCEPT ![u].reach = reach, ![u].tier = AssignedTier(reach),
                                  ![u].updated = Today]
        /\ booked' = booked /\ dues' = dues
    BY DEF GainFollowers
<1>2. u \in DOMAIN entry /\ u \in Registered /\ UserOK(entry[u]) /\ entry \in [DOMAIN entry -> UserRec]
    BY DEF ReportsInv, UsersOK, WithRole
<1>3. PICK t \in 1..4 : t = AssignedTier(reach)
    BY AssignedTierIs, ReportsConstants
<1>4. PICK row : row = [entry[u] EXCEPT !.reach = reach, !.tier = t, !.updated = Today]
    OBVIOUS
<1>5. UserOK(row)
  <2>1. reach \in Nat \X Nat /\ Today \in DOMAIN Calendar
      BY ReportsConstants DEF Today
  <2>2. PICK old \in UserRec : old = entry[u]
      BY <1>2 DEF UserOK
  <2>3. row = [old EXCEPT !.reach = reach, !.tier = t, !.updated = Today]
      BY <1>4, <2>2
  <2>. HIDE <1>3
  <2>4. PICK today \in DOMAIN Calendar : today = Today
      BY <2>1
  <2>5. row \in UserRec /\ row.tier = t /\ row.role = old.role /\ row.done = old.done
    <3>1. row = [old EXCEPT !.reach = reach, !.tier = t, !.updated = today]
        BY <2>3, <2>4
    <3>2. t \in 0..4 /\ reach \in Nat \X Nat
        BY <2>1
    <3>. HIDE <2>2
    <3>. QED BY <3>1, <3>2 DEF UserRec
  <2>. QED BY <1>2, <2>2, <2>5 DEF UserOK
<1>6. row \in UserRec
    BY <1>5 DEF UserOK
<1>7. /\ entry' \in [DOMAIN entry \cup {u} -> UserRec] /\ entry'[u] = row
      /\ \A v \in DOMAIN entry \ {u} : entry'[v] = entry[v]
  <2>1. entry' = [entry EXCEPT ![u] = row]
      BY <1>1, <1>2, <1>3, <1>4
  <2>. QED BY <1>2, <1>6, <2>1
<1>8. TierOf(row) - TierOf(entry[u]) \in -3..3
  <2>1. TierOf(row) \in 1..4 /\ TierOf(entry[u]) \in 1..4
      BY <1>2, <1>6, TierOfIs
  <2>. QED BY <2>1
<1>9. desk = "users" /\ Change(3) /\ booked' = booked /\ dues' = dues /\ 3 \in Nat /\ 3 >= 1
    BY <1>1
<1>. HIDE <1>1
<1>. QED BY <1>2, <1>5, <1>7, <1>8, <1>9, UserStep

LEMMA RowsAre ==
    ASSUME ReportsInv, NEW k \in Campaigned
    PROVE  /\ BookedOK(booked[k]) /\ booked[k] \in BookedRec /\ dues[k] \in DueRec
           /\ Charge[k] \in Nat /\ Share[k] \in Nat /\ Budget[k] \in Nat /\ Budget[k] >= 1
           /\ Share[k] <= Budget[k] /\ Budget[k] <= Charge[k]
BY ReportsConstants DEF ReportsInv, RowsOK, BookedOK, Campaigned

LEMMA PayForKeeps == ASSUME ReportsInv, PayFor PROVE ReportsInv'
<1>1. PICK k \in Campaigned :
        /\ booked[k].payment = "pending"
        /\ Move(k, [booked[k] EXCEPT !.payment = "paid", !.escrow = "funded"], dues[k], Charge[k])
    BY DEF PayFor
<1>2. PICK row : row = [booked[k] EXCEPT !.payment = "paid", !.escrow = "funded"]
    OBVIOUS
<1>3. /\ row \in BookedRec /\ row.status = booked[k].status /\ row.paid = booked[k].paid
      /\ row.payment = "paid" /\ row.escrow = "funded"
    BY <1>2, RowsAre DEF BookedRec
<1>4. BookedOK(row)
    BY <1>3, RowsAre DEF BookedOK
<1>5. ASSUME NEW of, NEW key, NEW way
      PROVE  \/ Weight(of)[k] <= Charge[k]
             \/ IsCounted(row, dues[k], CreatorOf[k], of, key, way)
                  <=> IsCounted(booked[k], dues[k], CreatorOf[k], of, key, way)
  <2>1. CASE of[1] \in {"spent", "in escrow"}
    <3>1. Weight(of) = Charge
        BY <2>1 DEF Weight
    <3>2. Charge[k] \in Nat
        BY RowsAre
    <3>. QED BY <3>1, <3>2
  <2>2. /\ Earns(way, row, dues[k]) <=> Earns(way, booked[k], dues[k])
        /\ IsActive(way, row) <=> IsActive(way, booked[k])
      BY <1>3 DEF Earns, IsActive
  <2>3. CASE of[1] \notin {"spent", "in escrow"}
      BY <1>3, <2>2, <2>3, NamesAre DEF IsCounted
  <2>. QED BY <2>1, <2>3
<1>6. MovesBy(k, row, dues[k], Charge[k])
    BY <1>5 DEF MovesBy
<1>. QED BY <1>1, <1>2, <1>4, <1>6, RowsAre, MoneyStep

LEMMA OpenUpKeeps == ASSUME ReportsInv, OpenUp PROVE ReportsInv'
<1>1. PICK k \in Campaigned :
        /\ booked[k].status = "pending_payment" /\ booked[k].payment = "paid"
        /\ Move(k, [booked[k] EXCEPT !.paid = "paid", !.status = "live"], dues[k], Budget[k])
    BY DEF OpenUp
<1>2. PICK row : row = [booked[k] EXCEPT !.paid = "paid", !.status = "live"]
    OBVIOUS
<1>3. /\ row \in BookedRec /\ row.status = "live" /\ row.paid = "paid"
      /\ row.payment = booked[k].payment /\ row.escrow = booked[k].escrow
    BY <1>2, RowsAre DEF BookedRec
<1>4. BookedOK(row)
    BY <1>3, RowsAre DEF BookedOK
<1>5. ASSUME NEW of, NEW key, NEW way
      PROVE  \/ Weight(of)[k] <= Budget[k]
             \/ IsCounted(row, dues[k], CreatorOf[k], of, key, way)
                  <=> IsCounted(booked[k], dues[k], CreatorOf[k], of, key, way)
  <2>1. CASE of[1] = "budgets" \/ of[1] = "campaigns"
    <3>1. Weight(of) = Budget \/ Weight(of) = One
        BY <2>1 DEF Weight
    <3>2. Budget[k] \in Nat /\ Budget[k] >= 1 /\ One[k] = 1
        BY RowsAre DEF One
    <3>. QED BY <3>1, <3>2
  <2>2. Earns(way, row, dues[k]) <=> Earns(way, booked[k], dues[k])
      BY <1>1, <1>3 DEF Earns
  <2>3. CASE of[1] # "budgets" /\ of[1] # "campaigns"
      BY <1>1, <1>3, <2>2, <2>3, NamesAre DEF IsCounted
  <2>. QED BY <2>1, <2>3
<1>6. MovesBy(k, row, dues[k], Budget[k])
    BY <1>5 DEF MovesBy
<1>. QED BY <1>1, <1>2, <1>4, <1>6, RowsAre, MoneyStep

LEMMA MoveOnKeeps == ASSUME ReportsInv, MoveOn PROVE ReportsInv'
<1>1. PICK k \in Campaigned, move \in
        {<<"live", "reviewing_applicant">>, <<"reviewing_applicant", "active">>,
         <<"active", "completed">>, <<"live", "cancelled">>, <<"active", "cancelled">>} :
        /\ booked[k].status = move[1]
        /\ Move(k, [booked[k] EXCEPT !.status = move[2]], dues[k],
                CASE move[2] = "completed" -> Budget[k] [] move[2] = "cancelled" -> Charge[k]
                  [] OTHER -> 1)
    BY DEF MoveOn
<1>2. PICK by : by = CASE move[2] = "completed" -> Budget[k] [] move[2] = "cancelled" -> Charge[k]
                       [] OTHER -> 1
    OBVIOUS
<1>3. PICK row : row = [booked[k] EXCEPT !.status = move[2]]
    OBVIOUS
<1>4. /\ booked[k].status \in {"live", "reviewing_applicant", "active"}
      /\ move[2] \in {"reviewing_applicant", "active", "completed", "cancelled"}
    BY <1>1
<1>5. /\ row \in BookedRec /\ row.status = move[2] /\ row.paid = booked[k].paid
      /\ row.payment = booked[k].payment /\ row.escrow = booked[k].escrow
    BY <1>3, <1>4, RowsAre DEF BookedRec
<1>6. BookedOK(row)
    BY <1>4, <1>5, RowsAre DEF BookedOK
<1>7. /\ by \in Nat /\ by >= 1
      /\ row.status = "completed" => Share[k] <= by
      /\ row.status = "cancelled" => Charge[k] <= by
    BY <1>2, <1>4, <1>5, RowsAre
<1>8. ASSUME NEW of, NEW key, NEW way
      PROVE  \/ Weight(of)[k] <= by
             \/ IsCounted(row, dues[k], CreatorOf[k], of, key, way)
                  <=> IsCounted(booked[k], dues[k], CreatorOf[k], of, key, way)
  <2>1. CASE of[1] \in {"campaigns", "done"}
    <3>1. Weight(of)[k] = 1
        BY <2>1 DEF Weight, One
    <3>. QED BY <1>7, <3>1
  <2>2. CASE of[1] = "in escrow"
    <3>1. Weight(of) = Charge
        BY <2>2 DEF Weight
    <3>2. CASE row.status = "cancelled"
        BY <1>7, <3>1, <3>2
    <3>3. CASE row.status # "cancelled"
        BY <1>4, <1>5, <2>2, <3>3, NamesAre DEF IsCounted
    <3>. QED BY <3>2, <3>3
  <2>3. CASE of[1] = "earned"
    <3>1. Weight(of) = Share
        BY <2>3 DEF Weight
    <3>2. CASE row.status = "completed"
        BY <1>7, <3>1, <3>2
    <3>3. CASE row.status # "completed"
      <4>1. Earns(way, row, dues[k]) <=> Earns(way, booked[k], dues[k])
          BY <1>4, <3>3 DEF Earns
      <4>. QED BY <2>3, <4>1, NamesAre DEF IsCounted
    <3>. QED BY <3>2, <3>3
  <2>4. CASE of[1] \notin {"campaigns", "done", "in escrow", "earned"}
      BY <1>5, <2>4, NamesAre DEF IsCounted
  <2>. QED BY <2>1, <2>2, <2>3, <2>4
<1>9. MovesBy(k, row, dues[k], by)
    BY <1>8 DEF MovesBy
<1>. QED BY <1>1, <1>2, <1>3, <1>6, <1>7, <1>9, RowsAre, MoneyStep

\* What is owed changes: only the shares count for it.
LEMMA DueStep ==
    ASSUME ReportsInv, NEW k \in Campaigned, NEW due \in DueRec, NEW by \in Nat,
           Move(k, booked[k], due, by), Share[k] <= by,
           by >= 1 \/ (due.status = "released" <=> dues[k].status = "released")
    PROVE  ReportsInv'
<1>1. ASSUME NEW of, NEW key, NEW way
      PROVE  \/ Weight(of)[k] <= by
             \/ IsCounted(booked[k], due, CreatorOf[k], of, key, way)
                  <=> IsCounted(booked[k], dues[k], CreatorOf[k], of, key, way)
  <2>1. CASE of[1] \in {"paid out", "earned", "on hold"}
      BY <2>1 DEF Weight
  <2>2. CASE of[1] = "done"
    <3>1. Weight(of)[k] = 1
        BY <2>2 DEF Weight, One
    <3>2. CASE due.status = "released" <=> dues[k].status = "released"
      <4>1. Earns(way, booked[k], due) <=> Earns(way, booked[k], dues[k])
          BY <3>2 DEF Earns
      <4>. QED BY <2>2, <4>1, NamesAre DEF IsCounted
    <3>. QED BY <3>1, <3>2
  <2>3. CASE of[1] \notin {"paid out", "earned", "on hold", "done"}
      BY <2>3, NamesAre DEF IsCounted
  <2>. QED BY <2>1, <2>2, <2>3
<1>2. MovesBy(k, booked[k], due, by)
    BY <1>1 DEF MovesBy
<1>. QED BY <1>2, RowsAre, MoneyStep

LEMMA OweKeeps == ASSUME ReportsInv, Owe PROVE ReportsInv'
<1>1. PICK k \in Campaigned :
        dues[k] = NoDue /\ Move(k, booked[k], [status |-> "pending", past |-> FALSE], Share[k])
    BY DEF Owe
<1>2. PICK due \in DueRec : due = [status |-> "pending", past |-> FALSE]
    BY DEF DueRec, DueStatuses
<1>3. due.status # "released" /\ dues[k].status # "released"
    BY <1>1, <1>2 DEF NoDue
<1>. QED BY <1>1, <1>2, <1>3, RowsAre, DueStep

LEMMA SettleKeeps == ASSUME ReportsInv, Settle PROVE ReportsInv'
<1>1. PICK k \in Campaigned, move \in
        {<<"pending", "processing">>, <<"pending", "escrow_pending">>, <<"pending", "disputed">>,
         <<"escrow_pending", "processing">>, <<"failed", "processing">>, <<"disputed", "pending">>,
         <<"processing", "released">>, <<"processing", "failed">>} :
        Move(k, booked[k], [dues[k] EXCEPT !.status = move[2]], Max({Share[k], 1}))
    BY DEF Settle
<1>2. PICK due : due = [dues[k] EXCEPT !.status = move[2]]
    OBVIOUS
<1>3. due \in DueRec
  <2>1. move[2] \in DueStatuses
      BY DEF DueStatuses
  <2>. QED BY <1>2, <2>1, RowsAre DEF DueRec
<1>4. PICK by \in Nat : by = Max({Share[k], 1}) /\ Share[k] <= by /\ by >= 1
  <2>1. Share[k] \in Nat /\ Max({Share[k], 1}) = IF Share[k] >= 1 THEN Share[k] ELSE 1
      BY RowsAre, MostOf
  <2>. QED BY <2>1
<1>5. Move(k, booked[k], due, by)
    BY <1>1, <1>2, <1>4
<1>. QED BY <1>3, <1>4, <1>5, DueStep

LEMMA MatureKeeps == ASSUME ReportsInv, Mature PROVE ReportsInv'
<1>1. PICK k \in Campaigned : Move(k, booked[k], [dues[k] EXCEPT !.past = TRUE], Share[k])
    BY DEF Mature
<1>2. PICK due : due = [dues[k] EXCEPT !.past = TRUE]
    OBVIOUS
<1>3. due \in DueRec /\ due.status = dues[k].status
    BY <1>2, RowsAre DEF DueRec
<1>4. PICK by \in Nat : by = Share[k] /\ Share[k] <= by
    BY RowsAre
<1>5. Move(k, booked[k], due, by)
    BY <1>1, <1>2, <1>4
<1>. QED BY <1>3, <1>4, <1>5, DueStep

\* A figure read now is exact, and one read before is near.
LEMMA ReadUsersKeeps ==
    ASSUME ReportsInv, desk = "users", NEW f \in FiguresOfUsers, Len(shown) < 2,
           shown # <<>> => f.of = shown[1].of /\ f.key = shown[1].key
    PROVE  /\ shown = <<>> => UserNear(entry, f, drift)
           /\ Len(shown) = 1 => shown[1].n - f.n \in -drift..drift
<1>1. UserFigure(entry, f) /\ UsersOK /\ drift \in Nat
    BY UsersFigures DEF ReportsInv
<1>2. \A v \in Int : f.n = v => Near(f, v, drift)
    BY <1>1 DEF Near
<1>3. \A u \in DOMAIN entry : TierOf(entry[u]) \in Int
    BY <1>1, TierOfIs DEF UsersOK
<1>4. Cardinality(Counted(entry, f.of, f.key)) \in Int
  <2>1. Counted(entry, f.of, f.key) \in SUBSET DOMAIN entry
      BY DEF Counted
  <2>. QED BY <1>1, <2>1, UsersAre
<1>5. UserNear(entry, f, drift)
    BY <1>1, <1>2, <1>3, <1>4 DEF UserFigure, UserNear
<1>6. ASSUME Len(shown) = 1 PROVE shown[1].n - f.n \in -drift..drift
  <2>1. PICK g : shown = <<g>> /\ UserNear(entry, g, drift)
    <3>1. shown # <<>>
        BY <1>6
    <3>. QED BY <1>6, <3>1 DEF ReportsInv
  <2>2. shown[1] = g /\ f.of = g.of /\ f.key = g.key
    <3>1. shown[1] = g /\ shown # <<>>
        BY <2>1
    <3>. QED BY <3>1
  <2>3. CASE OfTier(f.of)
    <3>1. PICK u \in DOMAIN entry : f.key = <<u>> /\ f.n = TierOf(entry[u])
        BY <1>1, <2>3 DEF UserFigure
    <3>2. PICK v \in DOMAIN entry : g.key = <<v>> /\ Near(g, TierOf(entry[v]), drift)
        BY SMTT(30), <2>1, <2>2, <2>3 DEF UserNear
    <3>3. u = v
      <4>1. <<u>>[1] = u /\ <<v>>[1] = v /\ <<u>> = <<v>>
          BY <2>2, <3>1, <3>2
      <4>. QED BY <4>1
    <3>. QED BY <2>2, <3>1, <3>2, <3>3 DEF Near
  <2>4. CASE ~OfTier(f.of)
    <3>1. f.n = Cardinality(Counted(entry, f.of, f.key))
        BY <1>1, <2>4 DEF UserFigure
    <3>2. Near(g, Cardinality(Counted(entry, f.of, f.key)), drift)
        BY <2>1, <2>2, <2>4 DEF UserNear
    <3>. QED BY <2>2, <3>1, <3>2 DEF Near
  <2>. QED BY <2>3, <2>4
<1>. QED BY <1>5, <1>6

\* Two figures of the same are the same sum, unless they are apart.
LEMMA SameSum ==
    ASSUME NEW f, NEW g, f.of = g.of, f.key = g.key, ~Apart(g, f)
    PROVE  Value(booked, dues, f.of, f.key, f.way) = Value(booked, dues, g.of, g.key, g.way)
<1>1. PICK of, key, a, b : of = f.of /\ key = f.key /\ a = f.way /\ b = g.way
    OBVIOUS
<1>2. CASE a = b
    BY <1>1, <1>2
<1>3. CASE a # b
  <2>1. ASSUME NEW k \in Campaigned
        PROVE  IsCounted(booked[k], dues[k], CreatorOf[k], of, key, a)
                 <=> IsCounted(booked[k], dues[k], CreatorOf[k], of, key, b)
    <3>1. /\ of = <<"in escrow">> => booked[k].status # "cancelled"
          /\ of \in {<<"earned">>, <<"done">>} /\ key = <<CreatorOf[k]>> =>
               (Earns(a, booked[k], dues[k]) <=> Earns(b, booked[k], dues[k]))
          /\ of = <<"campaigns", "active">> => (IsActive(a, booked[k]) <=> IsActive(b, booked[k]))
      <4>. USE <1>1, <1>3
      <4>. QED BY DEF Apart
    <3>. QED BY <3>1 DEF IsCounted
  <2>2. Counting(booked, dues, of, key, a) = Counting(booked, dues, of, key, b)
      BY <2>1 DEF Counting
  <2>. QED BY <1>1, <2>2 DEF Value
<1>. QED BY <1>2, <1>3

LEMMA ReadMoneyKeeps ==
    ASSUME ReportsInv, desk = "money", NEW f \in FiguresOfMoney, Len(shown) < 2,
           shown # <<>> => f.of = shown[1].of /\ f.key = shown[1].key
    PROVE  /\ shown = <<>> => MoneyNear(booked, dues, f, drift)
           /\ Len(shown) = 1 => \/ shown[1].n - f.n \in -drift..drift
                                \/ Apart(shown[1], f)
<1>1. MoneyFigure(booked, dues, f) /\ RowsOK /\ drift \in Nat
    BY MoneysFigures DEF ReportsInv
<1>2. PICK v \in Int : v = Value(booked, dues, f.of, f.key, f.way)
  <2>1. Counting(booked, dues, f.of, f.key, f.way) \in SUBSET Campaigned
      BY DEF Counting
  <2>. QED BY <2>1, WeightIs DEF Value
<1>3. f.n = v
    BY <1>1, <1>2 DEF MoneyFigure
<1>4. MoneyNear(booked, dues, f, drift)
    BY <1>1, <1>2, <1>3 DEF MoneyNear, Near
<1>5. ASSUME Len(shown) = 1, ~Apart(shown[1], f)
      PROVE  shown[1].n - f.n \in -drift..drift
  <2>1. PICK g : shown = <<g>> /\ MoneyNear(booked, dues, g, drift)
    <3>1. shown # <<>>
        BY <1>5
    <3>. QED BY <1>5, <3>1 DEF ReportsInv
  <2>2. shown[1] = g /\ f.of = g.of /\ f.key = g.key
    <3>1. shown[1] = g /\ shown # <<>>
        BY <2>1
    <3>. QED BY <3>1
  <2>3. Value(booked, dues, g.of, g.key, g.way) = v
      BY <1>2, <1>5, <2>2, SameSum
  <2>4. Near(g, v, drift)
      BY <2>1, <2>3 DEF MoneyNear
  <2>. QED BY <1>3, <2>2, <2>4 DEF Near
<1>. QED BY <1>4, <1>5

LEMMA OneMore ==
    ASSUME NEW g, NEW f, NEW t, t = Append(<<g>>, f)
    PROVE  Len(t) = 2 /\ t[1] = g /\ t[2] = f
<1>1. PICK S : S = {g, f}
    OBVIOUS
<1>2. PICK s : s = <<g>>
    OBVIOUS
<1>3. s \in Seq(S) /\ Len(s) = 1 /\ s[1] = g /\ f \in S
    BY <1>1, <1>2
<1>4. Len(t) = Len(s) + 1 /\ (\A i \in 1..Len(s) : t[i] = s[i]) /\ t[Len(s) + 1] = f
    BY <1>2, <1>3, AppendProperties
<1>5. 1 \in 1..1 /\ 1 + 1 = 2
    OBVIOUS
<1>. QED BY <1>3, <1>4, <1>5

LEMMA FigureReadKeeps == ASSUME ReportsInv, Read PROVE ReportsInv'
<1>1. PICK f \in IF desk = "users" THEN FiguresOfUsers ELSE FiguresOfMoney :
        /\ shown # <<>> => f.of = shown[1].of /\ f.key = shown[1].key
        /\ shown' = Append(shown, f)
    BY DEF Read
<1>2. /\ Len(shown) < 2 /\ desk' = desk /\ entry' = entry /\ booked' = booked /\ dues' = dues
      /\ drift' = drift
    BY DEF Read
<1>3. /\ desk \in {"users", "money"} /\ drift \in Nat /\ UsersOK /\ RowsOK
      /\ shown = <<>> \/ \E g : shown = <<g>>
  <2>1. shown = <<>> \/ (\E g : shown = <<g>>) \/ Len(shown) = 2
      BY DEF ReportsInv
  <2>. QED BY <1>2, <2>1 DEF ReportsInv
<1>4. UsersOK' /\ RowsOK'
    BY <1>2, <1>3 DEF UsersOK, RowsOK, BookedOK
<1>5. CASE shown = <<>>
  <2>1. shown' = <<f>>
      BY <1>1, <1>5
  <2>2. desk = "users" => UserNear(entry, f, drift)
      BY <1>1, <1>2, <1>5, ReadUsersKeeps
  <2>3. desk = "money" => MoneyNear(booked, dues, f, drift)
      BY <1>1, <1>2, <1>5, ReadMoneyKeeps
  <2>. QED BY <1>2, <1>3, <1>4, <2>1, <2>2, <2>3 DEF ReportsInv
<1>6. CASE \E g : shown = <<g>>
  <2>1. PICK g : shown = <<g>>
      BY <1>6
  <2>2. Len(shown) = 1 /\ shown[1] = g
      BY <2>1
  <2>3. shown' = Append(<<g>>, f)
      BY <1>1, <2>1
  <2>4. Len(shown') = 2 /\ shown'[1] = g /\ shown'[2] = f
      BY <2>3, OneMore
  <2>5. \/ g.n - f.n \in -drift..drift
        \/ Apart(g, f)
    <3>1. CASE desk = "users"
      <4>1. f \in FiguresOfUsers
          BY <1>1, <3>1
      <4>. QED BY <1>1, <1>2, <2>2, <3>1, <4>1, ReadUsersKeeps
    <3>2. CASE desk = "money"
      <4>1. f \in FiguresOfMoney
          BY <1>1, <3>2
      <4>. QED BY <1>1, <1>2, <2>2, <3>2, <4>1, ReadMoneyKeeps
    <3>. QED BY <1>3, <3>1, <3>2
  <2>6. FiguresAgree'
      BY <1>2, <2>4, <2>5 DEF FiguresAgree, Apart
  <2>. QED BY <1>2, <1>3, <1>4, <2>4, <2>6 DEF ReportsInv
<1>. QED BY <1>3, <1>5, <1>6

LEMMA ReportsStart == ASSUME InitReports PROVE ReportsInv
<1>1. desk \in {"users", "money"} /\ drift = 0 /\ shown = <<>>
    BY DEF InitReports
<1>2. UsersOK
  <2>1. CASE desk = "users"
    <3>1. PICK us \in SUBSET Registered : entry \in [us -> Entries]
        BY <2>1 DEF InitReports
    <3>2. \A e \in Entries : UserOK(e) /\ e \in UserRec
        BY ReportsConstants DEF UserOK, UserRec
    <3>. QED BY <3>1, <3>2 DEF UsersOK
  <2>2. CASE desk = "money"
    <3>1. entry = [u \in {} |-> 0]
        BY <2>2 DEF InitReports
    <3>. QED BY <3>1 DEF UsersOK
  <2>. QED BY <1>1, <2>1, <2>2
<1>3. \A b \in Beginnings : BookedOK(b) /\ b \in BookedRec
    BY DEF Beginnings, BookedOK, BookedRec
<1>4. NoDue \in DueRec /\ [status : DueStatuses, past : BOOLEAN] \subseteq DueRec
    BY DEF NoDue, DueRec, DueStatuses
<1>5. RowsOK
  <2>1. CASE desk = "money"
    <3>1. /\ booked \in [Campaigned -> Beginnings]
          /\ dues \in [Campaigned -> {NoDue} \cup [status : DueStatuses, past : BOOLEAN]]
        BY <2>1 DEF InitReports
    <3>. QED BY <1>3, <1>4, <3>1 DEF RowsOK
  <2>2. CASE desk = "users"
    <3>1. PICK b : b = CHOOSE x \in Beginnings : x.status = "draft"
        OBVIOUS
    <3>2. \E x \in Beginnings : x.status = "draft"
      <4>1. PICK x : x = [status |-> "draft", paid |-> "unpaid", payment |-> "none", escrow |-> "null"]
          OBVIOUS
      <4>2. x.status = "draft" /\ x \in Beginnings
          BY <4>1 DEF Beginnings
      <4>. QED BY <4>2
    <3>3. b \in Beginnings
        BY <3>1, <3>2
    <3>4. booked = [k \in Campaigned |-> b] /\ dues = [k \in Campaigned |-> NoDue]
        BY <2>2, <3>1 DEF InitReports
    <3>. QED BY <1>3, <1>4, <3>3, <3>4 DEF RowsOK
  <2>. QED BY <1>1, <2>1, <2>2
<1>. QED BY <1>1, <1>2, <1>5 DEF ReportsInv

LEMMA ReportsSafe == ASSUME ReportsInv PROVE FiguresAgree
<1>1. shown = <<>> \/ (\E f : shown = <<f>>) \/ FiguresAgree
    BY DEF ReportsInv
<1>2. ASSUME Len(shown) = 2 PROVE FiguresAgree
  <2>1. ASSUME NEW f, shown = <<f>> PROVE FALSE
    <3>1. Len(<<f>>) = 1
        OBVIOUS
    <3>. QED BY <1>2, <2>1, <3>1
  <2>2. shown # <<>>
      BY <1>2
  <2>. QED BY <1>1, <2>1, <2>2
<1>3. ASSUME Len(shown) # 2 PROVE FiguresAgree
    BY <1>3 DEF FiguresAgree
<1>. QED BY <1>2, <1>3

\* The figures that one request tells and those that another does agree: whatever the rows
\* are, each is the count or the sum that its name says, in the way in which it is told, and
\* no change between the two readings moves one by more than itself.  Two ways to tell what is
\* in escrow, what a creator earned or how many campaigns are active differ only while a
\* campaign counts in one and not in the other, and the theorem names every such campaign:
\* no other figure of two requests can differ.
\* Code: admin-overview, admin-creators, admin-brands, admin-escrow and admin-campaigns
\* services, transactions.repository.ts.
THEOREM ReportsAgree == SpecReports => []FiguresAgree
<1>1. InitReports => ReportsInv
    BY ReportsStart
<1>2. ReportsInv /\ [NextReports]_reportVars => ReportsInv'
  <2>. SUFFICES ASSUME ReportsInv, [NextReports]_reportVars
                PROVE  ReportsInv'
      OBVIOUS
  <2>1. CASE SignUp \/ LogIn \/ Onboard \/ GainFollowers
      BY <2>1, SignUpKeeps, LogInKeeps, OnboardKeeps, GainFollowersKeeps
  <2>2. CASE PayFor \/ OpenUp \/ MoveOn
      BY <2>2, PayForKeeps, OpenUpKeeps, MoveOnKeeps
  <2>3. CASE Owe \/ Settle \/ Mature
      BY <2>3, OweKeeps, SettleKeeps, MatureKeeps
  <2>4. CASE Read
      BY <2>4, FigureReadKeeps
  <2>5. CASE UNCHANGED reportVars
    <3>1. /\ desk' = desk /\ entry' = entry /\ booked' = booked /\ dues' = dues
          /\ shown' = shown /\ drift' = drift
        BY <2>5 DEF reportVars
    <3>2. UsersOK' /\ RowsOK' /\ (FiguresAgree => FiguresAgree')
        BY <3>1 DEF ReportsInv, UsersOK, RowsOK, BookedOK, FiguresAgree, Apart
    <3>. QED BY <3>1, <3>2 DEF ReportsInv
  <2>. QED BY <2>1, <2>2, <2>3, <2>4, <2>5 DEF NextReports
<1>3. ReportsInv => FiguresAgree
    BY ReportsSafe
<1>. QED BY <1>1, <1>2, <1>3, PTL DEF SpecReports
=============================================================================
