--------------------------- MODULE CampaignProofs ---------------------------
(***************************************************************************)
(* Proofs about a campaign, for any applications, fees, pool, brands,      *)
(* requests and instances: Selection, until the applicants are settled,    *)
(* Deals, from the first draft to the live post, and Settlement, which     *)
(* says what of the budget is owed to whom.                                *)
(*                                                                         *)
(* In the first, the shape of the decisions and the budget of those chosen *)
(* are inductive together with what a request has read of applications     *)
(* that are never taken away.  In the second, Core is: the types, what a   *)
(* request at work knows of its submission, what a rejection has done by   *)
(* the time it is saved, and what becomes of a deal that one request at a  *)
(* time is at work on.  The block of a creator is inductive by itself.  In *)
(* the third each creator has a cap for what rows and requests may give.   *)
(***************************************************************************)
EXTENDS Selection, Deals, Settlement, Sums, FiniteSetTheorems, SequenceTheorems, TLAPS

-----------------------------------------------------------------------------
(* Selection: what requests have read, and types.                          *)

Reviews == [pc : {"idle", "write", "item", "promote", "rest", "accept", "decline", "resume"},
            to : Choices, ids : SUBSET Apps, camp : CampStatus,
            copy : [Apps -> AppStatus], todo : SUBSET Apps]

\* Applications are never taken away, so what a request has read of them is still there.
KnownOf(q) ==
    \A a \in Apps : a \in req[q].ids \cup req[q].todo \/ req[q].copy[a] # "none" => status[a] # "none"
Known == \A q \in Requests : KnownOf(q)

\* As long as no two requests raced, one at most decides.
OneDecides ==
    worst < Raced => \A q, r \in Requests : Decides(q) /\ Decides(r) => q = r

LEMMA NobodyReviews == NoReview \in Reviews /\ NoReview.pc = "idle"
BY DEF NoReview, Reviews, Choices, CampStatus, AppStatus

\* Types, without the two bounds on applications.
Shapes ==
    /\ camp \in CampStatus /\ status \in [Apps -> AppStatus]
    /\ timed \subseteq Apps /\ applying \subseteq Apps
    /\ req \in [Requests -> Reviews] /\ timer \subseteq Timers /\ worst \in 0 .. Raced

LEMMA WriteEffect ==
    ASSUME Shapes, NEW q \in Requests, NEW a \in Apps, NEW new \in Choices, Write(q, a, new)
    PROVE  /\ status' \in [Apps -> AppStatus]
           /\ \A b \in Apps : b # a => status'[b] = status[b]
           /\ status'[a] = IF new = req[q].copy[a] THEN status[a] ELSE new
           /\ status'[a] \in {status[a], new}
BY DEF Shapes, Write, AppStatus

LEMMA WorsenType ==
    ASSUME Shapes, NEW level \in 0 .. Raced, NEW happened, Worsen(level, happened)
    PROVE  worst' \in 0 .. Raced /\ worst <= worst' /\ (happened => level <= worst')
BY DEF Shapes, Worsen, Raced

\* Each of the steps that a request goes on with.
LEMMA GoOnWithType ==
    ASSUME Shapes, NEW q \in Requests, NEW left \in SUBSET Apps, GoOnWith(q, left)
    PROVE  /\ req' \in [Requests -> Reviews]
           /\ \A r \in Requests : r # q => req'[r] = req[r]
           /\ \/ /\ left # {} /\ req'[q] = [req[q] EXCEPT !.pc = "item", !.todo = left,
                                  !.camp = IF req[q].to = "accepted" THEN "active" ELSE @]
              \/ left = {} /\ req'[q] = NoReview /\ (req[q].to # "accepted" \/ Others(q) = {})
              \/ /\ left = {} /\ req[q].to = "accepted"
                 /\ req'[q] = [req[q] EXCEPT !.pc = "rest", !.todo = Others(q)]
<1>1. req[q] \in Reviews /\ req \in [Requests -> Reviews]
    BY DEF Shapes
<1>2. CASE left # {}
  <2> DEFINE new == [req[q] EXCEPT !.pc = "item", !.todo = left,
                                  !.camp = IF req[q].to = "accepted" THEN "active" ELSE @]
  <2>1. req' = [req EXCEPT ![q] = new]
      BY <1>2 DEF GoOnWith, TakeNextItem
  <2>2. new \in Reviews
      BY <1>1 DEF Reviews, CampStatus
  <2>. HIDE DEF new
  <2>3. req'[q] = new /\ req' \in [Requests -> Reviews] /\ \A r \in Requests : r # q => req'[r] = req[r]
      BY <1>1, <2>1, <2>2
  <2>. QED BY <1>2, <2>3 DEF new
<1>3. CASE left = {} /\ (req[q].to # "accepted" \/ Others(q) = {})
    BY <1>1, <1>3, NobodyReviews DEF GoOnWith, FinishReview
<1>4. CASE left = {} /\ ~(req[q].to # "accepted" \/ Others(q) = {})
  <2> DEFINE new == [req[q] EXCEPT !.pc = "rest", !.todo = Others(q)]
  <2>1. req' = [req EXCEPT ![q] = new]
      BY <1>4 DEF GoOnWith
  <2>2. new \in Reviews
      BY <1>1 DEF Reviews, Others
  <2>. HIDE DEF new
  <2>3. req'[q] = new /\ req' \in [Requests -> Reviews] /\ \A r \in Requests : r # q => req'[r] = req[r]
      BY <1>1, <2>1, <2>2
  <2>. QED BY <1>4, <2>3 DEF new
<1>. QED BY <1>2, <1>3, <1>4

LEMMA ShapesStart == InitSelection => Shapes
BY NobodyReviews DEF InitSelection, Shapes, CampStatus, AppStatus, Raced

LEMMA ShapesStep == Shapes /\ [NextSelection]_selectionVars => Shapes'
<1>. SUFFICES ASSUME Shapes, [NextSelection]_selectionVars PROVE Shapes'
    OBVIOUS
<1>1. /\ camp \in CampStatus /\ status \in [Apps -> AppStatus]
      /\ req \in [Requests -> Reviews] /\ worst \in 0 .. Raced
      /\ Late \in 0 .. Raced /\ Loose \in 0 .. Raced /\ Raced \in 0 .. Raced
    BY DEF Shapes, Late, Loose, Raced
<1>2. \A q \in Requests : req[q] \in Reviews
    BY <1>1
<1>3. \A q \in Requests : req[q].ids \subseteq Apps /\ req[q].todo \subseteq Apps /\ req[q].to \in Choices
                        /\ req[q].camp \in CampStatus /\ req[q].copy \in [Apps -> AppStatus]
    BY <1>2 DEF Reviews
<1>4. ASSUME NEW q \in Requests, NEW r \in Reviews, BeginReviewing(q, r)
      PROVE  Shapes'
  <2>1. worst' \in 0 .. Raced
      BY <1>1, <1>4, WorsenType DEF BeginReviewing
  <2>. QED BY <1>4, <2>1 DEF BeginReviewing, Shapes
<1>5. ASSUME NEW q \in Requests, Requested(q)
      PROVE  Shapes'
  <2>1. ASSUME NEW a \in Apps, NEW choice \in Choices, BeginReview(q, a, choice)
        PROVE  Shapes'
    <3>1. Wanted(a, choice) \in Choices
        BY DEF Wanted, Choices
    <3>2. [NoReview EXCEPT !.pc = "write", !.to = Wanted(a, choice), !.ids = {a}, !.camp = camp,
                           !.copy[a] = status[a]] \in Reviews
        BY <1>1, <3>1, NobodyReviews DEF NoReview, Reviews
    <3>. QED BY <1>4, <2>1, <3>2 DEF BeginReview
  <2>2. ASSUME NEW S \in SUBSET Apps, NEW to \in Choices, BeginBatch(q, S, to)
        PROVE  Shapes'
    <3>1. [NoReview EXCEPT !.pc = "item", !.to = to, !.ids = S, !.camp = camp, !.todo = S] \in Reviews
        BY <1>1, NobodyReviews DEF Reviews, NoReview
    <3>. QED BY <1>4, <2>2, <3>1 DEF BeginBatch
  <2>3. CASE BeginActivate(q)
    <3>1. [NoReview EXCEPT !.pc = "accept", !.copy = status, !.todo = Committed] \in Reviews
        BY <1>1, NobodyReviews DEF Reviews, NoReview, Committed
    <3>. QED BY <1>4, <2>3, <3>1 DEF BeginActivate
  <2>. QED BY <1>5, <2>1, <2>2, <2>3 DEF Requested
<1>6. ASSUME NEW q \in Requests, BeginResume(q)
      PROVE  Shapes'
  <2>1. [NoReview EXCEPT !.pc = "resume",
             !.camp = IF \E a \in Apps : status[a] = "accepted" THEN "active" ELSE "live"] \in Reviews
      BY NobodyReviews DEF Reviews, NoReview, CampStatus
  <2>. QED BY <1>4, <1>6, <2>1 DEF BeginResume
<1>7. ASSUME NEW q \in Requests, Promote(q) \/ Activate(q) \/ SaveResume(q) \/ CrashReview(q)
      PROVE  Shapes'
  <2>1. CASE Promote(q)
    <3>1. req' \in [Requests -> Reviews]
        BY <1>3, <2>1, GoOnWithType DEF Promote
    <3>. QED BY <1>1, <2>1, <3>1 DEF Promote, Shapes, CampStatus
  <2>2. CASE Activate(q)
      BY <1>1, <2>2, NobodyReviews DEF Activate, FinishReview, Shapes, CampStatus
  <2>3. CASE SaveResume(q)
    <3>1. worst' \in 0 .. Raced
        BY <1>1, <2>3, WorsenType DEF SaveResume
    <3>. QED BY <1>1, <1>3, <2>3, <3>1, NobodyReviews DEF SaveResume, FinishReview, Shapes
  <2>4. CASE CrashReview(q)
    <3>1. worst' \in 0 .. Raced
        BY <1>1, <2>4, WorsenType DEF CrashReview
    <3>. QED BY <1>1, <2>4, <3>1, NobodyReviews DEF CrashReview, FinishReview, Shapes
  <2>. QED BY <1>7, <2>1, <2>2, <2>3, <2>4
<1>8. ASSUME NEW q \in Requests, NEW a \in Apps, WriteReview(q, a)
      PROVE  Shapes'
  <2>1. worst' \in 0 .. Raced
      BY <1>1, <1>8, WorsenType DEF WriteReview
  <2>2. status' \in [Apps -> AppStatus]
      BY <1>3, <1>8, WriteEffect DEF WriteReview
  <2>. QED BY <1>1, <1>8, <2>1, <2>2, NobodyReviews DEF WriteReview, FinishReview, Shapes
<1>9. ASSUME NEW q \in Requests, NEW a \in Apps, ReviewItem(q, a)
      PROVE  Shapes'
  <2> DEFINE left == req[q].todo \ {a}
  <2>1. left \in SUBSET Apps
      BY <1>3
  <2>2. CASE status[a] = "accepted" /\ req[q].to = "rejected"
      BY <1>1, <1>9, <2>2, NobodyReviews DEF ReviewItem, FinishReview, Shapes
  <2>3. CASE ~(status[a] = "accepted" /\ req[q].to = "rejected")
    <3>1. worst' \in 0 .. Raced
        BY <1>1, <1>9, <2>3, WorsenType DEF ReviewItem
    <3>2. status' \in [Apps -> AppStatus]
        BY <1>1, <1>3, <1>9, <2>3 DEF ReviewItem, AppStatus
    <3>3. req' \in [Requests -> Reviews]
      <4>1. CASE req[q].to = "accepted"
        <5>1. [req[q] EXCEPT !.pc = "promote", !.todo = left] \in Reviews
            BY <1>2, <2>1 DEF Reviews
        <5>2. req' = [req EXCEPT ![q] = [req[q] EXCEPT !.pc = "promote", !.todo = left]]
            BY <1>9, <2>3, <4>1 DEF ReviewItem
        <5>. QED BY <1>1, <5>1, <5>2
      <4>2. CASE req[q].to # "accepted"
          BY <1>9, <2>1, <2>3, <4>2, GoOnWithType DEF ReviewItem
      <4>. QED BY <4>1, <4>2
    <3>. QED BY <1>9, <2>3, <3>1, <3>2, <3>3 DEF ReviewItem, Shapes
  <2>. QED BY <2>2, <2>3
<1>10. ASSUME NEW q \in Requests, NEW a \in Apps, RejectRest(q, a)
       PROVE  Shapes'
  <2>1. [req[q] EXCEPT !.todo = req[q].todo \ {a}] \in Reviews
      BY <1>2, <1>3 DEF Reviews
  <2>2. req' \in [Requests -> Reviews]
      BY <1>1, <1>10, <2>1, NobodyReviews DEF RejectRest, FinishReview
  <2>. QED BY <1>1, <1>10, <2>2 DEF RejectRest, Shapes, AppStatus, Choices
<1>11. ASSUME NEW q \in Requests, NEW a \in Apps, AcceptSelected(q, a)
       PROVE  Shapes'
  <2>1. [req[q] EXCEPT !.todo = req[q].todo \ {a},
                       !.pc = IF req[q].todo = {a} THEN "decline" ELSE "accept"] \in Reviews
      BY <1>2, <1>3 DEF Reviews
  <2>2. req' = [req EXCEPT ![q] = [req[q] EXCEPT !.todo = req[q].todo \ {a},
                       !.pc = IF req[q].todo = {a} THEN "decline" ELSE "accept"]]
      BY <1>11 DEF AcceptSelected
  <2>3. req' \in [Requests -> Reviews]
      BY <1>1, <2>1, <2>2
  <2>4. status' \in [Apps -> AppStatus]
      BY <1>11, WriteEffect DEF AcceptSelected, Choices
  <2>. QED BY <1>11, <2>3, <2>4 DEF AcceptSelected, Shapes
<1>12. ASSUME NEW q \in Requests, NEW a \in Apps, DeclineRest(q, a)
       PROVE  Shapes'
  <2>1. [req[q] EXCEPT !.copy[a] = "rejected"] \in Reviews
      BY <1>2, <1>3 DEF Reviews, AppStatus, Choices
  <2>2. req' \in [Requests -> Reviews]
      BY <1>1, <1>12, <2>1 DEF DeclineRest
  <2>3. status' \in [Apps -> AppStatus]
      BY <1>12, WriteEffect DEF DeclineRest, Choices
  <2>. QED BY <1>12, <2>2, <2>3 DEF DeclineRest, Shapes
<1>13. ASSUME NEW t \in Timers, ListLive(t) \/ CloseWindow(t)
       PROVE  Shapes'
    BY <1>13 DEF ListLive, CloseWindow, Shapes, CampStatus
<1>14. ASSUME NEW a \in Apps, BeginApply(a)
       PROVE  Shapes'
    BY <1>14 DEF BeginApply, Shapes
<1>15. ASSUME NEW a \in Apps, CreateApplication(a)
       PROVE  Shapes'
  <2>1. worst' \in 0 .. Raced
      BY <1>1, <1>15, WorsenType DEF CreateApplication
  <2>. QED BY <1>1, <1>15, <2>1 DEF CreateApplication, Shapes, AppStatus, Choices
<1>16. CASE Pause \/ UNCHANGED selectionVars
    BY <1>16 DEF Pause, selectionVars, Shapes, CampStatus
<1>. QED BY <1>5, <1>6, <1>7, <1>8, <1>9, <1>10, <1>11, <1>12, <1>13, <1>14, <1>15, <1>16
     DEF NextSelection, GoOnReviewing

LEMMA FinishEffect ==
    ASSUME Shapes, NEW q \in Requests, FinishReview(q)
    PROVE  req'[q] = NoReview /\ \A r \in Requests : r # q => req'[r] = req[r]
BY DEF Shapes, FinishReview

\* What every step of a request that has begun leaves alone.
GoesOn(q) ==
    /\ Decides(q) /\ worst <= worst' /\ applying' = applying
    /\ \A r \in Requests : r # q => req'[r] = req[r]
    /\ \A a \in Apps : status[a] # "none" => status'[a] # "none"

LEMMA GoOnEffect ==
    ASSUME Shapes, NEW q \in Requests, GoOnReviewing(q)
    PROVE  GoesOn(q)
<1>1. /\ Late \in 0 .. Raced /\ Loose \in 0 .. Raced /\ worst \in 0 .. Raced
      /\ req \in [Requests -> Reviews] /\ status \in [Apps -> AppStatus]
    BY DEF Shapes, Late, Loose, Raced
<1>2. req[q].to \in Choices /\ req[q].todo \subseteq Apps
    BY <1>1 DEF Reviews
<1>3. CASE Promote(q)
  <2>1. GoOnWith(q, req[q].todo) /\ req[q].todo \in SUBSET Apps
      BY <1>2, <1>3 DEF Promote
  <2>2. \A r \in Requests : r # q => req'[r] = req[r]
      BY <2>1, GoOnWithType
  <2>. QED BY <1>1, <1>3, <2>2 DEF Promote, GoesOn, Decides, Raced
<1>4. CASE Activate(q)
    BY <1>1, <1>4, FinishEffect DEF Activate, GoesOn, Decides, Raced
<1>5. CASE SaveResume(q)
    BY <1>1, <1>5, FinishEffect, WorsenType DEF SaveResume, GoesOn, Decides
<1>6. CASE CrashReview(q)
    BY <1>1, <1>6, FinishEffect, WorsenType DEF CrashReview, GoesOn, Decides
<1>7. ASSUME NEW a \in Apps, WriteReview(q, a)
      PROVE  GoesOn(q)
    BY <1>1, <1>2, <1>7, FinishEffect, WorsenType, WriteEffect DEF WriteReview, GoesOn, Decides, Choices
<1>8. ASSUME NEW a \in Apps, ReviewItem(q, a)
      PROVE  GoesOn(q)
  <2>1. CASE status[a] = "accepted" /\ req[q].to = "rejected"
      BY <1>1, <1>8, <2>1, FinishEffect DEF ReviewItem, GoesOn, Decides, Raced
  <2>2. CASE ~(status[a] = "accepted" /\ req[q].to = "rejected")
    <3>1. worst <= worst'
        BY <1>1, <1>8, <2>2, WorsenType DEF ReviewItem
    <3>2. \A b \in Apps : status[b] # "none" => status'[b] # "none"
        BY <1>1, <1>2, <1>8, <2>2 DEF ReviewItem, Choices
    <3>3. \A r \in Requests : r # q => req'[r] = req[r]
      <4>1. CASE req[q].to = "accepted"
          BY <1>1, <1>8, <2>2, <4>1 DEF ReviewItem
      <4>2. CASE req[q].to # "accepted"
        <5>1. GoOnWith(q, req[q].todo \ {a}) /\ req[q].todo \ {a} \in SUBSET Apps
            BY <1>2, <1>8, <2>2, <4>2 DEF ReviewItem
        <5>. QED BY <5>1, GoOnWithType
      <4>. QED BY <4>1, <4>2
    <3>. QED BY <1>8, <3>1, <3>2, <3>3 DEF ReviewItem, GoesOn, Decides
  <2>. QED BY <2>1, <2>2
<1>9. ASSUME NEW a \in Apps, RejectRest(q, a)
      PROVE  GoesOn(q)
    BY <1>1, <1>9 DEF RejectRest, FinishReview, GoesOn, Decides, Raced
<1>10. ASSUME NEW a \in Apps, AcceptSelected(q, a)
       PROVE  GoesOn(q)
    BY <1>1, <1>10, WriteEffect DEF AcceptSelected, GoesOn, Decides, Choices, Raced
<1>11. ASSUME NEW a \in Apps, DeclineRest(q, a)
       PROVE  GoesOn(q)
    BY <1>1, <1>11, WriteEffect DEF DeclineRest, GoesOn, Decides, Choices, Raced
<1>. QED BY <1>3, <1>4, <1>5, <1>6, <1>7, <1>8, <1>9, <1>10, <1>11 DEF GoOnReviewing

LEMMA BeginsEffect ==
    ASSUME Shapes, NEW q \in Requests, NEW r, BeginReviewing(q, r)
    PROVE  /\ ~Decides(q) /\ worst <= worst' /\ (Busy => Raced <= worst')
           /\ req'[q] = r /\ \A p \in Requests : p # q => req'[p] = req[p]
           /\ UNCHANGED <<camp, status, timed, applying, timer>>
<1>1. Raced \in 0 .. Raced /\ req \in [Requests -> Reviews]
    BY DEF Shapes, Raced
<1>. QED BY <1>1, WorsenType DEF BeginReviewing, Decides

\* A request begins with what it has read, and knows of no application that is not there.
LEMMA BeginsKnown ==
    ASSUME Shapes, NEW q \in Requests, Requested(q) \/ BeginResume(q)
    PROVE  \E r \in Reviews : BeginReviewing(q, r) /\ KnownOf(q)'
<1>1. req \in [Requests -> Reviews] /\ status \in [Apps -> AppStatus] /\ camp \in CampStatus
    BY DEF Shapes
<1>2. ASSUME NEW a \in Apps, NEW choice \in Choices, BeginReview(q, a, choice)
      PROVE  \E r \in Reviews : BeginReviewing(q, r) /\ KnownOf(q)'
  <2>1. PICK r : r = [NoReview EXCEPT !.pc = "write", !.to = Wanted(a, choice), !.ids = {a},
                                      !.camp = camp, !.copy[a] = status[a]]
      OBVIOUS
  <2>2. r \in Reviews /\ r.ids = {a} /\ r.todo = {} /\ \A b \in Apps : b # a => r.copy[b] = "none"
      BY <1>1, <2>1, NobodyReviews DEF NoReview, Reviews, Wanted, Choices
  <2>3. BeginReviewing(q, r) /\ status[a] # "none"
      BY <1>2, <2>1 DEF BeginReview, MayBecome
  <2>. QED BY <2>2, <2>3, BeginsEffect DEF KnownOf
<1>3. ASSUME NEW S \in SUBSET Apps, NEW to \in Choices, BeginBatch(q, S, to)
      PROVE  \E r \in Reviews : BeginReviewing(q, r) /\ KnownOf(q)'
  <2>1. PICK r : r = [NoReview EXCEPT !.pc = "item", !.to = to, !.ids = S, !.camp = camp, !.todo = S]
      OBVIOUS
  <2>2. r \in Reviews /\ r.ids = S /\ r.todo = S /\ \A b \in Apps : r.copy[b] = "none"
      BY <1>1, <2>1, NobodyReviews DEF NoReview, Reviews
  <2>3. BeginReviewing(q, r) /\ \A a \in S : status[a] # "none"
      BY <1>3, <2>1 DEF BeginBatch
  <2>. QED BY <2>2, <2>3, BeginsEffect DEF KnownOf
<1>4. CASE BeginActivate(q)
  <2>1. PICK r : r = [NoReview EXCEPT !.pc = "accept", !.copy = status, !.todo = Committed]
      OBVIOUS
  <2>2. r \in Reviews /\ r.ids = {} /\ r.todo = Committed /\ r.copy = status
      BY <1>1, <2>1, NobodyReviews DEF NoReview, Reviews, Committed
  <2>3. BeginReviewing(q, r)
      BY <1>4, <2>1 DEF BeginActivate
  <2>. QED BY <2>2, <2>3, BeginsEffect DEF KnownOf, Committed, Chosen
<1>5. CASE BeginResume(q)
  <2>1. PICK r : r = [NoReview EXCEPT !.pc = "resume",
                     !.camp = IF \E a \in Apps : status[a] = "accepted" THEN "active" ELSE "live"]
      OBVIOUS
  <2>2. r \in Reviews /\ r.ids = {} /\ r.todo = {} /\ \A b \in Apps : r.copy[b] = "none"
      BY <1>1, <2>1, NobodyReviews DEF NoReview, Reviews, CampStatus
  <2>3. BeginReviewing(q, r)
      BY <1>5, <2>1 DEF BeginResume
  <2>. QED BY <2>2, <2>3, BeginsEffect DEF KnownOf
<1>. QED BY <1>2, <1>3, <1>4, <1>5 DEF Requested

\* It touches only applications it knows of.
Sticks(q) ==
    /\ KnownOf(q)'
    /\ \A b \in Apps : status[b] = "none" => status'[b] = "none" /\ (b \in timed' => b \in timed)

LEMMA GoOnKnown ==
    ASSUME Shapes, NEW q \in Requests, KnownOf(q), GoOnReviewing(q)
    PROVE  Sticks(q)
<1>1. /\ req \in [Requests -> Reviews] /\ status \in [Apps -> AppStatus]
      /\ GoesOn(q) /\ \A b \in Apps : status[b] # "none" => status'[b] # "none"
    BY GoOnEffect DEF Shapes, GoesOn
<1>2. /\ req[q] \in Reviews /\ req[q].to \in Choices
      /\ req[q].todo \in SUBSET Apps /\ req[q].ids \subseteq Apps
    BY <1>1 DEF Reviews
<1>3. NoReview.ids = {} /\ NoReview.todo = {} /\ \A b \in Apps : NoReview.copy[b] = "none"
    BY DEF NoReview
<1>4. ASSUME FinishReview(q)
      PROVE  KnownOf(q)'
    BY <1>3, <1>4, FinishEffect DEF KnownOf
<1>5. ASSUME NEW left \in SUBSET Apps, left \subseteq req[q].todo, GoOnWith(q, left)
      PROVE  KnownOf(q)'
  <2>1. PICK r : r = req'[q]
      OBVIOUS
  <2>2. r = NoReview \/ (r.ids = req[q].ids /\ r.copy = req[q].copy /\ (r.todo = left \/ r.todo = Others(q)))
    <3>1. \/ r = [req[q] EXCEPT !.pc = "item", !.todo = left,
                                  !.camp = IF req[q].to = "accepted" THEN "active" ELSE @]
          \/ r = NoReview
          \/ r = [req[q] EXCEPT !.pc = "rest", !.todo = Others(q)]
        BY <1>5, <2>1, GoOnWithType
    <3>. QED BY <1>2, <3>1 DEF Reviews
  <2>3. \A b \in Apps : b \in r.ids \cup r.todo \/ r.copy[b] # "none" => status[b] # "none"
      BY <1>3, <1>5, <2>2 DEF KnownOf, Others
  <2>. QED BY <1>1, <2>1, <2>3 DEF KnownOf
<1>6. CASE Promote(q)
    BY <1>2, <1>5, <1>6 DEF Promote, Sticks
<1>7. CASE Activate(q) \/ SaveResume(q) \/ CrashReview(q)
    BY <1>4, <1>7 DEF Activate, SaveResume, CrashReview, Sticks
<1>8. ASSUME NEW a \in Apps, WriteReview(q, a)
      PROVE  Sticks(q)
  <2>1. status[a] # "none"
      BY <1>8 DEF WriteReview, KnownOf
  <2>2. \A b \in Apps : b # a => status'[b] = status[b]
      BY <1>2, <1>8, WriteEffect DEF WriteReview
  <2>. QED BY <1>4, <1>8, <2>1, <2>2 DEF WriteReview, Sticks
<1>9. ASSUME NEW a \in Apps, ReviewItem(q, a)
      PROVE  Sticks(q)
  <2>1. status[a] # "none" /\ req[q].todo \ {a} \in SUBSET Apps
      BY <1>2, <1>9 DEF ReviewItem, KnownOf
  <2>2. CASE status[a] = "accepted" /\ req[q].to = "rejected"
      BY <1>4, <1>9, <2>2 DEF ReviewItem, Sticks
  <2>3. CASE ~(status[a] = "accepted" /\ req[q].to = "rejected")
    <3>1. \A b \in Apps : b # a => status'[b] = status[b] /\ (b \in timed' => b \in timed)
        BY <1>1, <1>9, <2>3 DEF ReviewItem
    <3>2. KnownOf(q)'
      <4>1. CASE req[q].to = "accepted"
        <5>1. req' = [req EXCEPT ![q].pc = "promote", ![q].todo = req[q].todo \ {a}]
            BY <1>9, <2>3, <4>1 DEF ReviewItem
        <5>2. req'[q].ids = req[q].ids /\ req'[q].todo = req[q].todo \ {a} /\ req'[q].copy = req[q].copy
            BY <1>1, <1>2, <5>1 DEF Reviews
        <5>. QED BY <1>1, <5>2 DEF KnownOf
      <4>2. CASE req[q].to # "accepted"
          BY <1>5, <1>9, <2>1, <2>3, <4>2 DEF ReviewItem
      <4>. QED BY <4>1, <4>2
    <3>. QED BY <2>1, <3>1, <3>2 DEF Sticks
  <2>. QED BY <2>2, <2>3
<1>10. ASSUME NEW a \in Apps, RejectRest(q, a)
       PROVE  Sticks(q)
  <2>1. status[a] # "none"
      BY <1>10 DEF RejectRest, KnownOf
  <2>2. KnownOf(q)'
    <3>1. CASE req[q].todo = {a}
        BY <1>4, <1>10, <3>1 DEF RejectRest
    <3>2. CASE req[q].todo # {a}
      <4>1. req' = [req EXCEPT ![q].todo = req[q].todo \ {a}]
          BY <1>10, <3>2 DEF RejectRest
      <4>2. req'[q].ids = req[q].ids /\ req'[q].todo = req[q].todo \ {a} /\ req'[q].copy = req[q].copy
          BY <1>1, <1>2, <4>1 DEF Reviews
      <4>. QED BY <1>1, <4>2 DEF KnownOf
    <3>. QED BY <3>1, <3>2
  <2>. QED BY <1>1, <1>10, <2>1, <2>2 DEF RejectRest, Sticks
<1>11. ASSUME NEW a \in Apps, AcceptSelected(q, a)
       PROVE  Sticks(q)
  <2>1. status[a] # "none"
      BY <1>11 DEF AcceptSelected, KnownOf
  <2>2. req' = [req EXCEPT ![q].todo = req[q].todo \ {a},
                           ![q].pc = IF req[q].todo = {a} THEN "decline" ELSE "accept"]
      BY <1>11 DEF AcceptSelected
  <2>3. req'[q].ids = req[q].ids /\ req'[q].todo = req[q].todo \ {a} /\ req'[q].copy = req[q].copy
      BY <1>1, <1>2, <2>2 DEF Reviews
  <2>4. \A b \in Apps : b # a => status'[b] = status[b]
      BY <1>11, WriteEffect DEF AcceptSelected, Choices
  <2>. QED BY <1>1, <1>11, <2>1, <2>3, <2>4 DEF AcceptSelected, Sticks, KnownOf
<1>12. ASSUME NEW a \in Apps, DeclineRest(q, a)
       PROVE  Sticks(q)
  <2>1. status[a] # "none"
      BY <1>12 DEF DeclineRest, Waiting, KnownOf
  <2>2. req' = [req EXCEPT ![q].copy[a] = "rejected"]
      BY <1>12 DEF DeclineRest
  <2>3. req'[q].ids = req[q].ids /\ req'[q].todo = req[q].todo
        /\ req'[q].copy = [req[q].copy EXCEPT ![a] = "rejected"] /\ req[q].copy \in [Apps -> AppStatus]
      BY <1>1, <1>2, <2>2 DEF Reviews
  <2>4. \A b \in Apps : b # a => status'[b] = status[b]
      BY <1>12, WriteEffect DEF DeclineRest, Choices
  <2>. QED BY <1>1, <1>12, <2>1, <2>3, <2>4 DEF DeclineRest, Sticks, KnownOf
<1>. QED BY <1>6, <1>7, <1>8, <1>9, <1>10, <1>11, <1>12 DEF GoOnReviewing

\* The steps of creators, of the cron and of staff who pause the campaign.
Elsewhere ==
    \/ \E t \in Timers : ListLive(t) \/ CloseWindow(t)
    \/ \E a \in Apps : BeginApply(a)
    \/ Pause \/ UNCHANGED selectionVars

LEMMA ElsewhereEffect ==
    ASSUME Shapes, Elsewhere
    PROVE  UNCHANGED <<status, timed, req, worst>> /\ (camp' = "active" => camp = "active")
BY DEF Elsewhere, ListLive, CloseWindow, BeginApply, Pause, selectionVars

LEMMA CreateEffect ==
    ASSUME Shapes, NEW a \in Apps, CreateApplication(a)
    PROVE  /\ a \in applying /\ applying' = applying \ {a} /\ UNCHANGED <<camp, timed, req, timer>>
           /\ status'[a] = "pending" /\ \A b \in Apps : b # a => status'[b] = status[b]
           /\ worst <= worst' /\ (camp # "live" \/ Busy => Late <= worst')
<1>1. Late \in 0 .. Raced /\ Worsen(Late, camp # "live" \/ Busy)
    BY DEF CreateApplication, Late, Raced
<1>2. worst <= worst' /\ (camp # "live" \/ Busy => Late <= worst')
    BY <1>1, WorsenType
<1>. QED BY <1>2 DEF Shapes, CreateApplication

LEMMA Cases ==
    ASSUME [NextSelection]_selectionVars
    PROVE  \/ \E q \in Requests : Requested(q) \/ BeginResume(q)
           \/ \E q \in Requests : GoOnReviewing(q)
           \/ \E a \in Apps : CreateApplication(a)
           \/ Elsewhere
BY DEF NextSelection, Elsewhere

Sound == SelectionTypeOK /\ Known /\ OneDecides

LEMMA TypeIs ==
    SelectionTypeOK <=> /\ Shapes /\ \A a \in timed : status[a] # "none"
                        /\ \A a \in applying : status[a] = "none"
BY DEF SelectionTypeOK, Shapes, Reviews

LEMMA SoundStart == InitSelection => Sound
<1>. SUFFICES ASSUME InitSelection PROVE Sound
    OBVIOUS
<1>1. SelectionTypeOK
    BY ShapesStart, TypeIs DEF InitSelection
<1>2. \A q \in Requests : req[q] = NoReview
    BY DEF InitSelection
<1>. QED BY <1>1, <1>2 DEF Sound, Known, KnownOf, OneDecides, Decides, NoReview

LEMMA SoundStep == Sound /\ [NextSelection]_selectionVars => Sound'
<1>. SUFFICES ASSUME Sound, [NextSelection]_selectionVars PROVE Sound'
    OBVIOUS
<1>1. /\ SelectionTypeOK /\ Known /\ OneDecides /\ Shapes /\ Shapes' /\ worst \in Int /\ worst' \in Int
      /\ \A a \in timed : status[a] # "none"
      /\ \A a \in applying : status[a] = "none"
  <2>1. SelectionTypeOK /\ Known /\ OneDecides
      BY DEF Sound
  <2>2. Shapes /\ Shapes'
      BY <2>1, TypeIs, ShapesStep
  <2>. QED BY <2>1, <2>2, TypeIs DEF Shapes, Raced
<1>2. timed \subseteq Apps /\ applying \subseteq Apps /\ timed' \subseteq Apps /\ applying' \subseteq Apps
    BY <1>1 DEF Shapes
<1>3. ASSUME NEW q \in Requests, Requested(q) \/ BeginResume(q)
      PROVE  Sound'
  <2>1. PICK r \in Reviews : BeginReviewing(q, r) /\ KnownOf(q)'
      BY <1>1, <1>3, BeginsKnown
  <2>2. /\ ~Decides(q) /\ worst <= worst' /\ (Busy => Raced <= worst')
        /\ req'[q] = r /\ \A p \in Requests : p # q => req'[p] = req[p]
        /\ UNCHANGED <<camp, status, timed, applying, timer>>
      BY <1>1, <2>1, BeginsEffect
  <2>3. SelectionTypeOK'
      BY <1>1, <2>2, TypeIs DEF SelectionTypeOK, Shapes, Reviews
  <2>4. Known'
      BY <1>1, <2>1, <2>2 DEF Known, KnownOf
  <2>5. OneDecides'
      BY <1>1, <2>2 DEF OneDecides, Busy, Decides, Raced
  <2>. QED BY <2>3, <2>4, <2>5 DEF Sound
<1>4. ASSUME NEW q \in Requests, GoOnReviewing(q)
      PROVE  Sound'
  <2>1. Sticks(q) /\ GoesOn(q)
      BY <1>1, <1>4, GoOnKnown, GoOnEffect DEF Known
  <2>2. SelectionTypeOK'
    <3>1. \A a \in timed' : status'[a] # "none"
        BY <1>1, <1>2, <2>1 DEF Sticks, GoesOn
    <3>2. \A a \in applying' : status'[a] = "none"
        BY <1>1, <1>2, <2>1 DEF Sticks, GoesOn
    <3>. QED BY <1>1, <3>1, <3>2 DEF SelectionTypeOK, Shapes, Reviews
  <2>3. Known'
      BY <1>1, <2>1 DEF Known, KnownOf, GoesOn, Sticks
  <2>4. OneDecides'
      BY <1>1, <2>1 DEF OneDecides, Decides, GoesOn, Raced
  <2>. QED BY <2>2, <2>3, <2>4 DEF Sound
<1>5. ASSUME NEW a \in Apps, CreateApplication(a)
      PROVE  Sound'
  <2>1. /\ a \in applying /\ applying' = applying \ {a} /\ UNCHANGED <<camp, timed, req, timer>>
        /\ status'[a] = "pending" /\ \A b \in Apps : b # a => status'[b] = status[b]
        /\ worst <= worst'
      BY <1>1, <1>5, CreateEffect
  <2>2. SelectionTypeOK'
      BY <1>1, <1>2, <2>1 DEF SelectionTypeOK, Shapes, Reviews
  <2>3. Known'
      BY <1>1, <2>1 DEF Known, KnownOf
  <2>4. OneDecides'
      BY <1>1, <2>1 DEF OneDecides, Decides, Raced
  <2>. QED BY <2>2, <2>3, <2>4 DEF Sound
<1>6. CASE Elsewhere
  <2>1. UNCHANGED <<status, timed, req, worst>>
      BY <1>1, <1>6, ElsewhereEffect
  <2>2. \A a \in applying' : status'[a] = "none"
      BY <1>1, <1>6, <2>1 DEF Elsewhere, ListLive, CloseWindow, BeginApply, Pause, selectionVars
  <2>3. SelectionTypeOK'
      BY <1>1, <2>1, <2>2 DEF SelectionTypeOK, Shapes, Reviews
  <2>. QED BY <1>1, <2>1, <2>3 DEF Sound, Known, KnownOf, OneDecides, Decides
<1>. QED BY <1>3, <1>4, <1>5, <1>6, Cases

\* Every variable of the applications to a campaign keeps its shape; in particular only a
\* creator whose application exists has a timeline, and nobody who has one is still applying.
THEOREM SelectionTypeCorrect == SpecSelection => []SelectionTypeOK
<1>1. Sound => SelectionTypeOK
    BY DEF Sound
<1>. QED BY <1>1, SoundStart, SoundStep, PTL DEF SpecSelection

-----------------------------------------------------------------------------
(* The budget.                                                             *)

\* What a request is about to choose has been counted.
Counted(q) ==
    /\ req[q].pc \in {"write", "item", "promote"} => req[q].todo \subseteq req[q].ids
    /\ req[q].pc \in {"write", "item", "promote"} /\ req[q].to \in Chosen =>
         FeesOf(Committed \cup req[q].ids) <= Pool
    /\ req[q].pc = "accept" => req[q].todo \subseteq Committed

PoolInv ==
    worst < Raced => FeesOf(Committed) <= Pool /\ \A q \in Requests : Counted(q)

LEMMA FeesMonotone ==
    ASSUME NEW S \in SUBSET Apps, NEW T \in SUBSET S, FeesOf(S) <= Pool
    PROVE  FeesOf(T) <= Pool
<1>1. IsFiniteSet(S) /\ \A a \in S : Fee[a] \in Nat
    BY SelectionBounds, FS_Subset
<1>2. SumOf(Fee, T) <= SumOf(Fee, S) /\ SumOf(Fee, S) \in Nat /\ SumOf(Fee, T) \in Nat
  <2>1. IsFiniteSet(T) /\ \A a \in T : Fee[a] \in Nat
      BY <1>1, FS_Subset
  <2>2. SumOf(Fee, S) \in Nat
      BY <1>1, SumType
  <2>3. SumOf(Fee, T) \in Nat
      BY <2>1, SumType
  <2>. QED BY <1>1, <2>2, <2>3, SumMonotone
<1>3. FeesOf(S) = SumOf(Fee, S) /\ FeesOf(T) = SumOf(Fee, T)
    BY DEF FeesOf, SumOf
<1>. QED BY <1>2, <1>3, SelectionBounds

LEMMA PoolStart == InitSelection => PoolInv
<1>. SUFFICES ASSUME InitSelection PROVE PoolInv
    OBVIOUS
<1>1. Committed = {}
    BY DEF InitSelection, Committed, Chosen
<1>2. FeesOf({}) = 0
    BY SumEmpty DEF FeesOf, SumOf
<1>3. \A q \in Requests : Counted(q)
    BY DEF InitSelection, Counted, NoReview
<1>. QED BY <1>1, <1>2, <1>3, SelectionBounds DEF PoolInv

\* A request that has begun chooses nobody but whom it has counted.
ChoosesCounted(q) == FeesOf(Committed') <= Pool /\ Counted(q)'

LEMMA PoolGoesOn ==
    ASSUME Shapes, NEW q \in Requests, Counted(q), FeesOf(Committed) <= Pool, GoOnReviewing(q)
    PROVE  ChoosesCounted(q)
<1>1. /\ req \in [Requests -> Reviews] /\ status \in [Apps -> AppStatus]
      /\ Committed \in SUBSET Apps /\ Committed' \in SUBSET Apps
    BY DEF Shapes, Committed
<1>2. /\ req[q] \in Reviews /\ req[q].to \in Choices
      /\ req[q].todo \in SUBSET Apps /\ req[q].ids \in SUBSET Apps
    BY <1>1 DEF Reviews
<1>3. ASSUME Committed' \subseteq Committed
      PROVE  FeesOf(Committed') <= Pool
    BY <1>1, <1>3, FeesMonotone
<1>4. ASSUME req[q].pc \in {"write", "item", "promote"}, req[q].to \in Chosen,
             Committed' \subseteq Committed \cup req[q].ids
      PROVE  FeesOf(Committed') <= Pool /\ FeesOf(Committed' \cup req[q].ids) <= Pool
  <2>1. FeesOf(Committed \cup req[q].ids) <= Pool
      BY <1>4 DEF Counted
  <2>2. Committed \cup req[q].ids \in SUBSET Apps
      BY <1>1, <1>2
  <2>3. Committed' \in SUBSET (Committed \cup req[q].ids)
        /\ Committed' \cup req[q].ids \in SUBSET (Committed \cup req[q].ids)
      BY <1>4
  <2>. QED BY <2>1, <2>2, <2>3, FeesMonotone
<1>5. ASSUME FinishReview(q)
      PROVE  Counted(q)'
    BY <1>5, FinishEffect DEF NoReview, Counted
<1>6. ASSUME NEW left \in SUBSET req[q].todo, req[q].pc \in {"item", "promote"}, GoOnWith(q, left),
             req[q].to \in Chosen => FeesOf(Committed' \cup req[q].ids) <= Pool
      PROVE  Counted(q)'
  <2>1. PICK r : r = req'[q]
      OBVIOUS
  <2>2. \/ r = NoReview
        \/ r.pc = "rest"
        \/ r.pc = "item" /\ r.todo = left /\ r.ids = req[q].ids /\ r.to = req[q].to
    <3>1. \/ r = [req[q] EXCEPT !.pc = "item", !.todo = left,
                                  !.camp = IF req[q].to = "accepted" THEN "active" ELSE @]
          \/ r = NoReview
          \/ r = [req[q] EXCEPT !.pc = "rest", !.todo = Others(q)]
        BY <1>2, <1>6, <2>1, GoOnWithType
    <3>. QED BY <1>2, <3>1 DEF Reviews
  <2>3. req[q].todo \subseteq req[q].ids
      BY <1>6 DEF Counted
  <2>4. CASE r = NoReview \/ r.pc = "rest"
      BY <2>1, <2>4 DEF Counted, NoReview
  <2>5. CASE r.pc = "item" /\ r.todo = left /\ r.ids = req[q].ids /\ r.to = req[q].to
      BY <1>6, <2>1, <2>3, <2>5 DEF Counted
  <2>. QED BY <2>2, <2>4, <2>5
<1>7. CASE Promote(q)
  <2>1. Committed' = Committed /\ req[q].pc = "promote" /\ GoOnWith(q, req[q].todo)
      BY <1>7 DEF Promote, Committed
  <2>2. req[q].to \in Chosen => FeesOf(Committed' \cup req[q].ids) <= Pool
      BY <1>4, <2>1
  <2>. QED BY <1>6, <2>1, <2>2 DEF ChoosesCounted
<1>8. CASE Activate(q) \/ SaveResume(q) \/ CrashReview(q)
  <2>1. Committed' = Committed
      BY <1>8 DEF Activate, SaveResume, CrashReview, Committed
  <2>. QED BY <1>5, <1>8, <2>1 DEF Activate, SaveResume, CrashReview, ChoosesCounted
<1>9. ASSUME NEW a \in Apps, WriteReview(q, a)
      PROVE  ChoosesCounted(q)
  <2>1. /\ req[q].pc = "write" /\ a \in req[q].ids /\ status'[a] \in {status[a], req[q].to}
        /\ \A b \in Apps : b # a => status'[b] = status[b]
      BY <1>2, <1>9, WriteEffect DEF WriteReview
  <2>2. FeesOf(Committed') <= Pool
    <3>1. CASE req[q].to \in Chosen
      <4>1. Committed' \subseteq Committed \cup req[q].ids
          BY <2>1 DEF Committed
      <4>. QED BY <1>4, <2>1, <3>1, <4>1
    <3>2. CASE req[q].to \notin Chosen
      <4>1. Committed' \subseteq Committed
          BY <2>1, <3>2 DEF Committed
      <4>. QED BY <1>3, <4>1
    <3>. QED BY <3>1, <3>2
  <2>. QED BY <1>5, <1>9, <2>2 DEF WriteReview, ChoosesCounted
<1>10. ASSUME NEW a \in Apps, ReviewItem(q, a)
      PROVE  ChoosesCounted(q)
  <2>1. req[q].pc = "item" /\ a \in req[q].todo /\ a \in req[q].ids
      BY <1>10 DEF ReviewItem, Counted
  <2>2. CASE status[a] = "accepted" /\ req[q].to = "rejected"
    <3>1. Committed' = Committed /\ FinishReview(q)
        BY <1>10, <2>2 DEF ReviewItem, Committed
    <3>. QED BY <1>5, <3>1 DEF ChoosesCounted
  <2>3. CASE ~(status[a] = "accepted" /\ req[q].to = "rejected")
    <3>1. status' = [status EXCEPT ![a] = req[q].to]
        BY <1>10, <2>3 DEF ReviewItem
    <3>2. req[q].to \in Chosen => Committed' \subseteq Committed \cup req[q].ids
        BY <1>1, <2>1, <3>1 DEF Committed
    <3>3. req[q].to \notin Chosen => Committed' \subseteq Committed
        BY <1>1, <3>1 DEF Committed
    <3>4. FeesOf(Committed') <= Pool
        BY <1>3, <1>4, <2>1, <3>2, <3>3
    <3>5. req[q].to \in Chosen => FeesOf(Committed' \cup req[q].ids) <= Pool
        BY <1>4, <2>1, <3>2
    <3>6. CASE req[q].to = "accepted"
      <4>1. req' = [req EXCEPT ![q].pc = "promote", ![q].todo = req[q].todo \ {a}]
          BY <1>10, <2>3, <3>6 DEF ReviewItem
      <4>2. req'[q].ids = req[q].ids /\ req'[q].todo = req[q].todo \ {a} /\ req'[q].to = req[q].to
            /\ req'[q].pc = "promote"
          BY <1>1, <1>2, <4>1 DEF Reviews
      <4>3. req[q].todo \subseteq req[q].ids
          BY <2>1 DEF Counted
      <4>. QED BY <3>4, <3>5, <4>2, <4>3 DEF ChoosesCounted, Counted
    <3>7. CASE req[q].to # "accepted"
      <4>1. GoOnWith(q, req[q].todo \ {a}) /\ req[q].todo \ {a} \in SUBSET req[q].todo
          BY <1>10, <2>3, <3>7 DEF ReviewItem
      <4>. QED BY <1>6, <2>1, <3>4, <3>5, <4>1 DEF ChoosesCounted
    <3>. QED BY <3>6, <3>7
  <2>. QED BY <2>2, <2>3
<1>11. ASSUME NEW a \in Apps, RejectRest(q, a)
       PROVE  ChoosesCounted(q)
  <2>1. Committed' \subseteq Committed
      BY <1>1, <1>11 DEF RejectRest, Committed, Chosen
  <2>2. Counted(q)'
    <3>1. CASE req[q].todo = {a}
        BY <1>5, <1>11, <3>1 DEF RejectRest
    <3>2. CASE req[q].todo # {a}
      <4>1. req' = [req EXCEPT ![q].todo = req[q].todo \ {a}] /\ req[q].pc = "rest"
          BY <1>11, <3>2 DEF RejectRest
      <4>2. req'[q].pc = "rest"
          BY <1>1, <1>2, <4>1 DEF Reviews
      <4>. QED BY <4>2 DEF Counted
    <3>. QED BY <3>1, <3>2
  <2>. QED BY <1>3, <2>1, <2>2 DEF ChoosesCounted
<1>12. ASSUME NEW a \in Apps, AcceptSelected(q, a)
       PROVE  ChoosesCounted(q)
  <2>1. req' = [req EXCEPT ![q].todo = req[q].todo \ {a},
                           ![q].pc = IF req[q].todo = {a} THEN "decline" ELSE "accept"]
      BY <1>12 DEF AcceptSelected
  <2>2. req'[q].pc \in {"decline", "accept"} /\ req'[q].todo = req[q].todo \ {a}
      BY <1>1, <1>2, <2>1 DEF Reviews
  <2>3. \A b \in Apps : b # a => status'[b] = status[b]
      BY <1>12, WriteEffect DEF AcceptSelected, Choices
  <2>4. req[q].todo \subseteq Committed /\ a \in req[q].todo
      BY <1>12 DEF AcceptSelected, Counted
  <2>5. Committed' \subseteq Committed
      BY <2>3, <2>4 DEF Committed
  <2>6. req[q].todo \ {a} \subseteq Committed'
      BY <1>2, <2>3, <2>4 DEF Committed
  <2>. QED BY <1>3, <2>2, <2>5, <2>6 DEF ChoosesCounted, Counted
<1>13. ASSUME NEW a \in Apps, DeclineRest(q, a)
       PROVE  ChoosesCounted(q)
  <2>1. req' = [req EXCEPT ![q].copy[a] = "rejected"] /\ req[q].pc = "decline"
      BY <1>13 DEF DeclineRest
  <2>2. req'[q].pc = "decline"
      BY <1>1, <1>2, <2>1 DEF Reviews
  <2>3. status'[a] \in {status[a], "rejected"} /\ \A b \in Apps : b # a => status'[b] = status[b]
      BY <1>13, WriteEffect DEF DeclineRest, Choices
  <2>4. Committed' \subseteq Committed
      BY <2>3 DEF Committed, Chosen
  <2>. QED BY <1>3, <2>2, <2>4 DEF ChoosesCounted, Counted
<1>. QED BY <1>7, <1>8, <1>9, <1>10, <1>11, <1>12, <1>13 DEF GoOnReviewing

\* A request begins by counting.
LEMMA PoolBegins ==
    ASSUME Shapes, NEW q \in Requests, FeesOf(Committed) <= Pool, Requested(q) \/ BeginResume(q)
    PROVE  ChoosesCounted(q)
<1>1. /\ req \in [Requests -> Reviews] /\ status \in [Apps -> AppStatus] /\ camp \in CampStatus
      /\ Committed \in SUBSET Apps
    BY DEF Shapes, Committed
<1>2. ASSUME NEW r, BeginReviewing(q, r)
      PROVE  req'[q] = r /\ Committed' = Committed
    BY <1>2, BeginsEffect DEF Committed
<1>3. ASSUME NEW a \in Apps, NEW choice \in Choices, BeginReview(q, a, choice)
      PROVE  ChoosesCounted(q)
  <2>1. PICK r : r = [NoReview EXCEPT !.pc = "write", !.to = Wanted(a, choice), !.ids = {a},
                                      !.camp = camp, !.copy[a] = status[a]]
      OBVIOUS
  <2>2. r.ids = {a} /\ r.todo = {} /\ r.pc = "write" /\ r.to = Wanted(a, choice)
      BY <2>1 DEF NoReview
  <2>3. BeginReviewing(q, r) /\ MayBecome(a, r.to)
      BY <1>3, <2>1, <2>2 DEF BeginReview
  <2>4. r.to \in Chosen => FeesOf(Committed \cup {a}) <= Pool
    <3>1. CASE status[a] = "accepted"
      <4>1. Committed \cup {a} = Committed
          BY <3>1 DEF Committed, Chosen
      <4>. QED BY <4>1
    <3>2. CASE status[a] # "accepted"
        BY <2>3, <3>2 DEF MayBecome, Fits, Chosen
    <3>. QED BY <3>1, <3>2
  <2>. QED BY <1>2, <2>2, <2>3, <2>4 DEF ChoosesCounted, Counted
<1>4. ASSUME NEW S \in SUBSET Apps, NEW to \in Choices, BeginBatch(q, S, to)
      PROVE  ChoosesCounted(q)
  <2>1. PICK r : r = [NoReview EXCEPT !.pc = "item", !.to = to, !.ids = S, !.camp = camp, !.todo = S]
      OBVIOUS
  <2>2. r.ids = S /\ r.todo = S /\ r.pc = "item" /\ r.to = to
      BY <2>1 DEF NoReview
  <2>3. BeginReviewing(q, r) /\ (to \in Chosen => FeesOf(Committed \cup S) <= Pool)
      BY <1>4, <2>1 DEF BeginBatch, Fits
  <2>. QED BY <1>2, <2>2, <2>3 DEF ChoosesCounted, Counted
<1>5. CASE BeginActivate(q)
  <2>1. PICK r : r = [NoReview EXCEPT !.pc = "accept", !.copy = status, !.todo = Committed]
      OBVIOUS
  <2>2. r.pc = "accept" /\ r.todo = Committed
      BY <2>1 DEF NoReview
  <2>3. BeginReviewing(q, r)
      BY <1>5, <2>1 DEF BeginActivate
  <2>. QED BY <1>2, <2>2, <2>3 DEF ChoosesCounted, Counted
<1>6. CASE BeginResume(q)
  <2>1. PICK r : r = [NoReview EXCEPT !.pc = "resume",
                     !.camp = IF \E a \in Apps : status[a] = "accepted" THEN "active" ELSE "live"]
      OBVIOUS
  <2>2. r.pc = "resume"
      BY <2>1 DEF NoReview
  <2>3. BeginReviewing(q, r)
      BY <1>6, <2>1 DEF BeginResume
  <2>. QED BY <1>2, <2>2, <2>3 DEF ChoosesCounted, Counted
<1>. QED BY <1>3, <1>4, <1>5, <1>6 DEF Requested

LEMMA PoolStep == Sound /\ PoolInv /\ [NextSelection]_selectionVars => PoolInv'
<1>. SUFFICES ASSUME Sound, PoolInv, [NextSelection]_selectionVars, worst' < Raced
              PROVE  FeesOf(Committed') <= Pool /\ \A q \in Requests : Counted(q)'
    BY DEF PoolInv
<1>1. Sound' /\ Shapes /\ worst \in Int /\ worst' \in Int /\ Raced \in Int
  <2>1. Sound' /\ Shapes
      BY SoundStep, TypeIs DEF Sound
  <2>. QED BY <2>1 DEF Sound, SelectionTypeOK, Shapes, Raced
<1>2. \A a \in applying : status[a] = "none"
    BY TypeIs DEF Sound
<1>3. ASSUME NEW q \in Requests, Requested(q) \/ BeginResume(q)
      PROVE  FeesOf(Committed') <= Pool /\ \A r \in Requests : Counted(r)'
  <2>1. PICK r \in Reviews : BeginReviewing(q, r)
      BY <1>1, <1>3, BeginsKnown DEF Sound, Known
  <2>2. worst <= worst' /\ (Busy => Raced <= worst') /\ \A p \in Requests : p # q => req'[p] = req[p]
      BY <1>1, <2>1, BeginsEffect
  <2>3. worst < Raced /\ ~Busy
      BY <1>1, <2>2
  <2>4. ChoosesCounted(q)
      BY <1>1, <1>3, <2>3, PoolBegins DEF PoolInv
  <2>5. \A p \in Requests : p # q => Counted(p)'
      BY <2>2, <2>3 DEF Busy, Decides, Counted
  <2>. QED BY <2>4, <2>5 DEF ChoosesCounted
<1>4. ASSUME NEW q \in Requests, GoOnReviewing(q)
      PROVE  FeesOf(Committed') <= Pool /\ \A r \in Requests : Counted(r)'
  <2>1. GoesOn(q) /\ worst < Raced
      BY <1>1, <1>4, GoOnEffect DEF GoesOn
  <2>2. ChoosesCounted(q)
      BY <1>1, <1>4, <2>1, PoolGoesOn DEF PoolInv
  <2>3. \A p \in Requests : p # q => ~Decides(p) /\ req'[p] = req[p]
      BY <2>1 DEF Sound, OneDecides, GoesOn
  <2>4. \A p \in Requests : p # q => Counted(p)'
      BY <2>3 DEF Decides, Counted
  <2>. QED BY <2>2, <2>4 DEF ChoosesCounted
<1>5. ASSUME NEW a \in Apps, CreateApplication(a)
      PROVE  FeesOf(Committed') <= Pool /\ \A r \in Requests : Counted(r)'
  <2>1. /\ a \in applying /\ req' = req
        /\ status'[a] = "pending" /\ \A b \in Apps : b # a => status'[b] = status[b]
        /\ worst <= worst'
      BY <1>1, <1>5, CreateEffect
  <2>2. Committed' = Committed
      BY <1>2, <2>1 DEF Committed, Chosen
  <2>. QED BY <1>1, <2>1, <2>2 DEF PoolInv, Counted
<1>6. CASE Elsewhere
  <2>1. UNCHANGED <<status, req, worst>>
      BY <1>1, <1>6, ElsewhereEffect
  <2>. QED BY <1>1, <2>1 DEF PoolInv, Counted, Committed
<1>. QED BY <1>3, <1>4, <1>5, <1>6, Cases

\* The creators a brand has chosen fit in the pool: validateCreatorSelection, asked before
\* every choice, is enough as long as two requests do not decide at one time.
THEOREM ChosenFitThePool == SpecSelection => []PoolHolds
<1>1. PoolInv => PoolHolds
    BY DEF PoolInv, PoolHolds
<1>. QED BY <1>1, SoundStart, SoundStep, PoolStart, PoolStep, PTL DEF SpecSelection

-----------------------------------------------------------------------------
(* What is settled when a campaign is active.                              *)

Settled ==
    camp = "active" =>
        /\ \E a \in Apps : status[a] = "accepted"
        /\ \A a \in Apps : status[a] = "accepted" => a \in timed
        /\ worst < Late => \A a \in Apps : status[a] \notin {"pending", "selected"}

\* A request that accepts creators unsettles the campaign for the time it takes.
Accepting(q) ==
    \/ req[q].pc \in {"accept", "decline"}
    \/ req[q].pc \in {"item", "promote", "rest"} /\ req[q].to = "accepted"

Answered(a) == status[a] = "accepted" /\ a \in timed

\* One that applied late.
MayWait(a) == status[a] = "pending" /\ worst >= Late

\* A review of one application decides on what it read.
OneRead(q) ==
    req[q].pc = "write" =>
        /\ camp = "active" => req[q].camp = "active"
        /\ \A a \in req[q].ids :
             /\ status[a] = req[q].copy[a]
             /\ req[q].to = "rejected" /\ req[q].camp = "active" => status[a] # "accepted"

\* A batch that accepts has accepted what it is through with; then the others are rejected.
BatchSoFar(q) ==
    /\ req[q].pc \in {"promote", "rest"} => req[q].to = "accepted"
    /\ req[q].pc = "rest" => req[q].todo \cap req[q].ids = {}
    /\ req[q].to = "accepted" =>
         /\ req[q].pc \in {"item", "promote", "rest"} => req[q].ids # {}
         /\ req[q].pc \in {"item", "promote"} => \A a \in req[q].ids \ req[q].todo : Answered(a)
         /\ req[q].pc = "rest" =>
              /\ \A a \in req[q].ids : Answered(a)
              /\ \A a \in Apps \ (req[q].ids \cup req[q].todo) :
                     status[a] \in {"none", "rejected"} \/ MayWait(a)

\* An activation goes by its list.
ListSoFar(q) ==
    req[q].pc \in {"accept", "decline"} =>
        /\ \E a \in Apps : req[q].copy[a] \in Chosen
        /\ req[q].pc = "accept" => req[q].todo \subseteq {a \in Apps : req[q].copy[a] \in Chosen}
        /\ \A a \in Apps :
             /\ req[q].copy[a] \in Chosen =>
                  \/ Answered(a)
                  \/ req[q].pc = "accept" /\ a \in req[q].todo /\ status[a] = req[q].copy[a]
             /\ req[q].copy[a] = "none" => status[a] = "none" \/ MayWait(a)
             /\ req[q].copy[a] \in {"pending", "rejected"} => status[a] = req[q].copy[a]

Promised(q) == OneRead(q) /\ BatchSoFar(q) /\ ListSoFar(q)

SettledInv ==
    worst < Loose =>
        /\ (\A q \in Requests : ~Accepting(q)) => Settled
        /\ \A q \in Requests : Promised(q)

LEMMA IdleIsPromised == ASSUME NEW q \in Requests, ~Decides(q) PROVE Promised(q) /\ ~Accepting(q)
BY DEF Decides, Promised, OneRead, BatchSoFar, ListSoFar, Accepting

LEMMA SettledStart == InitSelection => SettledInv
<1>. SUFFICES ASSUME InitSelection PROVE SettledInv
    OBVIOUS
<1>1. \A q \in Requests : ~Decides(q)
    BY DEF InitSelection, Decides, NoReview
<1>2. Settled
    BY DEF InitSelection, Settled
<1>. QED BY <1>1, <1>2, IdleIsPromised DEF SettledInv

\* What one step of a deciding request owes: its own promise, and a settled campaign if it
\* is not accepting.
Keeps(q) == Promised(q)' /\ (~Accepting(q)' => Settled')

LEMMA SettledBegins ==
    ASSUME Shapes, NEW q \in Requests, Settled, Requested(q) \/ BeginResume(q)
    PROVE  Keeps(q)
<1>1. /\ req \in [Requests -> Reviews] /\ status \in [Apps -> AppStatus] /\ camp \in CampStatus
      /\ worst \in Int /\ worst' \in Int
  <2>1. Shapes'
      BY ShapesStep DEF NextSelection
  <2>. QED BY <2>1 DEF Shapes, Raced
<1>2. ASSUME NEW r, BeginReviewing(q, r)
      PROVE  /\ req'[q] = r /\ UNCHANGED <<camp, status, timed>>
             /\ Settled'
  <2>1. req'[q] = r /\ UNCHANGED <<camp, status, timed>> /\ worst <= worst'
      BY <1>2, BeginsEffect
  <2>2. Late \in Int /\ (worst' < Late => worst < Late)
      BY <1>1, <2>1 DEF Late
  <2>. QED BY <2>1, <2>2 DEF Settled
<1>3. ASSUME NEW a \in Apps, NEW choice \in Choices, BeginReview(q, a, choice)
      PROVE  Keeps(q)
  <2>1. PICK r : r = [NoReview EXCEPT !.pc = "write", !.to = Wanted(a, choice), !.ids = {a},
                                      !.camp = camp, !.copy[a] = status[a]]
      OBVIOUS
  <2>2. r.ids = {a} /\ r.pc = "write" /\ r.to = Wanted(a, choice) /\ r.camp = camp /\ r.copy[a] = status[a]
      BY <2>1 DEF NoReview
  <2>3. BeginReviewing(q, r) /\ MayBecome(a, r.to)
      BY <1>3, <2>1, <2>2 DEF BeginReview
  <2>4. OneRead(q)'
      BY <1>2, <2>2, <2>3 DEF OneRead, MayBecome
  <2>. QED BY <1>2, <2>2, <2>3, <2>4 DEF Keeps, Promised, BatchSoFar, ListSoFar
<1>4. ASSUME NEW S \in SUBSET Apps, NEW to \in Choices, BeginBatch(q, S, to)
      PROVE  Keeps(q)
  <2>1. PICK r : r = [NoReview EXCEPT !.pc = "item", !.to = to, !.ids = S, !.camp = camp, !.todo = S]
      OBVIOUS
  <2>2. r.ids = S /\ r.todo = S /\ r.pc = "item" /\ r.to = to
      BY <2>1 DEF NoReview
  <2>3. BeginReviewing(q, r) /\ S # {}
      BY <1>4, <2>1 DEF BeginBatch
  <2>. QED BY <1>2, <2>2, <2>3 DEF Keeps, Promised, OneRead, BatchSoFar, ListSoFar
<1>5. CASE BeginActivate(q)
  <2>1. PICK r : r = [NoReview EXCEPT !.pc = "accept", !.copy = status, !.todo = Committed]
      OBVIOUS
  <2>2. r.pc = "accept" /\ r.todo = Committed /\ r.copy = status
      BY <2>1 DEF NoReview
  <2>3. BeginReviewing(q, r) /\ Committed # {}
      BY <1>5, <2>1 DEF BeginActivate
  <2>4. ListSoFar(q)'
      BY <1>1, <1>2, <2>2, <2>3 DEF ListSoFar, Committed
  <2>. QED BY <1>2, <2>2, <2>3, <2>4 DEF Keeps, Promised, OneRead, BatchSoFar
<1>6. CASE BeginResume(q)
  <2>1. PICK r : r = [NoReview EXCEPT !.pc = "resume",
                     !.camp = IF \E a \in Apps : status[a] = "accepted" THEN "active" ELSE "live"]
      OBVIOUS
  <2>2. r.pc = "resume"
      BY <2>1 DEF NoReview
  <2>3. BeginReviewing(q, r)
      BY <1>6, <2>1 DEF BeginResume
  <2>. QED BY <1>2, <2>2, <2>3 DEF Keeps, Promised, OneRead, BatchSoFar, ListSoFar
<1>. QED BY <1>3, <1>4, <1>5, <1>6 DEF Requested

LEMMA SettledGoesOn ==
    ASSUME Shapes, Shapes', NEW q \in Requests, GoOnReviewing(q), worst' < Loose,
           Promised(q), ~Accepting(q) => Settled
    PROVE  Keeps(q)
<1>1. /\ req \in [Requests -> Reviews] /\ status \in [Apps -> AppStatus] /\ camp \in CampStatus
      /\ worst \in Int /\ worst' \in Int /\ Loose \in 0 .. Raced /\ Loose \in Int /\ Late \in Int
      /\ timed \subseteq Apps /\ worst <= worst' /\ (worst' < Late => worst < Late)
  <2>1. worst <= worst'
      BY GoOnEffect DEF GoesOn
  <2>. QED BY <2>1 DEF Shapes, Raced, Loose, Late
<1>2. /\ req[q] \in Reviews /\ req[q].to \in Choices
      /\ req[q].todo \in SUBSET Apps /\ req[q].ids \in SUBSET Apps
      /\ req[q].copy \in [Apps -> AppStatus]
    BY <1>1 DEF Reviews
<1>3. OneRead(q) /\ BatchSoFar(q) /\ ListSoFar(q)
    BY DEF Promised
<1>4. ASSUME FinishReview(q)
      PROVE  Promised(q)'
  <2>1. req'[q].pc = "idle"
      BY <1>4, FinishEffect DEF NoReview
  <2>. QED BY <2>1 DEF Promised, OneRead, BatchSoFar, ListSoFar
<1>5. ASSUME NEW a \in Apps, WriteReview(q, a)
      PROVE  Keeps(q)
  <2>1. /\ req[q].pc = "write" /\ a \in req[q].ids /\ camp' = camp
        /\ \A b \in Apps : b # a => status'[b] = status[b]
        /\ status'[a] = (IF req[q].to = req[q].copy[a] THEN status[a] ELSE req[q].to)
        /\ timed' = IF req[q].to = "accepted" /\ req[q].camp = "active" THEN timed \cup {a} ELSE timed
      BY <1>2, <1>5, WriteEffect DEF WriteReview
  <2>2. camp = "active" => req[q].to \notin {"selected", "pending"}
    <3>1. Worsen(Loose, camp = "active" /\ req[q].to \in {"selected", "pending"})
        BY <1>5 DEF WriteReview
    <3>2. camp = "active" /\ req[q].to \in {"selected", "pending"} => Loose <= worst'
        BY <1>1, <3>1, WorsenType
    <3>. QED BY <1>1, <3>2
  <2>3. Settled /\ status[a] = req[q].copy[a] /\ (camp = "active" => req[q].camp = "active")
        /\ (req[q].to = "rejected" /\ req[q].camp = "active" => status[a] # "accepted")
      BY <1>3, <2>1 DEF Accepting, OneRead
  <2>4. Settled'
    <3>1. SUFFICES ASSUME camp' = "active"
                   PROVE  /\ \E b \in Apps : status'[b] = "accepted"
                          /\ \A b \in Apps : status'[b] = "accepted" => b \in timed'
                          /\ worst' < Late => \A b \in Apps : status'[b] \notin {"pending", "selected"}
        BY DEF Settled
    <3>2. /\ \E b \in Apps : status[b] = "accepted"
          /\ \A b \in Apps : status[b] = "accepted" => b \in timed
          /\ worst' < Late => \A b \in Apps : status[b] \notin {"pending", "selected"}
        BY <1>1, <2>1, <2>3, <3>1 DEF Settled
    <3>3. status'[a] = req[q].to
        BY <2>1, <2>3
    <3>4. CASE req[q].to = "accepted"
        BY <2>1, <2>3, <3>1, <3>2, <3>3, <3>4
    <3>5. CASE req[q].to = "rejected"
        BY <2>1, <2>3, <3>1, <3>2, <3>3, <3>5
    <3>. QED BY <1>2, <2>1, <2>2, <3>1, <3>4, <3>5 DEF Choices
  <2>. QED BY <1>4, <1>5, <2>4 DEF WriteReview, Keeps
<1>6. ASSUME NEW a \in Apps, ReviewItem(q, a)
      PROVE  Keeps(q)
  <2>1. req[q].pc = "item" /\ a \in req[q].todo /\ camp' = camp
      BY <1>6 DEF ReviewItem
  <2>2. CASE status[a] = "accepted" /\ req[q].to = "rejected"
    <3>1. FinishReview(q) /\ UNCHANGED <<camp, status, timed, worst>> /\ Settled
        BY <1>6, <2>1, <2>2 DEF ReviewItem, Accepting
    <3>. QED BY <1>4, <3>1 DEF Keeps, Settled
  <2>3. CASE req[q].to = "accepted"
    <3>1. /\ status' = [status EXCEPT ![a] = "accepted"] /\ timed' = timed \cup {a}
          /\ req' = [req EXCEPT ![q].pc = "promote", ![q].todo = req[q].todo \ {a}]
        BY <1>6, <2>3 DEF ReviewItem
    <3>2. req'[q].ids = req[q].ids /\ req'[q].todo = req[q].todo \ {a} /\ req'[q].to = req[q].to
          /\ req'[q].pc = "promote"
        BY <1>1, <1>2, <3>1 DEF Reviews
    <3>3. req[q].ids # {} /\ \A b \in req[q].ids \ req[q].todo : Answered(b)
        BY <1>3, <2>1, <2>3 DEF BatchSoFar
    <3>4. \A b \in Apps : b = a \/ Answered(b) => Answered(b)'
        BY <1>1, <3>1 DEF Answered
    <3>. QED BY <1>2, <2>3, <3>2, <3>3, <3>4 DEF Keeps, Promised, Accepting, OneRead, BatchSoFar, ListSoFar
  <2>4. CASE req[q].to # "accepted" /\ ~(status[a] = "accepted" /\ req[q].to = "rejected")
    <3>1. /\ status' = [status EXCEPT ![a] = req[q].to] /\ timed' = timed
          /\ GoOnWith(q, req[q].todo \ {a})
          /\ Worsen(Loose, camp = "active" /\ req[q].to \in {"selected", "pending"})
        BY <1>6, <2>4 DEF ReviewItem
    <3>2. camp = "active" => req[q].to \notin {"selected", "pending"}
      <4>1. camp = "active" /\ req[q].to \in {"selected", "pending"} => Loose <= worst'
          BY <1>1, <3>1, WorsenType
      <4>. QED BY <1>1, <4>1
    <3>3. Settled
        BY <2>1, <2>4 DEF Accepting
    <3>4. camp' = "active" => req[q].to = "rejected"
        BY <1>2, <2>1, <2>4, <3>2 DEF Choices
    <3>5. Settled'
        BY <1>1, <2>1, <2>4, <3>1, <3>3, <3>4 DEF Settled
    <3>6. Promised(q)'
      <4>1. PICK r : r = req'[q]
          OBVIOUS
      <4>2. r = NoReview \/ (r.pc = "item" /\ r.to = req[q].to)
        <5>1. \/ r = [req[q] EXCEPT !.pc = "item", !.todo = req[q].todo \ {a},
                                      !.camp = IF req[q].to = "accepted" THEN "active" ELSE @]
              \/ r = NoReview
            BY <1>2, <2>4, <3>1, <4>1, GoOnWithType
        <5>. QED BY <1>2, <5>1 DEF Reviews
      <4>. QED BY <2>4, <4>1, <4>2 DEF NoReview, Promised, OneRead, BatchSoFar, ListSoFar
    <3>. QED BY <3>5, <3>6 DEF Keeps
  <2>. QED BY <2>2, <2>3, <2>4
<1>7. CASE Promote(q)
  <2>1. /\ req[q].pc = "promote" /\ req[q].to = "accepted" /\ GoOnWith(q, req[q].todo)
        /\ UNCHANGED <<status, timed, worst>>
      BY <1>3, <1>7 DEF Promote, BatchSoFar
  <2>2. req[q].ids # {} /\ \A b \in req[q].ids \ req[q].todo : Answered(b)
      BY <1>3, <2>1 DEF BatchSoFar
  <2>3. \A b \in Apps : Answered(b) => Answered(b)'
      BY <2>1 DEF Answered
  <2>4. PICK r : r = req'[q]
      OBVIOUS
  <2>5. \/ /\ req[q].todo # {}
           /\ r.pc = "item" /\ r.ids = req[q].ids /\ r.todo = req[q].todo /\ r.to = "accepted"
        \/ req[q].todo = {} /\ r = NoReview /\ Others(q) = {}
        \/ /\ req[q].todo = {}
           /\ r.pc = "rest" /\ r.ids = req[q].ids /\ r.todo = Others(q) /\ r.to = "accepted"
    <3>1. \/ /\ req[q].todo # {}
             /\ r = [req[q] EXCEPT !.pc = "item", !.todo = req[q].todo,
                                   !.camp = IF req[q].to = "accepted" THEN "active" ELSE @]
          \/ req[q].todo = {} /\ r = NoReview /\ Others(q) = {}
          \/ req[q].todo = {} /\ r = [req[q] EXCEPT !.pc = "rest", !.todo = Others(q)]
        BY <1>2, <2>1, <2>4, GoOnWithType
    <3>. QED BY <1>2, <2>1, <3>1 DEF Reviews
  <2>6. CASE r.pc = "item" /\ r.ids = req[q].ids /\ r.todo = req[q].todo /\ r.to = "accepted"
      BY <1>2, <2>2, <2>3, <2>4, <2>6 DEF Keeps, Promised, Accepting, OneRead, BatchSoFar, ListSoFar
  <2>7. CASE req[q].todo = {} /\ r = NoReview /\ Others(q) = {}
    <3>1. \A b \in Apps : b \in req[q].ids \/ status[b] \in {"none", "rejected"}
        BY <2>7 DEF Others
    <3>2. \A b \in req[q].ids : status[b] = "accepted" /\ b \in timed
        BY <2>2, <2>7 DEF Answered
    <3>3. PICK b \in req[q].ids : TRUE
        BY <2>2
    <3>4. Settled'
        BY <1>2, <2>1, <3>1, <3>2, <3>3 DEF Settled
    <3>5. Promised(q)'
        BY <2>4, <2>7 DEF NoReview, Promised, OneRead, BatchSoFar, ListSoFar
    <3>. QED BY <3>4, <3>5 DEF Keeps
  <2>8. CASE req[q].todo = {} /\ r.pc = "rest" /\ r.ids = req[q].ids /\ r.todo = Others(q) /\ r.to = "accepted"
    <3>1. \A b \in Apps \ (r.ids \cup r.todo) : status'[b] \in {"none", "rejected"}
        BY <2>1, <2>8 DEF Others
    <3>2. \A b \in r.ids : Answered(b)'
        BY <1>2, <2>2, <2>3, <2>8
    <3>3. r.todo \cap r.ids = {} /\ r.ids # {}
        BY <2>2, <2>8 DEF Others
    <3>. QED BY <2>4, <2>8, <3>1, <3>2, <3>3 DEF Keeps, Promised, Accepting, OneRead, BatchSoFar, ListSoFar
  <2>. QED BY <2>5, <2>6, <2>7, <2>8
<1>8. ASSUME NEW a \in Apps, RejectRest(q, a)
      PROVE  Keeps(q)
  <2>1. /\ req[q].pc = "rest" /\ a \in req[q].todo /\ status' = [status EXCEPT ![a] = "rejected"]
        /\ UNCHANGED <<camp, timed, worst>>
      BY <1>8 DEF RejectRest
  <2>2. /\ req[q].to = "accepted" /\ req[q].ids # {} /\ a \notin req[q].ids
        /\ req[q].todo \cap req[q].ids = {}
        /\ \A b \in req[q].ids : Answered(b)
        /\ \A b \in Apps \ (req[q].ids \cup req[q].todo) : status[b] \in {"none", "rejected"} \/ MayWait(b)
      BY <1>3, <2>1 DEF BatchSoFar
  <2>3. \A b \in req[q].ids : status'[b] = "accepted" /\ b \in timed'
      BY <1>1, <1>2, <2>1, <2>2 DEF Answered
  <2>4. \A b \in Apps \ (req[q].ids \cup (req[q].todo \ {a})) :
           status'[b] \in {"none", "rejected"} \/ MayWait(b)'
      BY <1>1, <2>1, <2>2 DEF MayWait
  <2>5. CASE req[q].todo = {a}
    <3>1. \A b \in Apps \ req[q].ids :
             status'[b] \in {"none", "rejected"} \/ (status'[b] = "pending" /\ worst' >= Late)
        BY <2>4, <2>5 DEF MayWait
    <3>2. PICK b \in req[q].ids : TRUE
        BY <2>2
    <3>3. Settled'
        BY <1>1, <1>2, <2>3, <3>1, <3>2 DEF Settled
    <3>4. FinishReview(q)
        BY <1>8, <2>5 DEF RejectRest
    <3>. QED BY <1>4, <3>3, <3>4 DEF Keeps
  <2>6. CASE req[q].todo # {a}
    <3>1. req' = [req EXCEPT ![q].todo = req[q].todo \ {a}]
        BY <1>8, <2>6 DEF RejectRest
    <3>2. req'[q].pc = "rest" /\ req'[q].ids = req[q].ids /\ req'[q].todo = req[q].todo \ {a}
          /\ req'[q].to = "accepted"
        BY <1>1, <1>2, <2>1, <2>2, <3>1 DEF Reviews
    <3>3. BatchSoFar(q)'
        BY <2>2, <2>3, <2>4, <3>2 DEF BatchSoFar, Answered
    <3>. QED BY <3>2, <3>3 DEF Keeps, Promised, Accepting, OneRead, ListSoFar
  <2>. QED BY <2>5, <2>6
<1>9. ASSUME NEW a \in Apps, AcceptSelected(q, a)
      PROVE  Keeps(q)
  <2>1. /\ req[q].pc = "accept" /\ a \in req[q].todo /\ timed' = timed \cup {a}
        /\ \A b \in Apps : b # a => status'[b] = status[b]
        /\ status'[a] = (IF "accepted" = req[q].copy[a] THEN status[a] ELSE "accepted")
      BY <1>9, WriteEffect DEF AcceptSelected, Choices
  <2>2. req' = [req EXCEPT ![q].todo = req[q].todo \ {a},
                           ![q].pc = IF req[q].todo = {a} THEN "decline" ELSE "accept"]
      BY <1>9 DEF AcceptSelected
  <2>3. /\ req'[q].pc = IF req[q].todo = {a} THEN "decline" ELSE "accept"
        /\ req'[q].todo = req[q].todo \ {a} /\ req'[q].copy = req[q].copy
      BY <1>1, <1>2, <2>2 DEF Reviews
  <2>4. req[q].copy[a] \in Chosen /\ req[q].todo \subseteq {b \in Apps : req[q].copy[b] \in Chosen}
      BY <1>3, <2>1 DEF ListSoFar
  <2>5. status'[a] = "accepted" /\ a \in timed'
    <3>1. Answered(a) \/ status[a] = req[q].copy[a]
        BY <1>3, <2>1, <2>4 DEF ListSoFar
    <3>. QED BY <2>1, <3>1 DEF Answered
  <2>6. ListSoFar(q)'
    <3>1. ASSUME NEW b \in Apps, b # a
          PROVE  /\ req[q].copy[b] \in Chosen =>
                      \/ Answered(b)'
                      \/ req'[q].pc = "accept" /\ b \in req'[q].todo /\ status'[b] = req[q].copy[b]
                 /\ req[q].copy[b] = "none" => status'[b] = "none" \/ MayWait(b)'
                 /\ req[q].copy[b] \in {"pending", "rejected"} => status'[b] = req[q].copy[b]
      <4>1. /\ req[q].copy[b] \in Chosen => Answered(b) \/ (b \in req[q].todo /\ status[b] = req[q].copy[b])
            /\ req[q].copy[b] = "none" => status[b] = "none" \/ MayWait(b)
            /\ req[q].copy[b] \in {"pending", "rejected"} => status[b] = req[q].copy[b]
          BY <1>3, <2>1 DEF ListSoFar
      <4>2. Answered(b) => Answered(b)'
          BY <2>1, <3>1 DEF Answered
      <4>3. MayWait(b) => MayWait(b)'
          BY <1>1, <2>1, <3>1 DEF MayWait
      <4>. QED BY <2>1, <2>3, <3>1, <4>1, <4>2, <4>3
    <3>2. \E b \in Apps : req'[q].copy[b] \in Chosen
        BY <2>3, <2>4
    <3>3. req'[q].todo \subseteq {b \in Apps : req'[q].copy[b] \in Chosen}
        BY <2>3, <2>4
    <3>4. \A b \in Apps : b = a => Answered(b)' /\ req'[q].copy[b] \in Chosen
        BY <2>3, <2>4, <2>5 DEF Answered
    <3>5. "pending" \notin Chosen /\ "rejected" \notin Chosen /\ "none" \notin Chosen
        BY DEF Chosen
    <3>. QED BY <2>3, <3>1, <3>2, <3>3, <3>4, <3>5 DEF ListSoFar
  <2>. QED BY <2>3, <2>6 DEF Keeps, Promised, Accepting, OneRead, BatchSoFar
<1>10. ASSUME NEW a \in Apps, DeclineRest(q, a)
       PROVE  Keeps(q)
  <2>1. /\ req[q].pc = "decline" /\ req[q].copy[a] = "pending" /\ UNCHANGED <<camp, timed, worst>>
        /\ \A b \in Apps : b # a => status'[b] = status[b]
        /\ status'[a] = "rejected"
      BY <1>10, WriteEffect DEF DeclineRest, Waiting, Choices
  <2>2. req' = [req EXCEPT ![q].copy[a] = "rejected"]
      BY <1>10 DEF DeclineRest
  <2>3. req'[q].pc = "decline" /\ req'[q].copy = [req[q].copy EXCEPT ![a] = "rejected"]
      BY <1>1, <1>2, <2>1, <2>2 DEF Reviews
  <2>4. ListSoFar(q)'
    <3>1. PICK b \in Apps : req[q].copy[b] \in Chosen
        BY <1>3, <2>1 DEF ListSoFar
    <3>2. \E c \in Apps : req'[q].copy[c] \in Chosen
        BY <1>2, <2>1, <2>3, <3>1 DEF Chosen
    <3>3. \A c \in Apps : /\ req[q].copy[c] \in Chosen => Answered(c)
                          /\ req[q].copy[c] = "none" => status[c] = "none" \/ MayWait(c)
                          /\ req[q].copy[c] \in {"pending", "rejected"} => status[c] = req[q].copy[c]
        BY <1>3, <2>1 DEF ListSoFar
    <3>4. \A c \in Apps : c # a => /\ req'[q].copy[c] = req[q].copy[c] /\ status'[c] = status[c]
                                   /\ Answered(c) => Answered(c)'
                                   /\ MayWait(c) => MayWait(c)'
        BY <1>2, <2>1, <2>3 DEF Answered, MayWait
    <3>5. req'[q].copy[a] = "rejected" /\ "rejected" \notin Chosen
        BY <1>2, <2>3 DEF Chosen
    <3>. QED BY <2>1, <2>3, <3>2, <3>3, <3>4, <3>5 DEF ListSoFar
  <2>. QED BY <2>3, <2>4 DEF Keeps, Promised, Accepting, OneRead, BatchSoFar
<1>11. CASE Activate(q)
  <2>1. req[q].pc = "decline" /\ Waiting(q) = {} /\ FinishReview(q) /\ UNCHANGED <<status, timed, worst>>
      BY <1>11 DEF Activate
  <2>2. PICK b \in Apps : req[q].copy[b] \in Chosen
      BY <1>3, <2>1 DEF ListSoFar
  <2>3. ASSUME NEW c \in Apps
        PROVE  \/ status[c] = "accepted" /\ c \in timed
               \/ status[c] \in {"none", "rejected"}
               \/ status[c] = "pending" /\ worst >= Late
    <3>1. req[q].copy[c] \in Chosen \cup {"none", "rejected"}
        BY <1>2, <2>1 DEF Waiting, AppStatus, Choices, Chosen
    <3>2. CASE req[q].copy[c] \in Chosen
        BY <1>3, <2>1, <3>2 DEF ListSoFar, Answered
    <3>3. CASE req[q].copy[c] = "none"
        BY <1>3, <2>1, <3>3 DEF ListSoFar, MayWait, Chosen
    <3>4. CASE req[q].copy[c] = "rejected"
        BY <1>3, <2>1, <3>4 DEF ListSoFar, Chosen
    <3>. QED BY <3>1, <3>2, <3>3, <3>4
  <2>4. status[b] = "accepted"
      BY <1>3, <2>1, <2>2 DEF ListSoFar, Answered
  <2>5. Settled'
      BY <1>1, <2>1, <2>3, <2>4 DEF Settled
  <2>. QED BY <1>4, <2>1, <2>5 DEF Keeps
<1>12. CASE SaveResume(q)
  <2>1. Worsen(Loose, camp' = "active") /\ FinishReview(q)
      BY <1>12 DEF SaveResume
  <2>2. camp' # "active"
    <3>1. camp' = "active" => Loose <= worst'
        BY <1>1, <2>1, WorsenType
    <3>. QED BY <1>1, <3>1
  <2>. QED BY <1>4, <2>1, <2>2 DEF Keeps, Settled
<1>13. CASE CrashReview(q)
  <2>1. Loose <= worst'
      BY <1>1, <1>13, WorsenType DEF CrashReview
  <2>. QED BY <1>1, <2>1
<1>. QED BY <1>5, <1>6, <1>7, <1>8, <1>9, <1>10, <1>11, <1>12, <1>13 DEF GoOnReviewing

\* While a request decides, nobody else makes an active campaign of this one; and who
\* applies meanwhile has applied late.
LEMMA SettledElsewhere ==
    ASSUME Shapes, Known, NEW a \in Apps, status[a] = "none", CreateApplication(a), NEW q \in Requests,
           Promised(q)
    PROVE  Promised(q)'
<1>1. /\ UNCHANGED <<camp, timed, req, timer>> /\ worst \in Int /\ worst' \in Int /\ Late \in Int
      /\ status'[a] = "pending" /\ \A b \in Apps : b # a => status'[b] = status[b]
      /\ worst <= worst' /\ (Decides(q) => Late <= worst')
  <2>1. worst' \in 0 .. Raced
      BY ShapesStep DEF NextSelection, Shapes
  <2>. QED BY <2>1, CreateEffect DEF Busy, Shapes, Raced, Late
<1>2. CASE ~Decides(q)
    BY <1>1, <1>2, IdleIsPromised DEF Decides, Promised, OneRead, BatchSoFar, ListSoFar
<1>3. CASE Decides(q)
  <2>1. a \notin req[q].ids /\ a \notin req[q].todo /\ req[q].copy[a] = "none"
      BY DEF Known, KnownOf
  <2>2. req[q].ids \subseteq Apps /\ req[q].todo \subseteq Apps
      BY DEF Shapes, Reviews
  <2>3. MayWait(a)' /\ \A b \in Apps : (Answered(b) => Answered(b)') /\ (MayWait(b) => MayWait(b)')
    <3>1. \A b \in Apps : Answered(b) => Answered(b)'
        BY <1>1 DEF Answered
    <3>2. \A b \in Apps : MayWait(b) => MayWait(b)'
        BY <1>1 DEF MayWait
    <3>. QED BY <1>1, <1>3, <3>1, <3>2 DEF MayWait
  <2>4. OneRead(q)'
      BY <1>1, <2>1, <2>2 DEF Promised, OneRead
  <2>5. BatchSoFar(q)'
      BY <1>1, <2>1, <2>2, <2>3 DEF Promised, BatchSoFar
  <2>6. ListSoFar(q)'
    <3>1. SUFFICES ASSUME req[q].pc \in {"accept", "decline"}
                   PROVE  \A b \in Apps :
                            /\ req[q].copy[b] \in Chosen =>
                                 \/ Answered(b)'
                                 \/ req[q].pc = "accept" /\ b \in req[q].todo /\ status'[b] = req[q].copy[b]
                            /\ req[q].copy[b] = "none" => status'[b] = "none" \/ MayWait(b)'
                            /\ req[q].copy[b] \in {"pending", "rejected"} => status'[b] = req[q].copy[b]
        BY <1>1 DEF Promised, ListSoFar
    <3>2. "none" \notin Chosen
        BY DEF Chosen
    <3>. QED BY <1>1, <2>1, <2>3, <3>1, <3>2 DEF Promised, ListSoFar
  <2>. QED BY <2>4, <2>5, <2>6 DEF Promised
<1>. QED BY <1>2, <1>3

LEMMA SettledStep == Sound /\ SettledInv /\ [NextSelection]_selectionVars => SettledInv'
<1>. SUFFICES ASSUME Sound, SettledInv, [NextSelection]_selectionVars, worst' < Loose
              PROVE  /\ (\A q \in Requests : ~Accepting(q)') => Settled'
                     /\ \A q \in Requests : Promised(q)'
    BY DEF SettledInv
<1>1. /\ Sound' /\ Shapes /\ Shapes' /\ Known /\ worst \in Int /\ worst' \in Int
      /\ Loose \in Int /\ Raced \in Int /\ Loose < Raced /\ Late \in Int
  <2>1. Sound' /\ Shapes /\ Shapes' /\ Known
      BY SoundStep, ShapesStep, TypeIs DEF Sound
  <2>. QED BY <2>1 DEF Shapes, Raced, Loose, Late
<1>2. \A a \in applying : status[a] = "none"
    BY TypeIs DEF Sound
<1>3. ASSUME NEW q \in Requests, \A p \in Requests : p # q => ~Decides(p)', Keeps(q)
      PROVE  /\ (\A p \in Requests : ~Accepting(p)') => Settled'
             /\ \A p \in Requests : Promised(p)'
  <2>1. \A p \in Requests : p # q => Promised(p)'
      BY <1>3 DEF Decides, Promised, OneRead, BatchSoFar, ListSoFar
  <2>. QED BY <1>3, <2>1 DEF Keeps
<1>4. ASSUME NEW q \in Requests, Requested(q) \/ BeginResume(q)
      PROVE  /\ (\A p \in Requests : ~Accepting(p)') => Settled'
             /\ \A p \in Requests : Promised(p)'
  <2>1. PICK r \in Reviews : BeginReviewing(q, r)
      BY <1>1, <1>4, BeginsKnown DEF Known
  <2>2. worst <= worst' /\ (Busy => Raced <= worst') /\ \A p \in Requests : p # q => req'[p] = req[p]
      BY <1>1, <2>1, BeginsEffect
  <2>3. worst < Loose /\ ~Busy
      BY <1>1, <2>2
  <2>4. Settled
      BY <2>3, IdleIsPromised DEF SettledInv, Busy
  <2>5. \A p \in Requests : p # q => ~Decides(p)'
      BY <2>2, <2>3 DEF Busy, Decides
  <2>. QED BY <1>1, <1>3, <1>4, <2>4, <2>5, SettledBegins
<1>5. ASSUME NEW q \in Requests, GoOnReviewing(q)
      PROVE  /\ (\A p \in Requests : ~Accepting(p)') => Settled'
             /\ \A p \in Requests : Promised(p)'
  <2>1. GoesOn(q) /\ worst < Loose /\ worst < Raced
      BY <1>1, <1>5, GoOnEffect DEF GoesOn
  <2>2. \A p \in Requests : p # q => ~Decides(p) /\ req'[p] = req[p]
      BY <2>1 DEF Sound, OneDecides, GoesOn
  <2>3. Promised(q) /\ (~Accepting(q) => Settled)
      BY <2>1, <2>2, IdleIsPromised DEF SettledInv
  <2>4. \A p \in Requests : p # q => ~Decides(p)'
      BY <2>2 DEF Decides
  <2>. QED BY <1>1, <1>3, <1>5, <2>3, <2>4, SettledGoesOn
<1>6. ASSUME NEW a \in Apps, CreateApplication(a)
      PROVE  /\ (\A p \in Requests : ~Accepting(p)') => Settled'
             /\ \A p \in Requests : Promised(p)'
  <2>1. /\ a \in applying /\ UNCHANGED <<camp, timed, req>>
        /\ status'[a] = "pending" /\ \A b \in Apps : b # a => status'[b] = status[b]
        /\ worst <= worst' /\ (camp # "live" \/ Busy => Late <= worst')
      BY <1>1, <1>6, CreateEffect
  <2>2. worst < Loose /\ status[a] = "none" /\ (worst' < Late => worst < Late)
      BY <1>1, <1>2, <2>1
  <2>3. \A p \in Requests : Promised(p)'
      BY <1>1, <1>6, <2>2, SettledElsewhere DEF SettledInv
  <2>4. Settled => Settled'
    <3>1. camp' = "active" => camp # "live" /\ Late <= worst'
        BY <2>1
    <3>2. camp' = "active" => ~(worst' < Late)
        BY <1>1, <3>1
    <3>. QED BY <1>1, <2>1, <2>2, <3>2 DEF Settled
  <2>5. \A p \in Requests : Accepting(p)' <=> Accepting(p)
      BY <2>1 DEF Accepting
  <2>. QED BY <2>2, <2>3, <2>4, <2>5 DEF SettledInv
<1>7. CASE Elsewhere
  <2>1. UNCHANGED <<status, timed, req, worst>> /\ (camp' = "active" => camp = "active")
      BY <1>1, <1>7, ElsewhereEffect
  <2>2. \A p \in Requests : Promised(p) => Promised(p)'
    <3>1. \A p \in Requests : OneRead(p) => OneRead(p)'
        BY <2>1 DEF OneRead
    <3>2. \A p \in Requests : BatchSoFar(p) => BatchSoFar(p)'
        BY <2>1 DEF BatchSoFar, Answered, MayWait
    <3>3. \A p \in Requests : ListSoFar(p) => ListSoFar(p)'
        BY <2>1 DEF ListSoFar, Answered, MayWait
    <3>. QED BY <3>1, <3>2, <3>3 DEF Promised
  <2>3. (Settled => Settled') /\ \A p \in Requests : Accepting(p)' <=> Accepting(p)
      BY <2>1 DEF Settled, Accepting
  <2>. QED BY <2>1, <2>2, <2>3 DEF SettledInv
<1>. QED BY <1>4, <1>5, <1>6, <1>7, Cases

\* An active campaign that no request is deciding on has an accepted creator, a timeline for
\* every accepted creator and nobody who waits for an answer: neither the batch that promotes
\* the campaign after its first acceptance nor activateCampaign, which goes by a list, leaves
\* one behind.
THEOREM ActiveCampaignsAreSettled == SpecSelection => []ActiveIsSettled
<1>1. Sound /\ SettledInv => ActiveIsSettled
  <2>1. SUFFICES ASSUME Sound, SettledInv, camp = "active", ~Busy, worst < Loose
                 PROVE  /\ \E a \in Apps : status[a] = "accepted"
                        /\ \A a \in Apps : status[a] = "accepted" => a \in timed
                        /\ worst < Late => \A a \in Apps : status[a] \notin {"pending", "selected"}
      BY DEF ActiveIsSettled
  <2>2. Settled
      BY <2>1, IdleIsPromised DEF SettledInv, Busy
  <2>. QED BY <2>1, <2>2 DEF Settled
<1>. QED BY <1>1, SoundStart, SoundStep, SettledStart, SettledStep, PTL DEF SpecSelection

-----------------------------------------------------------------------------
(* Deals: what is inductive.                                               *)

At(q, b) == chore[q].pc # "idle" /\ chore[q].b = b

\* A request at work on a submission has its number.
ChoreOK ==
    \A q \in Dealers : chore[q].pc # "idle" =>
        /\ chore[q].i <= Len(sub[chore[q].b])
        /\ chore[q].pc # "draft" => chore[q].i > 0

\* A rejection raises its dispute first, gives its strike next and is saved last.
Rejecting ==
    \A q \in Dealers :
        /\ chore[q].pc \in {"raise", "strike"} => chore[q].to = "rejected"
        /\ chore[q].pc = "strike" => case[chore[q].b] > 0
        /\ chore[q].pc = "vet" /\ chore[q].to = "rejected" =>
             case[chore[q].b] > 0 /\ chore[q].b \in strikes \cup lost

\* As long as one request at a time is at work on a deal, the submission is as it read it.
AsRead(q) ==
    LET m == chore[q]
        s == sub[m.b]
    IN  /\ m.pc = "draft" => m.i = Len(s) /\ (m.i > 0 => s[m.i].status = "request_revision")
        /\ m.pc \in {"raise", "strike", "vet"} => MayVet(s[m.i].status, m.to)
        /\ m.pc = "post" => MayPost(s[m.i].status)
        /\ m.pc = "approve" => s[m.i].status = "livelink_available"
        /\ m.pc = "release" => s[m.i].status = "done"

\* A deal that no two requests met over: one submission, revised once at most and not
\* before its first review; paid once, when it is done and nobody is at work on it.
OneHand(b) ==
    /\ \A q, r \in Dealers : At(q, b) /\ At(r, b) => q = r
    /\ \A q \in Dealers : At(q, b) => AsRead(q)

OneRevision(b) ==
    /\ Len(sub[b]) <= 1
    /\ \A i \in DOMAIN sub[b] : /\ sub[b][i].asked <= 1
                                /\ sub[b][i].status = "pending_approval" => sub[b][i].asked = 0

PaidWhenDone(b) ==
    /\ rewards[b] <= 1
    /\ rewards[b] > 0 => /\ Len(sub[b]) = 1 /\ sub[b][1].status = "done"
                         /\ \A q \in Dealers : ~At(q, b)

Single == \A b \in Brands \ doubled : OneHand(b) /\ OneRevision(b) /\ PaidWhenDone(b)

\* What every step but the block of a creator is about.
Core == DealsTypeOK /\ ChoreOK /\ Rejecting /\ Single /\ RejectionIsComplete

-----------------------------------------------------------------------------
(* Types.                                                                  *)

Lines == [Stages -> StageStatus]

LEMMA NobodyTypes == NoUser \in User /\ NoChore \in ChoreRec /\ NoSweep \in SweepRec
<1>1. AnyBrand \in Brands
    BY DealBounds DEF AnyBrand
<1>2. NoUser \in User
    BY DEF NoUser, User
<1>. QED BY <1>1, <1>2 DEF NoChore, ChoreRec, NoSweep, SweepRec, Verdicts

LEMMA LineTypes ==
    /\ \A b \in Brands : FirstLine(b) \in Lines
    /\ DefaultLine \in Lines
    /\ \A l \in Lines, stage \in Nat : Sent(l, stage) \in Lines
    /\ \A l \in Lines, decision \in Verdicts : Vetted(l, decision) \in Lines
    /\ \A l \in Lines : Posted(l) \in Lines /\ Accepted(l) \in Lines
<1>1. \A stage, skipped : Started(stage, skipped) \in Lines
    BY DEF Started, Lines, StageStatus
<1>2. \A l \in Lines, stage \in Nat : Sent(l, stage) \in Lines
    BY DEF Sent, Lines, StageStatus, Stages
<1>3. \A l \in Lines, decision \in Verdicts : Vetted(l, decision) \in Lines
    BY DEF Vetted, Lines, StageStatus, Stages
<1>4. \A l \in Lines : Posted(l) \in Lines /\ Accepted(l) \in Lines
    BY DEF Posted, Accepted, Lines, StageStatus, Stages
<1>. QED BY <1>1, <1>2, <1>3, <1>4 DEF FirstLine, DefaultLine

LEMMA SaveLineType ==
    ASSUME DealsTypeOK, NEW b \in Brands, NEW new \in Lines, SaveLine(b, new)
    PROVE  line' \in [Brands -> Lines \cup {NoLine}]
BY DEF DealsTypeOK, SaveLine, Lines

LEMMA CurrentType == ASSUME DealsTypeOK, NEW b \in Brands PROVE Current(b) \in Lines
BY LineTypes DEF DealsTypeOK, Current, Lines

\* What SetSub makes of the submissions: one record of one list is replaced.
LEMMA SetSubEffect ==
    ASSUME DealsTypeOK, NEW b \in Brands, NEW i \in DOMAIN sub[b], NEW value \in SubStatus,
           SetSub(b, i, value)
    PROVE  /\ sub' \in [Brands -> Seq(SubRec)]
           /\ \A c \in Brands : c # b => sub'[c] = sub[c]
           /\ Len(sub'[b]) = Len(sub[b])
           /\ \A j \in DOMAIN sub[b] : j # i => sub'[b][j] = sub[b][j]
           /\ sub'[b][i].status = value
           /\ sub'[b][i].asked =
                sub[b][i].asked + (IF value = "request_revision" THEN 1 ELSE 0)
<1> DEFINE r == [status |-> value,
                 asked |-> sub[b][i].asked + (IF value = "request_revision" THEN 1 ELSE 0)]
           new == [sub[b] EXCEPT ![i] = r]
<1>1. sub[b] \in Seq(SubRec) /\ i \in 1 .. Len(sub[b])
    BY DEF DealsTypeOK
<1>2. r \in SubRec
  <2>1. sub[b][i] \in SubRec
      BY <1>1
  <2>2. sub[b][i].asked \in Nat
      BY <2>1 DEF SubRec
  <2>. QED BY <2>2 DEF SubRec
<1>3. new \in Seq(SubRec) /\ Len(new) = Len(sub[b])
    BY <1>1, <1>2, ExceptSeq
<1>4. sub' = [sub EXCEPT ![b] = new]
    BY DEF SetSub
<1>5. new[i] = r /\ \A j \in DOMAIN sub[b] : j # i => new[j] = sub[b][j]
    BY <1>1
<1>. HIDE DEF new
<1>6. sub' \in [Brands -> Seq(SubRec)] /\ sub'[b] = new
      /\ \A c \in Brands : c # b => sub'[c] = sub[c]
    BY <1>3, <1>4 DEF DealsTypeOK
<1>. QED BY <1>3, <1>5, <1>6

\* And what another submission does.
LEMMA AppendEffect ==
    ASSUME DealsTypeOK, NEW b \in Brands, NEW value \in SubStatus,
           sub' = [sub EXCEPT ![b] = Append(@, New(value))]
    PROVE  /\ sub' \in [Brands -> Seq(SubRec)]
           /\ \A c \in Brands : c # b => sub'[c] = sub[c]
           /\ Len(sub'[b]) = Len(sub[b]) + 1
           /\ \A j \in DOMAIN sub[b] : sub'[b][j] = sub[b][j]
           /\ sub'[b][Len(sub[b]) + 1] = New(value)
           /\ \A c \in Brands : Len(sub'[c]) >= Len(sub[c])
<1>1. sub[b] \in Seq(SubRec) /\ \A c \in Brands : Len(sub[c]) \in Nat
    BY DEF DealsTypeOK
<1>2. New(value) \in SubRec
    BY DEF New, SubRec
<1> DEFINE new == Append(sub[b], New(value))
<1>3. new \in Seq(SubRec) /\ Len(new) = Len(sub[b]) + 1 /\ new[Len(sub[b]) + 1] = New(value)
      /\ \A j \in DOMAIN sub[b] : new[j] = sub[b][j]
    BY <1>1, <1>2, AppendProperties
<1>. HIDE DEF new
<1>4. sub' = [sub EXCEPT ![b] = new]
    BY DEF new
<1>5. /\ sub' \in [Brands -> Seq(SubRec)] /\ sub'[b] = new
      /\ \A c \in Brands : c # b => sub'[c] = sub[c]
    BY <1>3, <1>4 DEF DealsTypeOK
<1>6. \A c \in Brands : Len(sub'[c]) >= Len(sub[c])
    BY <1>1, <1>3, <1>5
<1>. QED BY <1>3, <1>5, <1>6

\* creator.save() leaves strikes and history sets of brands.
LEMMA SaveCreatorType ==
    ASSUME DealsTypeOK, NEW user \in User, NEW b \in Brands, SaveCreator(user, b)
    PROVE  /\ strikes' \subseteq Brands /\ active' \in BOOLEAN
           /\ lost' \subseteq Brands /\ spared' \in BOOLEAN
BY DEF DealsTypeOK, SaveCreator, User

-----------------------------------------------------------------------------
(* One step of request q, for brand b, after which it is as m says.        *)

Turn(q, b, m) ==
    /\ chore' = [chore EXCEPT ![q] = m]
    /\ chore[q].pc # "idle" => chore[q].b = b
    /\ m.pc # "idle" => m.b = b

\* Disputes, and strikes that are or were there, are never taken back.
Onward ==
    /\ \A b \in Brands : Len(sub'[b]) >= Len(sub[b]) /\ case'[b] >= case[b]
    /\ strikes \cup lost \subseteq (strikes \cup lost)'

\* The other requests know what they knew.
LEMMA OthersKeep ==
    ASSUME DealsTypeOK, DealsTypeOK', ChoreOK, Rejecting, Onward,
           NEW q \in Dealers, NEW b \in Brands, NEW m \in ChoreRec, Turn(q, b, m),
           m.pc # "idle" => m.i <= Len(sub'[b]) /\ (m.pc # "draft" => m.i > 0),
           m.pc \in {"raise", "strike"} => m.to = "rejected",
           m.pc = "strike" => case'[b] > 0,
           m.pc = "vet" /\ m.to = "rejected" => case'[b] > 0 /\ b \in (strikes \cup lost)'
    PROVE  ChoreOK' /\ Rejecting'
<1>1. chore'[q] = m /\ \A r \in Dealers : r # q => chore'[r] = chore[r]
    BY DEF Turn, DealsTypeOK
<1>2. \A r \in Dealers : chore[r].b \in Brands /\ chore[r].i \in Nat
    BY DEF DealsTypeOK, ChoreRec
<1>3. \A c \in Brands : /\ Len(sub[c]) \in Nat /\ Len(sub'[c]) \in Nat
                        /\ case[c] \in Nat /\ case'[c] \in Nat
    BY DEF DealsTypeOK
<1>4. ChoreOK'
  <2>. SUFFICES ASSUME NEW r \in Dealers, chore'[r].pc # "idle"
                PROVE  /\ chore'[r].i <= Len(sub'[chore'[r].b])
                       /\ chore'[r].pc # "draft" => chore'[r].i > 0
      BY DEF ChoreOK
  <2>1. CASE r = q
      BY <1>1, <2>1 DEF Turn
  <2>2. CASE r # q
      BY <1>1, <1>2, <1>3, <2>2 DEF ChoreOK, Onward
  <2>. QED BY <2>1, <2>2
<1>5. Rejecting'
  <2>. SUFFICES ASSUME NEW r \in Dealers
                PROVE  /\ chore'[r].pc \in {"raise", "strike"} => chore'[r].to = "rejected"
                       /\ chore'[r].pc = "strike" => case'[chore'[r].b] > 0
                       /\ chore'[r].pc = "vet" /\ chore'[r].to = "rejected" =>
                            case'[chore'[r].b] > 0 /\ chore'[r].b \in (strikes \cup lost)'
      BY DEF Rejecting
  <2>1. CASE r = q
      BY <1>1, <2>1 DEF Turn
  <2>2. CASE r # q
      BY <1>1, <1>2, <1>3, <2>2 DEF Rejecting, Onward
  <2>. QED BY <2>1, <2>2
<1>. QED BY <1>4, <1>5

\* Nor does the step touch the deals of other brands.
LEMMA ElsewhereKeeps ==
    ASSUME DealsTypeOK, Single, NEW q \in Dealers, NEW b \in Brands, NEW m \in ChoreRec,
           Turn(q, b, m), doubled \subseteq doubled',
           \A c \in Brands : c # b => sub'[c] = sub[c] /\ rewards'[c] = rewards[c]
    PROVE  \A c \in Brands \ doubled' :
               c # b => OneHand(c)' /\ OneRevision(c)' /\ PaidWhenDone(c)'
<1>. SUFFICES ASSUME NEW c \in Brands \ doubled', c # b
              PROVE  OneHand(c)' /\ OneRevision(c)' /\ PaidWhenDone(c)'
    OBVIOUS
<1>1. OneHand(c) /\ OneRevision(c) /\ PaidWhenDone(c)
    BY DEF Single
<1>2. chore'[q] = m /\ \A r \in Dealers : r # q => chore'[r] = chore[r]
    BY DEF Turn, DealsTypeOK
<1>3. \A r \in Dealers : At(r, c)' => r # q /\ At(r, c) /\ chore'[r] = chore[r]
    BY <1>2 DEF At, Turn
<1>4. sub'[c] = sub[c] /\ rewards'[c] = rewards[c]
    OBVIOUS
<1>5. \A r \in Dealers : At(r, c)' => AsRead(r)'
  <2>. SUFFICES ASSUME NEW r \in Dealers, At(r, c)'
                PROVE  AsRead(r)'
      OBVIOUS
  <2>1. AsRead(r) /\ chore'[r] = chore[r] /\ chore[r].b = c
      BY <1>1, <1>3 DEF OneHand, At
  <2>. QED BY <1>4, <2>1 DEF AsRead, MayVet, MayPost
<1>6. OneHand(c)'
    BY <1>1, <1>3, <1>5 DEF OneHand
<1>7. OneRevision(c)'
    BY <1>1, <1>4 DEF OneRevision
<1>8. PaidWhenDone(c)'
    BY <1>1, <1>3, <1>4 DEF PaidWhenDone
<1>. QED BY <1>6, <1>7, <1>8

\* And nobody else is at work on b, if it is a deal of one hand.
LEMMA OneHandKeeps ==
    ASSUME DealsTypeOK, NEW q \in Dealers, NEW b \in Brands, NEW m \in ChoreRec,
           Turn(q, b, m), \A r \in Dealers : At(r, b) => r = q,
           m.pc # "idle" => AsRead(q)'
    PROVE  OneHand(b)' /\ \A r \in Dealers : At(r, b)' => r = q /\ m.pc # "idle"
<1>1. chore'[q] = m /\ \A r \in Dealers : r # q => chore'[r] = chore[r]
    BY DEF Turn, DealsTypeOK
<1>2. \A r \in Dealers : At(r, b)' => r = q /\ m.pc # "idle"
    BY <1>1 DEF At
<1>. QED BY <1>2 DEF OneHand

-----------------------------------------------------------------------------
(* The steps.                                                              *)

\* A request that begins at a deal which waits for it.
LEMMA BeginKeeps ==
    ASSUME Core, NEW q \in Dealers, NEW b \in Brands, NEW m \in ChoreRec, BeginDeal(q, b, m),
           m.b = b, m.pc \in {"draft", "raise", "vet", "post", "approve"},
           m.i <= Len(sub[b]), m.pc # "draft" => m.i > 0,
           m.pc = "raise" => m.to = "rejected", m.pc = "vet" => m.to # "rejected",
           AsRead(q)'
    PROVE  Core'
<1>. USE DEF Core
<1>1. Turn(q, b, m)
    BY DEF BeginDeal, Turn
<1>2. DealsTypeOK'
    BY DEF BeginDeal, DealsTypeOK, rest, creator, staff
<1>3. Onward
    BY DEF BeginDeal, Onward, DealsTypeOK, rest, creator
<1>4. UNCHANGED <<sub, case, rewards, strikes, lost>>
    BY DEF BeginDeal, rest, creator
<1>5. ChoreOK' /\ Rejecting'
    BY <1>1, <1>2, <1>3, <1>4, OthersKeep
<1>6. \A c \in Brands \ doubled' :
          c # b => OneHand(c)' /\ OneRevision(c)' /\ PaidWhenDone(c)'
    BY <1>1, <1>4, ElsewhereKeeps DEF BeginDeal
<1>7. ASSUME b \notin doubled'
      PROVE  OneHand(b)' /\ OneRevision(b)' /\ PaidWhenDone(b)'
  <2>1. b \notin doubled /\ \A r \in Dealers : ~At(r, b)
      BY <1>7 DEF BeginDeal, AtWork, At
  <2>2. OneHand(b) /\ OneRevision(b) /\ PaidWhenDone(b)
      BY <2>1 DEF Single
  <2>3. OneHand(b)'
      BY <1>1, <2>1, OneHandKeeps
  <2>4. OneRevision(b)'
      BY <1>4, <2>2 DEF OneRevision
  <2>5. rewards[b] = 0
    <3>1. SUFFICES ASSUME rewards[b] > 0
                   PROVE  FALSE
        BY DEF DealsTypeOK
    <3>2. Len(sub[b]) = 1 /\ sub[b][1].status = "done"
        BY <2>2, <3>1 DEF PaidWhenDone
    <3>3. chore'[q] = m
        BY <1>1 DEF Turn, DealsTypeOK
    <3>4. m.i \in Nat
        BY DEF ChoreRec
    <3>5. m.i \in {0, 1} /\ (m.pc # "draft" => m.i = 1)
        BY <3>2, <3>4
    <3>. QED BY <1>4, <3>2, <3>3, <3>5 DEF AsRead, MayVet, MayPost
  <2>6. PaidWhenDone(b)'
      BY <1>4, <2>5 DEF PaidWhenDone
  <2>. QED BY <2>3, <2>4, <2>6
<1>8. Single'
    BY <1>6, <1>7 DEF Single
<1>9. RejectionIsComplete'
    BY <1>4 DEF RejectionIsComplete
<1>. QED BY <1>2, <1>5, <1>8, <1>9

LEMMA BeginDraftKeeps ==
    ASSUME Core, NEW q \in Dealers, NEW b \in Brands, BeginDraft(q, b)
    PROVE  Core'
<1> DEFINE m == [NoChore EXCEPT !.pc = "draft", !.b = b, !.i = Len(sub[b])]
<1>1. sub[b] \in Seq(SubRec) /\ Len(sub[b]) \in Nat
    BY DEF Core, DealsTypeOK
<1>2. m \in ChoreRec /\ m.pc = "draft" /\ m.b = b /\ m.i = Len(sub[b])
    BY <1>1, NobodyTypes DEF ChoreRec, NoChore
<1>. HIDE DEF m
<1>3. BeginDeal(q, b, m) /\ (Len(sub[b]) > 0 => sub[b][Len(sub[b])].status = "request_revision")
    BY DEF BeginDraft, m
<1>4. chore'[q] = m /\ sub' = sub
    BY <1>3 DEF BeginDeal, Core, DealsTypeOK
<1>5. AsRead(q)'
    BY <1>2, <1>3, <1>4 DEF AsRead
<1>. QED BY <1>1, <1>2, <1>3, <1>5, BeginKeeps

\* The three handlers that are given a submission.
LEMMA OnSubmissionKeeps ==
    ASSUME Core, NEW q \in Dealers, NEW b \in Brands, NEW i \in DOMAIN sub[b],
           OnSubmission(q, b, i)
    PROVE  Core'
<1>1. sub[b] \in Seq(SubRec) /\ i \in Nat /\ i > 0 /\ i <= Len(sub[b])
    BY DEF Core, DealsTypeOK
<1>2. CASE BeginPost(q, b, i)
  <2> DEFINE m == [NoChore EXCEPT !.pc = "post", !.b = b, !.i = i]
  <2>1. m \in ChoreRec /\ m.pc = "post" /\ m.b = b /\ m.i = i
      BY <1>1, NobodyTypes DEF ChoreRec, NoChore
  <2>. HIDE DEF m
  <2>2. BeginDeal(q, b, m) /\ MayPost(sub[b][i].status)
      BY <1>2 DEF BeginPost, m
  <2>3. chore'[q] = m /\ sub' = sub
      BY <2>2 DEF BeginDeal, Core, DealsTypeOK
  <2>4. AsRead(q)'
      BY <2>1, <2>2, <2>3 DEF AsRead
  <2>. QED BY <1>1, <2>1, <2>2, <2>4, BeginKeeps
<1>3. CASE BeginApproval(q, b, i)
  <2> DEFINE m == [NoChore EXCEPT !.pc = "approve", !.b = b, !.i = i]
  <2>1. m \in ChoreRec /\ m.pc = "approve" /\ m.b = b /\ m.i = i
      BY <1>1, NobodyTypes DEF ChoreRec, NoChore
  <2>. HIDE DEF m
  <2>2. BeginDeal(q, b, m) /\ sub[b][i].status = "livelink_available"
      BY <1>3 DEF BeginApproval, m
  <2>3. chore'[q] = m /\ sub' = sub
      BY <2>2 DEF BeginDeal, Core, DealsTypeOK
  <2>4. AsRead(q)'
      BY <2>1, <2>2, <2>3 DEF AsRead
  <2>. QED BY <1>1, <2>1, <2>2, <2>4, BeginKeeps
<1>4. ASSUME NEW d \in Verdicts, BeginVet(q, b, i, d)
      PROVE  Core'
  <2> DEFINE m == [NoChore EXCEPT !.pc = IF d = "rejected" THEN "raise" ELSE "vet",
                                  !.b = b, !.i = i, !.to = d]
  <2>1. m \in ChoreRec /\ m.pc = (IF d = "rejected" THEN "raise" ELSE "vet")
        /\ m.b = b /\ m.i = i /\ m.to = d
      BY <1>1, NobodyTypes DEF ChoreRec, NoChore
  <2>. HIDE DEF m
  <2>2. BeginDeal(q, b, m) /\ MayVet(sub[b][i].status, d)
      BY <1>4 DEF BeginVet, m
  <2>3. chore'[q] = m /\ sub' = sub
      BY <2>2 DEF BeginDeal, Core, DealsTypeOK
  <2>4. AsRead(q)'
      BY <2>1, <2>2, <2>3 DEF AsRead
  <2>. QED BY <1>1, <2>1, <2>2, <2>4, BeginKeeps
<1>. QED BY <1>2, <1>3, <1>4 DEF OnSubmission

\* A submission of an amplified campaign; the first is the only one of a single hand.
LEMMA BeginAmplifiedKeeps ==
    ASSUME Core, NEW q \in Dealers, NEW b \in Brands, BeginAmplified(q, b)
    PROVE  Core'
<1> DEFINE m == [NoChore EXCEPT !.pc = "post", !.b = b, !.i = Len(sub[b]) + 1]
<1>0. DealsTypeOK /\ ChoreOK /\ Rejecting /\ Single /\ RejectionIsComplete
    BY DEF Core
<1>1. sub[b] \in Seq(SubRec) /\ Len(sub[b]) \in Nat /\ Len(sub[b]) + 1 \in Nat
    BY <1>0 DEF DealsTypeOK
<1>2. m \in ChoreRec /\ m.pc = "post" /\ m.b = b /\ m.i = Len(sub[b]) + 1
    BY <1>1, NobodyTypes DEF ChoreRec, NoChore
<1>3. Turn(q, b, m)
    BY <1>2 DEF BeginAmplified, Turn
<1>. HIDE DEF m
<1>4. /\ sub' \in [Brands -> Seq(SubRec)]
      /\ \A c \in Brands : c # b => sub'[c] = sub[c]
      /\ Len(sub'[b]) = Len(sub[b]) + 1
      /\ \A j \in DOMAIN sub[b] : sub'[b][j] = sub[b][j]
      /\ sub'[b][Len(sub[b]) + 1] = [status |-> "approved", asked |-> 0]
    BY <1>0, AppendEffect DEF BeginAmplified, New, SubStatus
<1>5. UNCHANGED <<case, rewards, strikes, lost>> /\ doubled \subseteq doubled'
    BY DEF BeginAmplified, rest, creator
<1>6. DealsTypeOK'
  <2>1. chore' \in [Dealers -> ChoreRec]
      BY <1>0, <1>2, <1>3 DEF Turn, DealsTypeOK
  <2>2. doubled' \subseteq Brands
      BY <1>0 DEF BeginAmplified, DealsTypeOK
  <2>. QED BY <1>0, <1>4, <2>1, <2>2 DEF BeginAmplified, DealsTypeOK, rest, creator, staff
<1>7. Onward
  <2>1. \A c \in Brands : Len(sub'[c]) >= Len(sub[c])
    <3>1. \A c \in Brands : Len(sub[c]) \in Nat
        BY <1>0 DEF DealsTypeOK
    <3>. QED BY <1>4, <3>1
  <2>. QED BY <1>0, <1>5, <2>1 DEF Onward, DealsTypeOK
<1>8. ChoreOK' /\ Rejecting'
    BY <1>0, <1>1, <1>2, <1>3, <1>4, <1>6, <1>7, OthersKeep
<1>9. \A c \in Brands \ doubled' :
          c # b => OneHand(c)' /\ OneRevision(c)' /\ PaidWhenDone(c)'
    BY <1>0, <1>2, <1>3, <1>4, <1>5, ElsewhereKeeps
<1>10. ASSUME b \notin doubled'
       PROVE  OneHand(b)' /\ OneRevision(b)' /\ PaidWhenDone(b)'
  <2>1. b \notin doubled /\ (\A r \in Dealers : ~At(r, b)) /\ Len(sub[b]) = 0
      BY <1>10 DEF BeginAmplified, AtWork, At
  <2>2. PaidWhenDone(b)
      BY <1>0, <2>1 DEF Single
  <2>3. chore'[q] = m
      BY <1>0, <1>3 DEF Turn, DealsTypeOK
  <2>4. AsRead(q)'
      BY <1>2, <1>4, <2>1, <2>3 DEF AsRead, MayPost
  <2>5. OneHand(b)'
      BY <1>0, <1>2, <1>3, <2>1, <2>4, OneHandKeeps
  <2>6. OneRevision(b)'
    <3>1. DOMAIN sub'[b] = {1}
        BY <1>4, <2>1
    <3>. QED BY <1>4, <2>1, <3>1 DEF OneRevision
  <2>7. PaidWhenDone(b)'
      BY <1>0, <1>5, <2>1, <2>2 DEF PaidWhenDone, DealsTypeOK
  <2>. QED BY <2>5, <2>6, <2>7
<1>11. Single'
    BY <1>9, <1>10 DEF Single
<1>12. RejectionIsComplete'
  <2>. SUFFICES ASSUME NEW c \in Brands, NEW j \in DOMAIN sub'[c],
                       sub'[c][j].status = "disputeraised"
                PROVE  j \in DOMAIN sub[c] /\ sub[c][j].status = "disputeraised"
      BY <1>0, <1>5 DEF RejectionIsComplete
  <2>1. CASE c = b
    <3>1. j # Len(sub[b]) + 1
        BY <1>4, <2>1
    <3>2. j \in DOMAIN sub[b]
        BY <1>1, <1>4, <2>1, <3>1
    <3>. QED BY <1>4, <2>1, <3>2
  <2>2. CASE c # b
      BY <1>4, <2>2
  <2>. QED BY <2>1, <2>2
<1>. QED BY <1>6, <1>8, <1>11, <1>12 DEF Core

\* A request that saves its submission, and is done or has a release to create.
LEMMA SaveKeeps ==
    ASSUME Core, NEW q \in Dealers, NEW value \in SubStatus, NEW new \in Lines,
           NEW m \in ChoreRec, NEW b, NEW i, b = chore[q].b, i = chore[q].i,
           chore[q].pc # "idle", i > 0,
           SetSub(b, i, value), SaveLine(b, new), Turn(q, b, m),
           UNCHANGED <<case, rewards, doubled, rest>>,
           m.pc \in {"idle", "release"},
           m.pc = "release" => m.i = i /\ value = "done",
           value # "pending_approval",
           value = "request_revision" /\ b \notin doubled => sub[b][i].status = "pending_approval",
           value = "disputeraised" => chore[q].pc = "vet" /\ chore[q].to = "rejected"
    PROVE  Core'
<1>0. DealsTypeOK /\ ChoreOK /\ Rejecting /\ Single /\ RejectionIsComplete
    BY DEF Core
<1>1. b \in Brands /\ i \in Nat /\ sub[b] \in Seq(SubRec) /\ i \in DOMAIN sub[b]
  <2>1. chore[q] \in ChoreRec
      BY <1>0 DEF DealsTypeOK
  <2>2. b \in Brands /\ i \in Nat
      BY <2>1 DEF ChoreRec
  <2>3. i <= Len(sub[b])
      BY <1>0 DEF ChoreOK
  <2>4. sub[b] \in Seq(SubRec)
      BY <1>0, <2>2 DEF DealsTypeOK
  <2>. QED BY <2>2, <2>3, <2>4
<1>2. /\ sub' \in [Brands -> Seq(SubRec)]
      /\ \A c \in Brands : c # b => sub'[c] = sub[c]
      /\ Len(sub'[b]) = Len(sub[b])
      /\ \A j \in DOMAIN sub[b] : j # i => sub'[b][j] = sub[b][j]
      /\ sub'[b][i].status = value
      /\ sub'[b][i].asked = sub[b][i].asked + (IF value = "request_revision" THEN 1 ELSE 0)
    BY <1>0, <1>1, SetSubEffect
<1>3. line' \in [Brands -> Lines \cup {NoLine}]
    BY <1>0, <1>1, SaveLineType
<1>4. UNCHANGED <<strikes, active, lost, spared, pardoned, pardons, ended, closed, sweep, kills>>
    BY DEF rest, creator, staff
<1>5. chore' \in [Dealers -> ChoreRec] /\ chore'[q] = m
    BY <1>0 DEF Turn, DealsTypeOK
<1>6. DealsTypeOK'
    BY <1>0, <1>2, <1>3, <1>4, <1>5 DEF DealsTypeOK, Lines
<1>7. Len(sub[b]) \in Nat /\ DOMAIN sub'[b] = DOMAIN sub[b]
    BY <1>1, <1>2
<1>8. Onward
  <2>1. \A c \in Brands : Len(sub'[c]) >= Len(sub[c])
    <3>1. \A c \in Brands : Len(sub[c]) \in Nat
        BY <1>0 DEF DealsTypeOK
    <3>. QED BY <1>2, <3>1
  <2>. QED BY <1>0, <1>4, <2>1 DEF Onward, DealsTypeOK
<1>9. ChoreOK' /\ Rejecting'
    BY <1>0, <1>1, <1>2, <1>6, <1>8, OthersKeep
<1>10. \A c \in Brands \ doubled' :
          c # b => OneHand(c)' /\ OneRevision(c)' /\ PaidWhenDone(c)'
    BY <1>0, <1>1, <1>2, ElsewhereKeeps
<1>11. ASSUME b \notin doubled'
       PROVE  OneHand(b)' /\ OneRevision(b)' /\ PaidWhenDone(b)'
  <2>1. OneHand(b) /\ OneRevision(b) /\ PaidWhenDone(b)
      BY <1>0, <1>1, <1>11 DEF Single
  <2>2. At(q, b) /\ \A r \in Dealers : At(r, b) => r = q
      BY <2>1 DEF OneHand, At
  <2>3. rewards'[b] = 0
      BY <1>0, <1>1, <2>1, <2>2 DEF PaidWhenDone, DealsTypeOK
  <2>4. m.pc = "release" => AsRead(q)'
      BY <1>2, <1>5 DEF AsRead, Turn
  <2>5. OneHand(b)'
      BY <1>0, <1>1, <2>2, <2>4, OneHandKeeps
  <2>6. OneRevision(b)'
    <3>1. DOMAIN sub[b] = {1} /\ i = 1
        BY <1>1, <1>7, <2>1 DEF OneRevision
    <3>2. sub[b][1] \in SubRec
        BY <1>1, <3>1
    <3>3. sub[b][1].asked \in Nat
        BY <3>2 DEF SubRec
    <3>4. sub'[b][1].asked <= 1
        BY <1>2, <1>11, <2>1, <3>1, <3>3 DEF OneRevision
    <3>. QED BY <1>2, <1>7, <2>1, <3>1, <3>4 DEF OneRevision
  <2>7. PaidWhenDone(b)'
      BY <2>3 DEF PaidWhenDone
  <2>. QED BY <2>5, <2>6, <2>7
<1>12. Single'
    BY <1>10, <1>11 DEF Single
<1>13. RejectionIsComplete'
  <2>. SUFFICES ASSUME NEW c \in Brands, NEW j \in DOMAIN sub'[c],
                       sub'[c][j].status = "disputeraised"
                PROVE  case[c] > 0 /\ c \in strikes \cup lost
      BY <1>4 DEF RejectionIsComplete
  <2>1. CASE c = b /\ j = i
      BY <1>0, <1>2, <2>1 DEF Rejecting
  <2>2. CASE c = b /\ j # i
      BY <1>0, <1>2, <1>7, <2>2 DEF RejectionIsComplete
  <2>3. CASE c # b
      BY <1>0, <1>2, <2>3 DEF RejectionIsComplete
  <2>. QED BY <2>1, <2>2, <2>3
<1>. QED BY <1>6, <1>9, <1>12, <1>13 DEF Core

\* A request that is finished, or whose process was killed, leaves things as they are.
LEMMA LeaveKeeps ==
    ASSUME Core, NEW q \in Dealers, FinishDeal(q), chore[q].pc # "idle",
           UNCHANGED <<deals, creator, pardoned, pardons, ended, closed, sweep>>,
           kills' \in 0 .. MaxKills
    PROVE  Core'
<1>0. DealsTypeOK /\ ChoreOK /\ Rejecting /\ Single /\ RejectionIsComplete
    BY DEF Core
<1>1. NoChore \in ChoreRec /\ NoChore.pc = "idle" /\ chore[q].b \in Brands
    BY <1>0, NobodyTypes DEF DealsTypeOK, ChoreRec, NoChore
<1>. PICK b \in Brands : b = chore[q].b
    BY <1>1
<1>2. Turn(q, b, NoChore)
    BY <1>1 DEF Turn, FinishDeal
<1>3. UNCHANGED <<sub, case, rewards, strikes, lost, doubled>>
    BY DEF deals, creator
<1>4. DealsTypeOK'
    BY <1>0, <1>1 DEF DealsTypeOK, FinishDeal, deals, creator
<1>5. Onward
  <2>1. \A c \in Brands : Len(sub[c]) \in Nat
      BY <1>0 DEF DealsTypeOK
  <2>. QED BY <1>0, <1>3, <2>1 DEF Onward, DealsTypeOK
<1>6. ChoreOK' /\ Rejecting'
    BY <1>0, <1>1, <1>2, <1>4, <1>5, OthersKeep
<1>7. \A c \in Brands \ doubled' :
          c # b => OneHand(c)' /\ OneRevision(c)' /\ PaidWhenDone(c)'
    BY <1>0, <1>1, <1>2, <1>3, ElsewhereKeeps
<1>8. ASSUME b \notin doubled'
      PROVE  OneHand(b)' /\ OneRevision(b)' /\ PaidWhenDone(b)'
  <2>1. OneHand(b) /\ OneRevision(b) /\ PaidWhenDone(b)
      BY <1>0, <1>1, <1>3, <1>8 DEF Single
  <2>2. At(q, b) /\ \A r \in Dealers : At(r, b) => r = q
      BY <2>1 DEF OneHand, At
  <2>3. OneHand(b)' /\ \A r \in Dealers : ~At(r, b)'
      BY <1>0, <1>1, <1>2, <2>2, OneHandKeeps
  <2>. QED BY <1>3, <2>1, <2>3 DEF OneRevision, PaidWhenDone
<1>9. Single'
    BY <1>7, <1>8 DEF Single
<1>10. RejectionIsComplete'
    BY <1>0, <1>3 DEF RejectionIsComplete
<1>. QED BY <1>4, <1>6, <1>9, <1>10 DEF Core

LEMMA SendDraftKeeps ==
    ASSUME Core, NEW q \in Dealers, SendDraft(q)
    PROVE  Core'
<1>0. DealsTypeOK /\ ChoreOK /\ Rejecting /\ Single /\ RejectionIsComplete
    BY DEF Core
<1>1. chore[q] \in ChoreRec /\ NoChore \in ChoreRec /\ NoChore.pc = "idle"
    BY <1>0, NobodyTypes DEF DealsTypeOK, NoChore
<1>. PICK b \in Brands, i \in Nat : b = chore[q].b /\ i = chore[q].i
    BY <1>1 DEF ChoreRec
<1>2. Turn(q, b, NoChore) /\ chore[q].pc = "draft"
    BY <1>1 DEF Turn, SendDraft, FinishDeal
<1>3. UNCHANGED <<case, rewards, doubled, rest>>
    BY DEF SendDraft
<1>4. Current(b) \in Lines
    BY <1>0, CurrentType
<1>5. CASE i > 0
  <2>1. SetSub(b, i, "revision-sent") /\ SaveLine(b, Sent(Current(b), 5))
      BY <1>5 DEF SendDraft
  <2>2. Sent(Current(b), 5) \in Lines
      BY <1>4, LineTypes
  <2>3. "revision-sent" \in SubStatus
      BY DEF SubStatus
  <2>. QED BY <1>1, <1>2, <1>3, <1>5, <2>1, <2>2, <2>3, SaveKeeps
<1>6. CASE i = 0
  <2>1. sub' = [sub EXCEPT ![b] = Append(@, New("pending_approval"))]
        /\ SaveLine(b, Sent(Current(b), 3))
      BY <1>6 DEF SendDraft
  <2>2. /\ sub' \in [Brands -> Seq(SubRec)]
        /\ \A c \in Brands : c # b => sub'[c] = sub[c]
        /\ Len(sub'[b]) = Len(sub[b]) + 1
        /\ \A j \in DOMAIN sub[b] : sub'[b][j] = sub[b][j]
        /\ sub'[b][Len(sub[b]) + 1] = [status |-> "pending_approval", asked |-> 0]
      BY <1>0, <2>1, AppendEffect DEF New, SubStatus
  <2>3. line' \in [Brands -> Lines \cup {NoLine}]
      BY <1>0, <1>4, <2>1, LineTypes, SaveLineType
  <2>4. DealsTypeOK'
      BY <1>0, <1>1, <1>2, <1>3, <2>2, <2>3
      DEF DealsTypeOK, Turn, Lines, rest, creator, staff
  <2>5. \A c \in Brands : Len(sub[c]) \in Nat /\ sub[c] \in Seq(SubRec)
      BY <1>0 DEF DealsTypeOK
  <2>6. Onward
    <3>1. \A c \in Brands : Len(sub'[c]) >= Len(sub[c])
        BY <1>0, <2>1, AppendEffect DEF SubStatus
    <3>2. UNCHANGED <<case, strikes, lost>>
        BY <1>3 DEF rest, creator
    <3>. QED BY <1>0, <3>1, <3>2 DEF Onward, DealsTypeOK
  <2>7. ChoreOK' /\ Rejecting'
      BY <1>0, <1>1, <1>2, <2>4, <2>6, OthersKeep
  <2>8. \A c \in Brands \ doubled' :
            c # b => OneHand(c)' /\ OneRevision(c)' /\ PaidWhenDone(c)'
      BY <1>0, <1>1, <1>2, <1>3, <2>2, ElsewhereKeeps
  <2>9. ASSUME b \notin doubled'
        PROVE  OneHand(b)' /\ OneRevision(b)' /\ PaidWhenDone(b)'
    <3>1. OneHand(b) /\ OneRevision(b) /\ PaidWhenDone(b)
        BY <1>0, <1>3, <2>9 DEF Single
    <3>2. At(q, b) /\ \A r \in Dealers : At(r, b) => r = q
        BY <1>2, <3>1 DEF OneHand, At
    <3>3. Len(sub[b]) = 0
      <4>1. AsRead(q)
          BY <3>1, <3>2 DEF OneHand
      <4>. QED BY <1>2, <1>6, <4>1 DEF AsRead
    <3>4. OneHand(b)'
        BY <1>0, <1>1, <1>2, <3>2, OneHandKeeps
    <3>5. DOMAIN sub'[b] = {1}
        BY <2>2, <3>3
    <3>6. OneRevision(b)'
        BY <2>2, <3>3, <3>5 DEF OneRevision
    <3>7. PaidWhenDone(b)'
        BY <1>0, <1>3, <3>1, <3>2 DEF PaidWhenDone, DealsTypeOK
    <3>. QED BY <3>4, <3>6, <3>7
  <2>10. Single'
      BY <2>8, <2>9 DEF Single
  <2>11. RejectionIsComplete'
    <3>. SUFFICES ASSUME NEW c \in Brands, NEW j \in DOMAIN sub'[c],
                         sub'[c][j].status = "disputeraised"
                  PROVE  j \in DOMAIN sub[c] /\ sub[c][j].status = "disputeraised"
        BY <1>0, <1>3 DEF RejectionIsComplete, rest, creator
    <3>1. CASE c = b
      <4>1. j # Len(sub[b]) + 1
          BY <2>2, <3>1
      <4>2. j \in DOMAIN sub[b]
          BY <2>2, <2>5, <3>1, <4>1
      <4>. QED BY <2>2, <3>1, <4>2
    <3>2. CASE c # b
        BY <2>2, <3>2
    <3>. QED BY <3>1, <3>2
  <2>. QED BY <2>4, <2>7, <2>10, <2>11 DEF Core
<1>. QED BY <1>5, <1>6

\* vetDraft's last write: what it decided, of the status it read.
LEMMA SaveVettedKeeps ==
    ASSUME Core, NEW q \in Dealers, SaveVetted(q)
    PROVE  Core'
<1>0. DealsTypeOK /\ ChoreOK /\ Rejecting /\ Single /\ RejectionIsComplete
    BY DEF Core
<1>1. chore[q] \in ChoreRec /\ NoChore \in ChoreRec /\ NoChore.pc = "idle"
    BY <1>0, NobodyTypes DEF DealsTypeOK, NoChore
<1>. PICK b \in Brands, i \in Nat, d \in Verdicts :
         b = chore[q].b /\ i = chore[q].i /\ d = chore[q].to
    BY <1>1 DEF ChoreRec
<1>2. Turn(q, b, NoChore) /\ chore[q].pc = "vet" /\ UNCHANGED <<case, rewards, doubled, rest>>
    BY <1>1 DEF Turn, SaveVetted, FinishDeal
<1>3. i > 0
    BY <1>0, <1>2 DEF ChoreOK
<1>4. DecisionStatus[d] \in SubStatus /\ DecisionStatus[d] # "pending_approval"
      /\ (DecisionStatus[d] = "request_revision" => d = "request_revision")
      /\ (DecisionStatus[d] = "disputeraised" => d = "rejected")
    BY DEF DecisionStatus, SubStatus, Verdicts
<1>5. SetSub(b, i, DecisionStatus[d]) /\ SaveLine(b, Vetted(Current(b), d))
    BY DEF SaveVetted
<1>6. Vetted(Current(b), d) \in Lines
    BY <1>0, CurrentType, LineTypes
<1>7. ASSUME b \notin doubled, d = "request_revision"
      PROVE  sub[b][i].status = "pending_approval"
  <2>1. AsRead(q)
      BY <1>0, <1>2, <1>7 DEF Single, OneHand, At
  <2>. QED BY <1>2, <1>7, <2>1 DEF AsRead, MayVet
<1>. QED BY <1>1, <1>2, <1>3, <1>4, <1>5, <1>6, <1>7, SaveKeeps

LEMMA SaveLinkKeeps ==
    ASSUME Core, NEW q \in Dealers, SaveLink(q)
    PROVE  Core'
<1>0. DealsTypeOK /\ ChoreOK
    BY DEF Core
<1>1. chore[q] \in ChoreRec /\ NoChore \in ChoreRec /\ NoChore.pc = "idle"
    BY <1>0, NobodyTypes DEF DealsTypeOK, NoChore
<1>. PICK b \in Brands, i \in Nat : b = chore[q].b /\ i = chore[q].i
    BY <1>1 DEF ChoreRec
<1>2. Turn(q, b, NoChore) /\ chore[q].pc = "post" /\ UNCHANGED <<case, rewards, doubled, rest>>
    BY <1>1 DEF Turn, SaveLink, FinishDeal
<1>3. i > 0 /\ "livelink_available" \in SubStatus
    BY <1>0, <1>2 DEF ChoreOK, SubStatus
<1>4. SetSub(b, i, "livelink_available") /\ SaveLine(b, Posted(Current(b)))
    BY DEF SaveLink
<1>5. Posted(Current(b)) \in Lines
    BY <1>0, CurrentType, LineTypes
<1>. QED BY <1>1, <1>2, <1>3, <1>4, <1>5, SaveKeeps

LEMMA SaveApprovalKeeps ==
    ASSUME Core, NEW q \in Dealers, SaveApproval(q)
    PROVE  Core'
<1>0. DealsTypeOK /\ ChoreOK
    BY DEF Core
<1>1. chore[q] \in ChoreRec
    BY <1>0 DEF DealsTypeOK
<1> DEFINE m == [chore[q] EXCEPT !.pc = "release"]
<1>2. m \in ChoreRec /\ m.pc = "release" /\ m.b = chore[q].b /\ m.i = chore[q].i
    BY <1>1 DEF ChoreRec
<1>3. PICK b \in Brands, i \in Nat, r \in ChoreRec : b = chore[q].b /\ i = chore[q].i /\ r = m
    BY <1>1, <1>2 DEF ChoreRec
<1>4. Turn(q, b, r) /\ chore[q].pc = "approve" /\ UNCHANGED <<case, rewards, doubled, rest>>
    BY <1>2, <1>3 DEF Turn, SaveApproval, GoDeal
<1>5. i > 0 /\ "done" \in SubStatus
    BY <1>0, <1>3, <1>4 DEF ChoreOK, SubStatus
<1>6. SetSub(b, i, "done") /\ SaveLine(b, Accepted(Current(b)))
    BY <1>3 DEF SaveApproval
<1>7. Accepted(Current(b)) \in Lines
    BY <1>0, CurrentType, LineTypes
<1>8. r.pc = "release" /\ r.i = i
    BY <1>2, <1>3
<1>. HIDE DEF m
<1>. QED BY <1>3, <1>4, <1>5, <1>6, <1>7, <1>8, SaveKeeps

LEMMA CreateRewardKeeps ==
    ASSUME Core, NEW q \in Dealers, CreateReward(q)
    PROVE  Core'
<1>0. DealsTypeOK /\ ChoreOK /\ Rejecting /\ Single /\ RejectionIsComplete
    BY DEF Core
<1>1. chore[q] \in ChoreRec /\ NoChore \in ChoreRec /\ NoChore.pc = "idle"
    BY <1>0, NobodyTypes DEF DealsTypeOK, NoChore
<1>. PICK b \in Brands, i \in Nat : b = chore[q].b /\ i = chore[q].i
    BY <1>1 DEF ChoreRec
<1>2. Turn(q, b, NoChore) /\ chore[q].pc = "release" /\ UNCHANGED <<sub, line, case, doubled, rest>>
    BY <1>1 DEF Turn, CreateReward, FinishDeal
<1>3. rewards' = [rewards EXCEPT ![b] = @ + 1]
    BY DEF CreateReward
<1>4. rewards' \in [Brands -> Nat]
    BY <1>0, <1>3 DEF DealsTypeOK
<1>5. DealsTypeOK'
    BY <1>0, <1>1, <1>2, <1>4 DEF DealsTypeOK, Turn, rest, creator, staff
<1>6. Onward
  <2>1. \A c \in Brands : Len(sub[c]) \in Nat
      BY <1>0 DEF DealsTypeOK
  <2>. QED BY <1>0, <1>2, <2>1 DEF Onward, DealsTypeOK, rest, creator
<1>7. ChoreOK' /\ Rejecting'
    BY <1>0, <1>1, <1>2, <1>5, <1>6, OthersKeep
<1>8. \A c \in Brands : c # b => sub'[c] = sub[c] /\ rewards'[c] = rewards[c]
    BY <1>0, <1>2, <1>3 DEF DealsTypeOK
<1>9. \A c \in Brands \ doubled' :
          c # b => OneHand(c)' /\ OneRevision(c)' /\ PaidWhenDone(c)'
    BY <1>0, <1>1, <1>2, <1>8, ElsewhereKeeps
<1>10. ASSUME b \notin doubled'
       PROVE  OneHand(b)' /\ OneRevision(b)' /\ PaidWhenDone(b)'
  <2>1. OneHand(b) /\ OneRevision(b) /\ PaidWhenDone(b)
      BY <1>0, <1>2, <1>10 DEF Single
  <2>2. At(q, b) /\ \A r \in Dealers : At(r, b) => r = q
      BY <1>2, <2>1 DEF OneHand, At
  <2>3. OneHand(b)' /\ \A r \in Dealers : ~At(r, b)'
      BY <1>0, <1>1, <1>2, <2>2, OneHandKeeps
  <2>4. OneRevision(b)'
      BY <1>2, <2>1 DEF OneRevision
  <2>5. Len(sub[b]) = 1 /\ sub[b][1].status = "done"
    <3>1. AsRead(q)
        BY <2>1, <2>2 DEF OneHand
    <3>2. sub[b][i].status = "done"
        BY <1>2, <3>1 DEF AsRead
    <3>3. i > 0 /\ i <= Len(sub[b])
        BY <1>0, <1>2 DEF ChoreOK
    <3>4. Len(sub[b]) \in Nat /\ Len(sub[b]) <= 1
        BY <1>0, <2>1 DEF DealsTypeOK, OneRevision
    <3>5. \A x, n \in Nat : x > 0 /\ x <= n /\ n <= 1 => x = 1 /\ n = 1
        OBVIOUS
    <3>6. i = 1 /\ Len(sub[b]) = 1
        BY <3>3, <3>4, <3>5, Zenon
    <3>. QED BY <3>2, <3>6
  <2>6. rewards'[b] = 1
    <3>1. rewards[b] = 0
        BY <1>0, <2>1, <2>2 DEF PaidWhenDone, DealsTypeOK
    <3>. QED BY <1>0, <1>3, <3>1 DEF DealsTypeOK
  <2>7. PaidWhenDone(b)'
      BY <1>2, <2>3, <2>5, <2>6 DEF PaidWhenDone
  <2>. QED BY <2>3, <2>4, <2>7
<1>11. Single'
    BY <1>9, <1>10 DEF Single
<1>12. RejectionIsComplete'
    BY <1>0, <1>2 DEF RejectionIsComplete, rest, creator
<1>. QED BY <1>5, <1>7, <1>11, <1>12 DEF Core

\* A step of a rejection before it is saved: the submission and the releases stay.
LEMMA RejectionStepKeeps ==
    ASSUME Core, DealsTypeOK', Onward, NEW q \in Dealers, NEW m \in ChoreRec,
           chore[q].pc \in {"raise", "strike"},
           chore' = [chore EXCEPT ![q] = m],
           m.b = chore[q].b, m.i = chore[q].i, m.to = chore[q].to, m.pc \in {"strike", "vet"},
           case'[m.b] > 0, m.pc = "vet" => m.b \in (strikes \cup lost)',
           UNCHANGED <<sub, rewards, doubled>>
    PROVE  Core'
<1>0. DealsTypeOK /\ ChoreOK /\ Rejecting /\ Single /\ RejectionIsComplete
    BY DEF Core
<1>1. PICK b \in Brands : b = m.b
    BY DEF ChoreRec
<1>2. Turn(q, b, m)
    BY <1>1 DEF Turn
<1>3. m.i <= Len(sub[b]) /\ m.i > 0 /\ m.to = "rejected"
    BY <1>0, <1>1 DEF ChoreOK, Rejecting
<1>4. ChoreOK' /\ Rejecting'
    BY <1>0, <1>1, <1>2, <1>3, OthersKeep
<1>5. \A c \in Brands \ doubled' :
          c # b => OneHand(c)' /\ OneRevision(c)' /\ PaidWhenDone(c)'
    BY <1>0, <1>2, ElsewhereKeeps
<1>6. ASSUME b \notin doubled'
      PROVE  OneHand(b)' /\ OneRevision(b)' /\ PaidWhenDone(b)'
  <2>1. OneHand(b) /\ OneRevision(b) /\ PaidWhenDone(b)
      BY <1>0, <1>6 DEF Single
  <2>2. At(q, b) /\ \A r \in Dealers : At(r, b) => r = q
      BY <1>1, <2>1 DEF OneHand, At
  <2>3. AsRead(q)
      BY <2>1, <2>2 DEF OneHand
  <2>4. chore'[q] = m
      BY <1>0 DEF DealsTypeOK
  <2>5. AsRead(q)'
      BY <1>1, <2>3, <2>4 DEF AsRead, MayVet
  <2>6. OneHand(b)'
      BY <1>0, <1>2, <2>2, <2>5, OneHandKeeps
  <2>7. rewards[b] = 0
      BY <1>0, <2>1, <2>2 DEF PaidWhenDone, DealsTypeOK
  <2>. QED BY <2>1, <2>6, <2>7 DEF OneRevision, PaidWhenDone
<1>7. Single'
    BY <1>5, <1>6 DEF Single
<1>8. RejectionIsComplete'
    BY <1>0 DEF RejectionIsComplete, Onward, DealsTypeOK
<1>. QED BY <1>4, <1>7, <1>8 DEF Core

LEMMA RaiseKeeps ==
    ASSUME Core, NEW q \in Dealers, RaiseOverDraft(q)
    PROVE  Core'
<1>0. DealsTypeOK
    BY DEF Core
<1> DEFINE m == [chore[q] EXCEPT !.user = [strikes |-> strikes, active |-> active],
                                 !.pc = IF chore[q].b \in strikes THEN "vet" ELSE "strike"]
<1>1. chore[q] \in ChoreRec /\ [strikes |-> strikes, active |-> active] \in User
    BY <1>0 DEF DealsTypeOK, User
<1>2. /\ m \in ChoreRec /\ m.b = chore[q].b /\ m.i = chore[q].i /\ m.to = chore[q].to
      /\ m.pc = IF chore[q].b \in strikes THEN "vet" ELSE "strike"
    BY <1>1 DEF ChoreRec
<1>3. /\ chore[q].pc = "raise" /\ chore' = [chore EXCEPT ![q] = m]
      /\ case' = [case EXCEPT ![chore[q].b] = @ + 1]
      /\ UNCHANGED <<sub, line, rewards, doubled, rest>>
    BY DEF RaiseOverDraft
<1>. HIDE DEF m
<1>4. PICK b \in Brands : b = chore[q].b
    BY <1>1 DEF ChoreRec
<1>5. case' \in [Brands -> Nat] /\ case'[b] > 0 /\ \A c \in Brands : case'[c] >= case[c]
    BY <1>0, <1>3, <1>4 DEF DealsTypeOK
<1>6. DealsTypeOK'
    BY <1>0, <1>2, <1>3, <1>5 DEF DealsTypeOK, rest, creator, staff
<1>7. Onward
  <2>1. \A c \in Brands : Len(sub[c]) \in Nat
      BY <1>0 DEF DealsTypeOK
  <2>. QED BY <1>3, <1>5, <2>1 DEF Onward, rest, creator
<1>8. UNCHANGED <<strikes, lost>>
    BY <1>3 DEF rest, creator
<1>. QED BY <1>2, <1>3, <1>4, <1>5, <1>6, <1>7, <1>8, RejectionStepKeeps

\* What creator.save() leaves of the strikes.
LEMMA SaveCreatorStrikes ==
    ASSUME NEW user, NEW b, SaveCreator(user, b)
    PROVE  strikes \cup lost \subseteq (strikes \cup lost)' /\ b \in strikes'
BY DEF SaveCreator

LEMMA StrikeKeeps ==
    ASSUME Core, NEW q \in Dealers, Strike(q)
    PROVE  Core'
<1>0. DealsTypeOK /\ Rejecting
    BY DEF Core
<1> DEFINE m == [chore[q] EXCEPT !.pc = "vet"]
<1>1. chore[q] \in ChoreRec
    BY <1>0 DEF DealsTypeOK
<1>2. chore[q].user \in User /\ chore[q].b \in Brands
      /\ m \in ChoreRec /\ m.b = chore[q].b /\ m.i = chore[q].i /\ m.to = chore[q].to
      /\ m.pc = "vet"
    BY <1>1 DEF ChoreRec
<1>3. /\ chore[q].pc = "strike" /\ chore' = [chore EXCEPT ![q] = m]
      /\ SaveCreator(chore[q].user, chore[q].b)
      /\ UNCHANGED <<deals, staff, ended, closed, sweep, kills>>
    BY DEF Strike, GoDeal
<1>. HIDE DEF m
<1>4. DealsTypeOK'
    BY <1>0, <1>2, <1>3, SaveCreatorType DEF DealsTypeOK, deals, staff
<1>5. UNCHANGED <<sub, case, rewards, doubled>>
    BY <1>3 DEF deals
<1>6. strikes \cup lost \subseteq (strikes \cup lost)' /\ chore[q].b \in strikes'
    BY <1>3, SaveCreatorStrikes
<1>7. Onward
  <2>1. \A c \in Brands : Len(sub[c]) \in Nat /\ case[c] \in Nat
      BY <1>0 DEF DealsTypeOK
  <2>. QED BY <1>5, <1>6, <2>1 DEF Onward
<1>8. case'[m.b] > 0
    BY <1>0, <1>2, <1>3, <1>5 DEF Rejecting
<1>. QED BY <1>2, <1>3, <1>4, <1>5, <1>6, <1>7, <1>8, RejectionStepKeeps

\* Steps of the creator's record and of the nightly scan leave the deals alone.
LEMMA AsideKeeps ==
    ASSUME Core, DealsTypeOK', UNCHANGED <<sub, case, rewards, doubled, chore>>,
           strikes \cup lost \subseteq (strikes \cup lost)'
    PROVE  Core'
<1>0. DealsTypeOK /\ ChoreOK /\ Rejecting /\ Single /\ RejectionIsComplete
    BY DEF Core
<1>1. ChoreOK'
    BY <1>0 DEF ChoreOK
<1>2. Rejecting'
    BY <1>0 DEF Rejecting
<1>3. Single'
    BY <1>0 DEF Single, OneHand, OneRevision, PaidWhenDone, At, AsRead, MayVet, MayPost
<1>4. RejectionIsComplete'
    BY <1>0 DEF RejectionIsComplete
<1>. QED BY <1>1, <1>2, <1>3, <1>4 DEF Core

LEMMA SweepKeeps ==
    ASSUME Core, NEW s \in Sweeps, SweepStep(s)
    PROVE  Core'
<1>0. DealsTypeOK
    BY DEF Core
<1>1. sweep[s] \in SweepRec /\ NoSweep \in SweepRec
    BY <1>0, NobodyTypes DEF DealsTypeOK
<1>2. sweep[s].todo \subseteq Brands /\ sweep[s].b \in Brands /\ sweep[s].user \in User
    BY <1>1 DEF SweepRec
<1>3. CASE SweepEnded(s)
  <2>1. [NoSweep EXCEPT !.pc = "next", !.todo = ended \ closed] \in SweepRec
      BY <1>0, <1>1 DEF SweepRec, DealsTypeOK
  <2>2. DealsTypeOK'
      BY <1>0, <1>3, <2>1 DEF SweepEnded, DealsTypeOK, sweepOnly, creator, deals, staff
  <2>. QED BY <1>3, <2>2, AsideKeeps DEF SweepEnded, sweepOnly, creator, deals
<1>4. CASE StrikeNoShow(s)
  <2>1. [sweep[s] EXCEPT !.pc = "refund"] \in SweepRec
      BY <1>1 DEF SweepRec
  <2>2. SaveCreator(sweep[s].user, sweep[s].b) /\ UNCHANGED sweepOnly /\ closed' = closed
        /\ sweep' = [sweep EXCEPT ![s] = [sweep[s] EXCEPT !.pc = "refund"]]
      BY <1>4 DEF StrikeNoShow
  <2>3. DealsTypeOK'
      BY <1>0, <1>2, <2>1, <2>2, SaveCreatorType DEF DealsTypeOK, sweepOnly, deals, staff
  <2>. QED BY <2>2, <2>3, AsideKeeps, SaveCreatorStrikes DEF sweepOnly, deals
<1>5. CASE CloseCampaign(s)
  <2>1. [NoSweep EXCEPT !.pc = "next", !.todo = sweep[s].todo] \in SweepRec
      BY <1>1, <1>2 DEF SweepRec
  <2>2. sweep' \in [Sweeps -> SweepRec]
      BY <1>0, <1>1, <1>5, <2>1 DEF CloseCampaign, DealsTypeOK
  <2>3. DealsTypeOK'
      BY <1>0, <1>2, <1>5, <2>2 DEF CloseCampaign, DealsTypeOK, sweepOnly, creator, deals, staff
  <2>. QED BY <1>5, <2>3, AsideKeeps DEF CloseCampaign, sweepOnly, creator, deals
<1>6. ASSUME NEW b \in Brands, TakeNextBrand(s, b)
      PROVE  Core'
  <2>1. [strikes |-> strikes, active |-> active] \in User
      BY <1>0 DEF DealsTypeOK, User
  <2>2. [pc |-> IF rewards[b] = 0 /\ b \notin strikes THEN "strike" ELSE "refund",
         todo |-> sweep[s].todo \ {b}, b |-> b,
         user |-> [strikes |-> strikes, active |-> active]] \in SweepRec
      BY <1>2, <2>1 DEF SweepRec
  <2>3. sweep' \in [Sweeps -> SweepRec]
      BY <1>0, <1>6, <2>2 DEF TakeNextBrand, DealsTypeOK
  <2>4. DealsTypeOK'
      BY <1>0, <1>6, <2>3 DEF TakeNextBrand, DealsTypeOK, sweepOnly, creator, deals, staff
  <2>. QED BY <1>6, <2>4, AsideKeeps DEF TakeNextBrand, sweepOnly, creator, deals
<1>. QED BY <1>3, <1>4, <1>5, <1>6 DEF SweepStep

LEMMA StaffKeeps ==
    ASSUME Core, Reactivate
    PROVE  Core'
<1>0. DealsTypeOK
    BY DEF Core
<1>1. UNCHANGED <<sub, line, case, rewards, doubled, strikes, lost, spared, ended, closed, chore,
                  sweep, kills>>
    BY DEF Reactivate, deals
<1>2. pardons' \in 0 .. MaxPardons
    BY <1>0, DealBounds DEF Reactivate, DealsTypeOK
<1>3. DealsTypeOK'
    BY <1>0, <1>1, <1>2 DEF Reactivate, DealsTypeOK
<1>. QED BY <1>1, <1>3, AsideKeeps

LEMMA EndKeeps ==
    ASSUME Core, NEW b \in Brands, End(b)
    PROVE  Core'
<1>1. DealsTypeOK
    BY DEF Core
<1>2. DealsTypeOK'
    BY <1>1 DEF End, DealsTypeOK, deals, creator, staff
<1>. QED BY <1>2, AsideKeeps DEF End, deals, creator

LEMMA CrashKeeps ==
    ASSUME Core, CrashDeal
    PROVE  Core'
<1>0. DealsTypeOK
    BY DEF Core
<1>1. kills' \in 0 .. MaxKills /\ UNCHANGED <<deals, creator, staff, ended, closed>>
    BY <1>0, DealBounds DEF CrashDeal, DealsTypeOK
<1>2. ASSUME NEW q \in Dealers, chore[q].pc # "idle", FinishDeal(q), UNCHANGED sweep
      PROVE  Core'
    BY <1>1, <1>2, LeaveKeeps DEF staff
<1>3. ASSUME NEW s \in Sweeps, sweep' = [sweep EXCEPT ![s] = NoSweep], UNCHANGED chore
      PROVE  Core'
  <2>1. DealsTypeOK'
      BY <1>0, <1>1, <1>3, NobodyTypes DEF DealsTypeOK, deals, creator, staff
  <2>. QED BY <1>1, <1>3, <2>1, AsideKeeps DEF deals, creator
<1>. QED BY <1>2, <1>3 DEF CrashDeal

LEMMA CoreStart == InitDeals => Core
<1>. SUFFICES ASSUME InitDeals PROVE Core
    OBVIOUS
<1>. USE DEF InitDeals
<1>1. DealsTypeOK
  <2>1. \A b \in Brands : (IF b \in Timed THEN FirstLine(b) ELSE NoLine) \in Lines \cup {NoLine}
      BY LineTypes
  <2>2. line \in [Brands -> [Stages -> StageStatus] \cup {NoLine}]
      BY <2>1 DEF Lines
  <2>3. <<>> \in Seq(SubRec)
      OBVIOUS
  <2>4. sub \in [Brands -> Seq(SubRec)]
      BY <2>3
  <2>5. case \in [Brands -> Nat] /\ rewards \in [Brands -> Nat]
      OBVIOUS
  <2>6. chore \in [Dealers -> ChoreRec] /\ sweep \in [Sweeps -> SweepRec]
      BY NobodyTypes
  <2>7. pardons \in 0 .. MaxPardons /\ kills \in 0 .. MaxKills
      BY DealBounds
  <2>. QED BY <2>2, <2>4, <2>5, <2>6, <2>7 DEF DealsTypeOK
<1>2. \A q \in Dealers : chore[q].pc = "idle"
    BY DEF NoChore
<1>3. ChoreOK /\ Rejecting
    BY <1>2 DEF ChoreOK, Rejecting
<1>4. Single
    BY <1>2 DEF Single, OneHand, OneRevision, PaidWhenDone, At
<1>5. RejectionIsComplete
    BY DEF RejectionIsComplete
<1>. QED BY <1>1, <1>3, <1>4, <1>5 DEF Core

LEMMA CoreStep == Core /\ [NextDeals]_dealVars => Core'
<1>. SUFFICES ASSUME Core, [NextDeals]_dealVars PROVE Core'
    OBVIOUS
<1>1. ASSUME NEW q \in Dealers, GoOnDealing(q)
      PROVE  Core'
    BY <1>1, SendDraftKeeps, RaiseKeeps, StrikeKeeps, SaveVettedKeeps, SaveLinkKeeps,
       SaveApprovalKeeps, CreateRewardKeeps DEF GoOnDealing
<1>2. ASSUME NEW q \in Dealers, NEW b \in Brands,
             \/ BeginDraft(q, b) \/ BeginAmplified(q, b)
             \/ \E i \in DOMAIN sub[b] : OnSubmission(q, b, i)
      PROVE  Core'
    BY <1>2, BeginDraftKeeps, BeginAmplifiedKeeps, OnSubmissionKeeps
<1>3. CASE UNCHANGED dealVars
  <2>1. UNCHANGED <<sub, case, rewards, doubled, chore, strikes, lost>>
      BY <1>3 DEF dealVars, deals, creator
  <2>2. DealsTypeOK'
      BY <1>3 DEF Core, DealsTypeOK, dealVars, deals, creator, staff
  <2>. QED BY <2>1, <2>2, AsideKeeps
<1>. QED BY <1>1, <1>2, <1>3, SweepKeeps, EndKeeps, StaffKeeps, CrashKeeps DEF NextDeals

\* Of all steps, the shape of the variables is kept: what every other theorem rests on.
THEOREM DealsTypeCorrect == SpecDeals => []DealsTypeOK
<1>. QED BY CoreStart, CoreStep, PTL DEF SpecDeals, Core

\* submitDraft, vetDraft, submitLivePost and approveLivePost ask for a draft's revision
\* once, and create one release for a deal, whatever the creators, brands, staff and crons
\* do at the same time, unless two requests were at work on the deal at once.
THEOREM DealsDoneOnce == SpecDeals => []OncePerDeal
<1>1. Core => OncePerDeal
    BY DEF Core, Single, OneRevision, PaidWhenDone, OncePerDeal
<1>. QED BY <1>1, CoreStart, CoreStep, PTL DEF SpecDeals

\* vetDraft saves a rejection last: whatever was killed on the way, a rejected draft has its
\* dispute and its strike, or another handler's save() took the strike away.
THEOREM RejectionsComplete == SpecDeals => []RejectionIsComplete
<1>1. Core => RejectionIsComplete
    BY DEF Core
<1>. QED BY <1>1, CoreStart, CoreStep, PTL DEF SpecDeals

-----------------------------------------------------------------------------
(* The block.                                                              *)

LEMMA SaveCreatorBlocks ==
    ASSUME NEW user, NEW b, SaveCreator(user, b), UNCHANGED pardoned
    PROVE  BlockedAtLimit'
BY DEF SaveCreator, Blocks, BlockedAtLimit

LEMMA BlockStep == BlockedAtLimit /\ [NextDeals]_dealVars => BlockedAtLimit'
<1>. SUFFICES ASSUME BlockedAtLimit, [NextDeals]_dealVars PROVE BlockedAtLimit'
    OBVIOUS
<1>1. UNCHANGED <<strikes, active, pardoned, spared>> => BlockedAtLimit'
    BY DEF BlockedAtLimit
<1>2. ASSUME NEW q \in Dealers, GoOnDealing(q)
      PROVE  BlockedAtLimit'
  <2>1. CASE Strike(q)
      BY <2>1, SaveCreatorBlocks DEF Strike, staff
  <2>2. CASE ~Strike(q)
    <3>1. UNCHANGED rest
        BY <1>2, <2>2 DEF GoOnDealing, SendDraft, RaiseOverDraft, SaveVetted, SaveLink,
                          SaveApproval, CreateReward
    <3>. QED BY <1>1, <3>1 DEF rest, creator, staff
  <2>. QED BY <2>1, <2>2
<1>3. ASSUME NEW q \in Dealers, NEW b \in Brands,
             \/ BeginDraft(q, b) \/ BeginAmplified(q, b)
             \/ \E i \in DOMAIN sub[b] : OnSubmission(q, b, i)
      PROVE  BlockedAtLimit'
  <2>1. UNCHANGED rest
      BY <1>3 DEF BeginDraft, BeginAmplified, OnSubmission, BeginPost, BeginApproval, BeginVet,
                  BeginDeal
  <2>. QED BY <1>1, <2>1 DEF rest, creator, staff
<1>4. ASSUME NEW s \in Sweeps, SweepStep(s)
      PROVE  BlockedAtLimit'
  <2>1. CASE StrikeNoShow(s)
      BY <2>1, SaveCreatorBlocks DEF StrikeNoShow, sweepOnly, staff
  <2>2. CASE ~StrikeNoShow(s)
    <3>1. UNCHANGED <<creator, sweepOnly>>
        BY <1>4, <2>2 DEF SweepStep, SweepEnded, TakeNextBrand, CloseCampaign
    <3>. QED BY <1>1, <3>1 DEF sweepOnly, creator, staff
  <2>. QED BY <2>1, <2>2
<1>5. ASSUME NEW b \in Brands, End(b)
      PROVE  BlockedAtLimit'
    BY <1>1, <1>5 DEF End, creator, staff
<1>6. CASE Reactivate
    BY <1>6 DEF Reactivate, BlockedAtLimit
<1>7. CASE CrashDeal
    BY <1>1, <1>7 DEF CrashDeal, creator, staff
<1>8. CASE UNCHANGED dealVars
    BY <1>1, <1>8 DEF dealVars, creator, staff
<1>. QED BY <1>2, <1>3, <1>4, <1>5, <1>6, <1>7, <1>8 DEF NextDeals

LEMMA BlockStart == InitDeals => BlockedAtLimit
<1>1. Cardinality({}) = 0
    BY FS_EmptySet
<1>. QED BY <1>1, DealBounds DEF InitDeals, BlockedAtLimit

\* creator.save(), from vetDraft or from the nightly scan, blocks a creator who is at the
\* limit, however the two and staff's reactivation overlap, but for the two ways out that
\* the property names.
THEOREM CreatorsBlocked == SpecDeals => []BlockedAtLimit
<1>. QED BY BlockStart, BlockStep, PTL DEF SpecDeals

-----------------------------------------------------------------------------
(* Settlement.  BooksInv is inductive by itself: the types and what a      *)
(* request has at hand.  On top of it OwedInv gives that finished work is  *)
(* owed, BudgetInv and EvenInv that the budget is kept: each creator has a *)
(* limit that covers what a row may still cost and what a decision is      *)
(* about to give back of it, and the limits and the refunds together stay  *)
(* within the budget.                                                      *)

\* Every creator of a release is one of the campaign's, and no release is above the fee.
ReleaseRec == [creator : Creators, amount : 0 .. AgreedFee, status : RowStatus, sent : Nat]
DisputeRec == [creator : Creators, open : BOOLEAN]
DeedRec == [pc : {"idle", "resolve", "read", "row", "done", "release", "refund", "cancel", "list", "shares"},
            d : Nat, decision : Decisions, row : Nat, copy : ReleaseRec \cup {<<>>},
            owe : [Creators -> 0 .. AgreedFee], back : 0 .. Budget]
ScanRec == [pc : {"idle", "sum", "queue"}, sum : Nat]

Books ==
    /\ campaign \in CampaignStatus /\ work \in [Creators -> WorkStatus]
    /\ dispute \in Seq(DisputeRec) /\ release \in Seq(ReleaseRec) /\ refund \in Seq(0 .. Budget)
    /\ job \in [Deciders -> DeedRec] /\ hook \in [Hooks -> {"idle", "releases", "work", "campaign"}]
    /\ scan \in [Scans -> ScanRec] /\ settled \subseteq Creators
    /\ blame \subseteq {"late", "again", "refrozen", "rewritten", "crash"}
    /\ cancels \in 0 .. MaxCancels /\ crashes \in 0 .. MaxCrashes

\* What a request has at hand: the dispute and the row it goes by; a fee it is about to
\* release to one creator, and what the brand gets back of it.
AtHand(q) ==
    /\ job[q].pc \in {"resolve", "read", "row", "refund"} => job[q].d \in DOMAIN dispute
    /\ job[q].pc \in {"resolve", "read", "done", "release"} => job[q].row = 0
    /\ job[q].pc \in {"resolve", "read"} => job[q].back = 0
    /\ job[q].pc \in {"done", "release"} =>
         /\ \A c, e \in Owing(q) : c = e
         /\ \A c \in Owing(q) : job[q].owe[c] + job[q].back <= AgreedFee
         /\ job[q].back > 0 => /\ job[q].d \in DOMAIN dispute /\ job[q].decision = "split"
                               /\ Owing(q) \subseteq {Subject(q)}
    /\ job[q].pc = "row" => /\ job[q].row \in DOMAIN release /\ job[q].copy \in ReleaseRec
                            /\ release[job[q].row].creator = Subject(q)
    /\ job[q].pc = "refund" =>
         /\ job[q].back \in 0 .. AgreedFee /\ job[q].decision \in {"brand", "split"}
         /\ job[q].row # 0 => /\ job[q].row \in DOMAIN release
                              /\ release[job[q].row].creator = Subject(q)
         /\ job[q].row = 0 /\ job[q].decision = "split" => RowsOf(Subject(q)) # {}

BooksInv == Books /\ \A q \in Deciders : AtHand(q)

OwedInv == "crash" \in blame \/ \A c \in Creators : work[c] = "done" =>
        RowsOf(c) # {} \/ \E q \in Deciders : job[q].pc = "release" /\ c \in Owing(q)


LEMMA NoDeedIs == NoDeed \in DeedRec /\ NoDeed.pc = "idle" /\ NoDeed.row = 0 /\ NoDeed.back = 0
                  /\ NoDeed.owe = Nobody /\ \A c \in Creators : NoDeed.owe[c] = 0
BY SettlementBounds DEF NoDeed, DeedRec, Nobody, Decisions

LEMMA MapSeq ==
    ASSUME NEW R, NEW s \in Seq(R), NEW f, DOMAIN f = DOMAIN s, f = [i \in DOMAIN s |-> f[i]],
           \A i \in DOMAIN s : f[i] \in R
    PROVE  f \in Seq(R) /\ Len(f) = Len(s)
<1>1. DOMAIN s = 1 .. Len(s) /\ Len(s) \in Nat
    OBVIOUS
<1>2. f \in [1 .. Len(s) -> R]
    BY <1>1
<1>. QED BY <1>1, <1>2

\* A fee belongs to somebody: the budget pays for one at least.
LEMMA FeeIsPaid ==
    ASSUME NEW c \in Creators
    PROVE  AgreedFee <= Budget
<1>1. Cardinality(Creators) \in Nat /\ Cardinality(Creators) # 0
    BY SettlementBounds, FS_CardinalityType, FS_EmptySet
<1>2. AgreedFee <= Cardinality(Creators) * AgreedFee
  <2>1. \A n, f \in Nat : n # 0 => (n - 1) * f \in Nat /\ n * f = (n - 1) * f + f
      OBVIOUS
  <2>2. \A n, f \in Nat : n # 0 => f <= n * f
      BY <2>1
  <2>. QED BY <1>1, <2>2, SettlementBounds
<1>3. Cardinality(Creators) * AgreedFee \in Nat
    BY <1>1, SettlementBounds
<1>. QED BY <1>2, <1>3, SettlementBounds

LEMMA HalvedType == Halved(AgreedFee) \in 0 .. AgreedFee /\ \A n \in Nat : Halved(n) \in 0 .. n
BY SettlementBounds DEF Halved

\* Rows and disputes are never taken away, and belong to the same creator for ever.
Lasting ==
    /\ \A d \in DOMAIN dispute : d \in DOMAIN dispute' /\ dispute'[d].creator = dispute[d].creator
    /\ \A i \in DOMAIN release : i \in DOMAIN release' /\ release'[i].creator = release[i].creator

LEMMA LastingRows ==
    ASSUME Lasting, NEW c, RowsOf(c) # {}
    PROVE  RowsOf(c)' # {}
BY DEF Lasting, RowsOf

LEMMA StaysAtHand ==
    ASSUME Books, Lasting, NEW q \in Deciders, AtHand(q), job'[q] = job[q]
    PROVE  AtHand(q)'
<1>1. Owing(q)' = Owing(q)
    BY DEF Owing
<1>2. job[q].d \in DOMAIN dispute => job[q].d \in DOMAIN dispute' /\ Subject(q)' = Subject(q)
    BY DEF Lasting, Subject
<1>3. job[q].row \in DOMAIN release =>
        job[q].row \in DOMAIN release' /\ release'[job[q].row].creator = release[job[q].row].creator
    BY DEF Lasting
<1>4. job[q].d \in DOMAIN dispute /\ RowsOf(Subject(q)) # {} => RowsOf(Subject(q))' # {}
  <2>1. \A c : RowsOf(c) # {} => \E i \in DOMAIN release' : release'[i].creator = c
      BY LastingRows DEF RowsOf
  <2>. QED BY <1>2, <2>1 DEF RowsOf
<1>. QED BY <1>1, <1>2, <1>3, <1>4 DEF AtHand

-----------------------------------------------------------------------------
\* What becomes of a row, but for a decision on a dispute, which may halve it.
Moved(i) ==
    LET a == release[i]  b == release'[i]
    IN  /\ b.creator = a.creator /\ b.amount = a.amount
        /\ \/ b = a
           \/ /\ b.status = "disputed" /\ b.sent = a.sent
              /\ a.status = "pending" \/ "refrozen" \in blame'
           \/ a.status = "disputed" /\ b.status = "pending" /\ b.sent = a.sent
           \/ a.status = "pending" /\ b.status = "underway" /\ b.sent = a.sent + 1
           \/ a.sent > 0 /\ b.status = "released" /\ b.sent = a.sent

RowsMove ==
    /\ release' \in Seq(ReleaseRec) /\ DOMAIN release' = DOMAIN release
    /\ \A i \in DOMAIN release : Moved(i)

DisputesLast ==
    /\ dispute' \in Seq(DisputeRec)
    /\ \A d \in DOMAIN dispute : d \in DOMAIN dispute' /\ dispute'[d].creator = dispute[d].creator

LEMMA RowType ==
    ASSUME Books, NEW i \in DOMAIN release
    PROVE  /\ release[i] \in ReleaseRec /\ release[i].creator \in Creators /\ release[i].amount \in 0 .. AgreedFee
           /\ release[i].status \in RowStatus /\ release[i].sent \in Nat
<1>1. release[i] \in ReleaseRec
    BY DEF Books
<1>. QED BY <1>1 DEF ReleaseRec

LEMMA UntouchedRows ==
    ASSUME Books, UNCHANGED release
    PROVE  RowsMove
BY DEF Books, RowsMove, Moved

LEMMA UntouchedDisputes ==
    ASSUME Books, UNCHANGED dispute
    PROVE  DisputesLast
BY DEF Books, DisputesLast

LEMMA MovingLasts ==
    ASSUME RowsMove, DisputesLast
    PROVE  Lasting
BY DEF RowsMove, Moved, DisputesLast, Lasting

LEMMA SetStatusEffect ==
    ASSUME Books, NEW r, NEW from \in SUBSET RowStatus, NEW to \in RowStatus, SetStatus(r, from, to)
    PROVE  /\ release' \in Seq(ReleaseRec) /\ DOMAIN release' = DOMAIN release
           /\ \A i \in DOMAIN release :
                release'[i] = IF i = r /\ release[i].status \in from
                              THEN [release[i] EXCEPT !.status = to] ELSE release[i]
<1> DEFINE f == [i \in DOMAIN release |-> IF i = r /\ release[i].status \in from
                              THEN [release[i] EXCEPT !.status = to] ELSE release[i]]
<1>1. \A i \in DOMAIN release : f[i] \in ReleaseRec
    BY RowType DEF ReleaseRec
<1>2. release' = f /\ DOMAIN f = DOMAIN release /\ f = [i \in DOMAIN release |-> f[i]]
    BY DEF SetStatus
<1>3. release \in Seq(ReleaseRec)
    BY DEF Books
<1>4. f \in Seq(ReleaseRec)
  <2>. HIDE DEF f
  <2>. QED BY <1>1, <1>2, <1>3, MapSeq
<1>. QED BY <1>2, <1>4

LEMMA AppendDispute ==
    ASSUME Books, NEW c \in Creators, NewDispute(c)
    PROVE  DisputesLast
<1>1. [creator |-> c, open |-> TRUE] \in DisputeRec /\ dispute \in Seq(DisputeRec)
    BY DEF DisputeRec, Books
<1>. QED BY <1>1, AppendProperties DEF NewDispute, DisputesLast

LEMMA CloseDispute ==
    ASSUME Books, NEW d \in DOMAIN dispute, dispute' = [dispute EXCEPT ![d].open = FALSE]
    PROVE  DisputesLast
<1>1. dispute \in Seq(DisputeRec) /\ dispute[d] \in DisputeRec
    BY DEF Books
<1>2. [dispute[d] EXCEPT !.open = FALSE] \in DisputeRec
      /\ [dispute[d] EXCEPT !.open = FALSE].creator = dispute[d].creator
    BY <1>1 DEF DisputeRec
<1>3. PICK e : e = [dispute[d] EXCEPT !.open = FALSE]
    OBVIOUS
<1>4. dispute' = [dispute EXCEPT ![d] = e]
    BY <1>3
<1>. QED BY <1>1, <1>2, <1>3, <1>4, ExceptSeq DEF DisputesLast

LEMMA FrozenRows ==
    ASSUME Books, NEW c \in Creators, NEW r, RaiseDispute(c, r)
    PROVE  RowsMove
<1>1. SetStatus(r, RowStatus, "disputed")
      /\ blame' = blame \cup When("refrozen", r # 0 /\ release[r].status # "pending")
    BY DEF RaiseDispute
<1>2. "disputed" \in RowStatus /\ RowStatus \in SUBSET RowStatus
    BY DEF RowStatus
<1>3. \A i \in DOMAIN release :
          release'[i] = IF i = r THEN [release[i] EXCEPT !.status = "disputed"] ELSE release[i]
  <2>1. \A i \in DOMAIN release :
          release'[i] = IF i = r /\ release[i].status \in RowStatus
                        THEN [release[i] EXCEPT !.status = "disputed"] ELSE release[i]
      BY <1>1, <1>2, SetStatusEffect
  <2>2. \A i \in DOMAIN release : release[i].status \in RowStatus
      BY RowType
  <2>. QED BY <2>1, <2>2
<1>4. r \in DOMAIN release => r # 0
    BY DEF Books
<1>5. ASSUME NEW i \in DOMAIN release
      PROVE  Moved(i)
  <2>1. CASE i = r
    <3>1. release'[i] = [release[i] EXCEPT !.status = "disputed"] /\ release[i] \in ReleaseRec
        BY <1>3, <2>1, RowType
    <3>2. release'[i].status = "disputed" /\ release'[i].sent = release[i].sent
          /\ release'[i].creator = release[i].creator /\ release'[i].amount = release[i].amount
        BY <3>1 DEF ReleaseRec
    <3>3. release[i].status = "pending" \/ "refrozen" \in blame'
        BY <1>1, <1>4, <2>1 DEF When
    <3>. QED BY <3>2, <3>3 DEF Moved
  <2>2. CASE i # r
      BY <1>3, <2>2 DEF Moved
  <2>. QED BY <2>1, <2>2
<1>. QED BY <1>1, <1>2, <1>5, SetStatusEffect DEF RowsMove

LEMMA ThawedRows ==
    ASSUME Books, NEW r, SetStatus(r, {"disputed"}, "pending")
    PROVE  RowsMove
<1>1. "pending" \in RowStatus /\ {"disputed"} \in SUBSET RowStatus
    BY DEF RowStatus
<1>2. \A i \in DOMAIN release :
        release'[i] = IF i = r /\ release[i].status = "disputed"
                      THEN [release[i] EXCEPT !.status = "pending"] ELSE release[i]
  <2>1. \A i \in DOMAIN release :
          release'[i] = IF i = r /\ release[i].status \in {"disputed"}
                        THEN [release[i] EXCEPT !.status = "pending"] ELSE release[i]
      BY <1>1, SetStatusEffect
  <2>. QED BY <2>1
<1>3. ASSUME NEW i \in DOMAIN release
      PROVE  Moved(i)
  <2>1. CASE i = r /\ release[i].status = "disputed"
    <3>1. release'[i] = [release[i] EXCEPT !.status = "pending"] /\ release[i] \in ReleaseRec
        BY <1>2, <2>1, RowType
    <3>. QED BY <2>1, <3>1 DEF ReleaseRec, Moved
  <2>2. CASE ~(i = r /\ release[i].status = "disputed")
      BY <1>2, <2>2 DEF Moved
  <2>. QED BY <2>1, <2>2
<1>. QED BY <1>1, <1>3, SetStatusEffect DEF RowsMove

LEMMA PutRow ==
    ASSUME Books, NEW i \in DOMAIN release, NEW row \in ReleaseRec, release' = [release EXCEPT ![i] = row]
    PROVE  /\ release' \in Seq(ReleaseRec) /\ DOMAIN release' = DOMAIN release
           /\ release'[i] = row /\ \A j \in DOMAIN release : j # i => release'[j] = release[j]
BY ExceptSeq DEF Books

LEMMA PaidRows ==
    ASSUME Books, NEW i \in DOMAIN release, TakeUp(i) \/ \E h \in Hooks : ReceiveTransfer(h, i)
    PROVE  RowsMove
<1>1. release[i] \in ReleaseRec /\ release[i].sent \in Nat
    BY RowType
<1>2. CASE TakeUp(i)
  <2>1. PICK row : row = [release[i] EXCEPT !.status = "underway", !.sent = release[i].sent + 1]
      OBVIOUS
  <2>2. release[i].sent + 1 \in Nat /\ "underway" \in RowStatus
      BY <1>1 DEF RowStatus
  <2>3. row \in ReleaseRec /\ row.creator = release[i].creator /\ row.amount = release[i].amount
        /\ row.status = "underway" /\ row.sent = release[i].sent + 1
      BY <1>1, <2>1, <2>2 DEF ReleaseRec
  <2>4. release' = [release EXCEPT ![i] = row] /\ release[i].status = "pending"
      BY <1>2, <2>1 DEF TakeUp
  <2>. QED BY <2>3, <2>4, PutRow DEF RowsMove, Moved
<1>3. CASE \E h \in Hooks : ReceiveTransfer(h, i)
  <2>1. PICK row : row = [release[i] EXCEPT !.status = "released"]
      OBVIOUS
  <2>2. row \in ReleaseRec /\ row.creator = release[i].creator /\ row.amount = release[i].amount
        /\ row.status = "released" /\ row.sent = release[i].sent
      BY <1>1, <2>1 DEF ReleaseRec, RowStatus
  <2>3. release' = [release EXCEPT ![i] = row] /\ release[i].sent > 0
      BY <1>3, <2>1 DEF ReceiveTransfer
  <2>. QED BY <2>2, <2>3, PutRow DEF RowsMove, Moved
<1>. QED BY <1>2, <1>3

LEMMA AppendRow ==
    ASSUME Books, NEW c \in Creators, NEW amount \in 0 .. AgreedFee, release' = Append(release, NewRow(c, amount))
    PROVE  /\ release' \in Seq(ReleaseRec) /\ Len(release) + 1 \notin DOMAIN release
           /\ DOMAIN release' = DOMAIN release \cup {Len(release) + 1}
           /\ \A i \in DOMAIN release : release'[i] = release[i]
           /\ release'[Len(release) + 1] = NewRow(c, amount) /\ RowsOf(c)' # {}
<1>1. NewRow(c, amount) \in ReleaseRec /\ NewRow(c, amount).creator = c /\ release \in Seq(ReleaseRec)
    BY DEF NewRow, ReleaseRec, RowStatus, Books
<1>2. /\ release' \in Seq(ReleaseRec) /\ Len(release') = Len(release) + 1
      /\ \A i \in 1 .. Len(release) : release'[i] = release[i]
      /\ release'[Len(release) + 1] = NewRow(c, amount)
    BY <1>1, AppendProperties
<1>3. DOMAIN release = 1 .. Len(release) /\ DOMAIN release' = 1 .. Len(release') /\ Len(release) \in Nat
    BY <1>1, <1>2
<1>. QED BY <1>1, <1>2, <1>3 DEF RowsOf

-----------------------------------------------------------------------------
(* Requests, as far as their own state goes.                               *)

LEMMA JobEffect ==
    ASSUME Books, NEW q \in Deciders, NEW r \in DeedRec, job' = [job EXCEPT ![q] = r]
    PROVE  /\ job' \in [Deciders -> DeedRec] /\ job'[q] = r
           /\ \A p \in Deciders : p # q => job'[p] = job[p]
BY DEF Books

Keeping(q) ==
    /\ job'[q].d = job[q].d /\ job'[q].decision = job[q].decision /\ job'[q].row = job[q].row
    /\ job'[q].copy = job[q].copy /\ job'[q].owe = job[q].owe

Stepped(q) ==
    /\ job' \in [Deciders -> DeedRec] /\ \A p \in Deciders : p # q => job'[p] = job[p]

LEMMA GoEffect ==
    ASSUME Books, NEW q \in Deciders, NEW pc, Go(q, pc),
           pc \in {"idle", "resolve", "read", "row", "done", "release", "refund", "cancel", "list", "shares"}
    PROVE  Stepped(q) /\ Keeping(q) /\ job'[q].pc = pc /\ job'[q].back = job[q].back
<1>1. PICK r : r = [job[q] EXCEPT !.pc = pc]
    OBVIOUS
<1>2. job[q] \in DeedRec
    BY DEF Books
<1>3. r \in DeedRec /\ r.pc = pc /\ r.d = job[q].d /\ r.decision = job[q].decision /\ r.row = job[q].row
      /\ r.copy = job[q].copy /\ r.owe = job[q].owe /\ r.back = job[q].back
    BY <1>1, <1>2 DEF DeedRec
<1>4. job' = [job EXCEPT ![q] = r]
    BY <1>1 DEF Go
<1>. QED BY <1>3, <1>4, JobEffect DEF Stepped, Keeping

LEMMA FinishDeedEffect ==
    ASSUME Books, NEW q \in Deciders, FinishDeed(q)
    PROVE  Stepped(q) /\ job'[q] = NoDeed
BY NoDeedIs, JobEffect DEF FinishDeed, Stepped

LEMMA GoOnDeedEffect ==
    ASSUME Books, NEW q \in Deciders, NEW back \in 0 .. Budget, GoOnDeed(q, "refund", back)
    PROVE  /\ Stepped(q)
           /\ \/ back = 0 /\ job'[q] = NoDeed
              \/ back > 0 /\ Keeping(q) /\ job'[q].pc = "refund" /\ job'[q].back = back
<1>1. CASE back > 0
  <2>1. PICK r : r = [job[q] EXCEPT !.pc = "refund", !.back = back]
      OBVIOUS
  <2>2. job[q] \in DeedRec
      BY DEF Books
  <2>3. r \in DeedRec /\ r.pc = "refund" /\ r.d = job[q].d /\ r.decision = job[q].decision
        /\ r.row = job[q].row /\ r.copy = job[q].copy /\ r.owe = job[q].owe /\ r.back = back
      BY <2>1, <2>2 DEF DeedRec
  <2>4. job' = [job EXCEPT ![q] = r]
      BY <1>1, <2>1 DEF GoOnDeed
  <2>. QED BY <1>1, <2>3, <2>4, JobEffect DEF Stepped, Keeping
<1>2. CASE ~(back > 0)
    BY <1>2, SettlementBounds, FinishDeedEffect DEF GoOnDeed
<1>. QED BY <1>1, <1>2

LEMMA IdleAtHand ==
    ASSUME NEW q \in Deciders, job'[q] = NoDeed
    PROVE  AtHand(q)'
BY NoDeedIs DEF AtHand

LEMMA OnlyOwes ==
    ASSUME NEW q \in Deciders, NEW c, NEW amount \in 0 .. AgreedFee, job[q].owe = Only(c, amount)
    PROVE  /\ Owing(q) \subseteq {c}
           /\ \A e \in Owing(q) : e = c /\ job[q].owe[e] = amount
           /\ Only(c, amount) \in [Creators -> 0 .. AgreedFee]
BY SettlementBounds DEF Owing, Only

\* Once the request's own step is known, the others follow.
LEMMA StepAtHand ==
    ASSUME BooksInv, Lasting, NEW q \in Deciders, Stepped(q), AtHand(q)'
    PROVE  \A p \in Deciders : AtHand(p)'
<1>. SUFFICES ASSUME NEW p \in Deciders, p # q PROVE AtHand(p)'
    OBVIOUS
<1>1. job'[p] = job[p] /\ AtHand(p) /\ Books
    BY DEF Stepped, BooksInv
<1>. QED BY <1>1, StaysAtHand

\* What a new deed has at hand.
LEMMA BeginDeedEffect ==
    ASSUME BooksInv, NEW q \in Deciders, BeginDeed(q)
    PROVE  Stepped(q) /\ AtHand(q)' /\ job[q].pc = "idle" /\ job'[q].pc \in {"done", "resolve", "cancel"}
           /\ UNCHANGED <<campaign, work, dispute, release, refund, settled, blame, hook, scan, crashes>>
<1>1. Books
    BY DEF BooksInv
<1>2. ASSUME NEW c \in Creators, BeginApprove(q, c)
      PROVE  Stepped(q) /\ AtHand(q)' /\ job'[q].pc \in {"done", "resolve", "cancel"}
  <2>1. PICK r : r = [NoDeed EXCEPT !.pc = "done", !.owe = Only(c, AgreedFee)]
      OBVIOUS
  <2>2. Only(c, AgreedFee) \in [Creators -> 0 .. AgreedFee] /\ AgreedFee \in 0 .. AgreedFee
      BY SettlementBounds DEF Only
  <2>3. r \in DeedRec /\ r.pc = "done" /\ r.row = 0 /\ r.back = 0 /\ r.owe = Only(c, AgreedFee)
      BY <2>1, <2>2, NoDeedIs DEF DeedRec, NoDeed
  <2>4. Stepped(q) /\ job'[q] = r
      BY <1>1, <1>2, <2>1, <2>3, JobEffect DEF BeginApprove, Stepped
  <2>5. \A e \in Owing(q)' : e = c /\ r.owe[e] = AgreedFee
      BY <2>3, <2>4, SettlementBounds DEF Owing, Only
  <2>. QED BY <2>3, <2>4, <2>5, SettlementBounds DEF AtHand
<1>3. ASSUME NEW d \in DOMAIN dispute, NEW decision \in Decisions, BeginResolve(q, d, decision)
      PROVE  Stepped(q) /\ AtHand(q)' /\ job'[q].pc \in {"done", "resolve", "cancel"}
  <2>1. PICK r : r = [NoDeed EXCEPT !.pc = "resolve", !.d = d, !.decision = decision]
      OBVIOUS
  <2>2. d \in Nat
      BY <1>1 DEF Books
  <2>3. r \in DeedRec /\ r.pc = "resolve" /\ r.row = 0 /\ r.d = d /\ r.back = 0
      BY <2>1, <2>2, NoDeedIs DEF DeedRec, NoDeed
  <2>4. Stepped(q) /\ job'[q] = r /\ dispute' = dispute
      BY <1>1, <1>3, <2>1, <2>3, JobEffect DEF BeginResolve, Stepped
  <2>. QED BY <2>3, <2>4 DEF AtHand
<1>4. ASSUME BeginCancel(q)
      PROVE  Stepped(q) /\ AtHand(q)' /\ job'[q].pc \in {"done", "resolve", "cancel"}
  <2>1. PICK r : r = [NoDeed EXCEPT !.pc = "cancel"]
      OBVIOUS
  <2>2. r \in DeedRec /\ r.pc = "cancel"
      BY <2>1, NoDeedIs DEF DeedRec, NoDeed
  <2>3. Stepped(q) /\ job'[q] = r
      BY <1>1, <1>4, <2>1, <2>2, JobEffect DEF BeginCancel, Stepped
  <2>. QED BY <2>2, <2>3 DEF AtHand
<1>5. job[q].pc = "idle" /\ UNCHANGED <<campaign, work, dispute, release, refund, settled, blame, hook, scan, crashes>>
    BY DEF BeginDeed, BeginApprove, BeginResolve, BeginCancel, others
<1>. QED BY <1>2, <1>3, <1>4, <1>5 DEF BeginDeed

\* A deed that goes on: what its step does to releases and to what it has at hand.
LEMMA ResolvedEffect ==
    ASSUME BooksInv, NEW q \in Deciders, SaveResolved(q)
    PROVE  Stepped(q) /\ AtHand(q)' /\ DisputesLast /\ Lasting
<1>1. Books /\ AtHand(q) /\ job[q].pc = "resolve" /\ Go(q, "read") /\ release' = release
      /\ dispute' = [dispute EXCEPT ![job[q].d].open = FALSE]
    BY DEF BooksInv, SaveResolved
<1>2. job[q].d \in DOMAIN dispute /\ job[q].row = 0 /\ job[q].back = 0
    BY <1>1 DEF AtHand
<1>3. Stepped(q) /\ Keeping(q) /\ job'[q].pc = "read" /\ job'[q].back = job[q].back
    BY <1>1, GoEffect
<1>4. DisputesLast
    BY <1>1, <1>2, CloseDispute
<1>5. Lasting
    BY <1>1, <1>4, UntouchedRows, MovingLasts
<1>. QED BY <1>2, <1>3, <1>4, <1>5 DEF AtHand, Keeping, DisputesLast

LEMMA ReadEffect ==
    ASSUME BooksInv, NEW q \in Deciders, NEW r \in MaybeRow, ReadRelease(q, r)
    PROVE  Stepped(q) /\ AtHand(q)' /\ job'[q].pc = "row"
<1>1. Books /\ AtHand(q) /\ job[q].pc = "read" /\ r # 0 /\ IsRowOf(Subject(q), r) /\ UNCHANGED <<dispute, release>>
      /\ job' = [job EXCEPT ![q] = [job[q] EXCEPT !.pc = "row", !.row = r, !.copy = release[r]]]
    BY DEF BooksInv, ReadRelease
<1>2. r \in DOMAIN release /\ release[r].creator = Subject(q) /\ r \in Nat
    BY <1>1 DEF IsRowOf, RowsOf, Books
<1>3. release[r] \in ReleaseRec /\ job[q] \in DeedRec
    BY <1>1, <1>2, RowType DEF Books
<1>4. PICK new : new = [job[q] EXCEPT !.pc = "row", !.row = r, !.copy = release[r]]
    OBVIOUS
<1>5. new \in DeedRec /\ new.pc = "row" /\ new.row = r /\ new.copy = release[r] /\ new.d = job[q].d
    BY <1>2, <1>3, <1>4 DEF DeedRec
<1>6. Stepped(q) /\ job'[q] = new
    BY <1>1, <1>4, <1>5, JobEffect DEF Stepped
<1>7. Subject(q)' = Subject(q)
    BY <1>1, <1>5, <1>6 DEF Subject
<1>8. job[q].d \in DOMAIN dispute
    BY <1>1 DEF AtHand
<1>. QED BY <1>1, <1>2, <1>3, <1>5, <1>6, <1>7, <1>8 DEF AtHand

LEMMA WriteRowEffect ==
    ASSUME BooksInv, NEW q \in Deciders, WriteRow(q)
    PROVE  /\ Stepped(q) /\ AtHand(q)' /\ Lasting /\ release' \in Seq(ReleaseRec)
           /\ DOMAIN release' = DOMAIN release /\ job[q].row \in DOMAIN release
           /\ \A i \in DOMAIN release : i # job[q].row => release'[i] = release[i]
           /\ release'[job[q].row].sent = release[job[q].row].sent
           /\ release'[job[q].row].status = (IF NewStatus(q) = job[q].copy.status
                                             THEN release[job[q].row].status ELSE NewStatus(q))
           /\ release'[job[q].row].amount = (IF NewAmount(q) = job[q].copy.amount
                                             THEN release[job[q].row].amount ELSE NewAmount(q))
           /\ \/ BackOf(q) = 0 /\ job'[q] = NoDeed
              \/ BackOf(q) > 0 /\ Keeping(q) /\ job'[q].pc = "refund" /\ job'[q].back = BackOf(q)
<1>1. /\ Books /\ AtHand(q) /\ job[q].pc = "row" /\ GoOnDeed(q, "refund", BackOf(q)) /\ dispute' = dispute
      /\ job[q].copy \in ReleaseRec /\ job[q] \in DeedRec /\ job[q].row \in DOMAIN release
      /\ release[job[q].row].creator = Subject(q) /\ release[job[q].row] \in ReleaseRec
      /\ job[q].d \in DOMAIN dispute
  <2>1. Books /\ AtHand(q) /\ job[q].pc = "row" /\ GoOnDeed(q, "refund", BackOf(q)) /\ dispute' = dispute
      BY DEF BooksInv, WriteRow
  <2>. QED BY <2>1, RowType DEF AtHand, Books
<1>2. PICK i : i = job[q].row
    OBVIOUS
<1>3. PICK row : row = [release[i] EXCEPT
            !.status = IF NewStatus(q) = job[q].copy.status THEN release[i].status ELSE NewStatus(q),
            !.amount = IF NewAmount(q) = job[q].copy.amount THEN release[i].amount ELSE NewAmount(q)]
    OBVIOUS
<1>4. job[q].copy.amount \in 0 .. AgreedFee /\ job[q].decision \in Decisions
    BY <1>1 DEF ReleaseRec, DeedRec
<1>5. NewStatus(q) \in RowStatus /\ NewAmount(q) \in 0 .. AgreedFee /\ BackOf(q) \in 0 .. AgreedFee
  <2>1. Halved(job[q].copy.amount) \in 0 .. job[q].copy.amount
      BY <1>4, HalvedType
  <2>2. NewAmount(q) \in 0 .. AgreedFee
      BY <1>4, <2>1, SettlementBounds DEF NewAmount
  <2>3. BackOf(q) \in 0 .. AgreedFee
      BY <1>4, <2>1, SettlementBounds DEF BackOf, NewAmount
  <2>. QED BY <2>2, <2>3 DEF NewStatus, RowStatus
<1>6. row \in ReleaseRec /\ row.creator = release[i].creator /\ row.sent = release[i].sent
      /\ row.status = (IF NewStatus(q) = job[q].copy.status THEN release[i].status ELSE NewStatus(q))
      /\ row.amount = (IF NewAmount(q) = job[q].copy.amount THEN release[i].amount ELSE NewAmount(q))
    BY <1>1, <1>2, <1>3, <1>5 DEF ReleaseRec
<1>7. release' = [release EXCEPT ![i] = row]
    BY <1>2, <1>3 DEF WriteRow
<1>8. /\ release' \in Seq(ReleaseRec) /\ DOMAIN release' = DOMAIN release
      /\ release'[i] = row /\ \A j \in DOMAIN release : j # i => release'[j] = release[j]
    BY <1>1, <1>2, <1>6, <1>7, PutRow
<1>9. Lasting
    BY <1>1, <1>2, <1>6, <1>8 DEF Lasting
<1>10. AgreedFee <= Budget
  <2>1. Subject(q) \in Creators
      BY <1>1 DEF ReleaseRec
  <2>. QED BY <2>1, FeeIsPaid
<1>11. /\ Stepped(q)
       /\ \/ BackOf(q) = 0 /\ job'[q] = NoDeed
          \/ BackOf(q) > 0 /\ Keeping(q) /\ job'[q].pc = "refund" /\ job'[q].back = BackOf(q)
  <2>1. BackOf(q) \in 0 .. Budget
      BY <1>5, <1>10, SettlementBounds
  <2>. QED BY <1>1, <2>1, GoOnDeedEffect
<1>12. AtHand(q)'
  <2>1. CASE job'[q] = NoDeed
      BY <2>1, IdleAtHand
  <2>2. CASE BackOf(q) > 0 /\ Keeping(q) /\ job'[q].pc = "refund" /\ job'[q].back = BackOf(q)
    <3>1. job[q].decision \in {"brand", "split"}
        BY <2>2 DEF BackOf
    <3>2. Subject(q)' = Subject(q)
        BY <1>1, <2>2 DEF Subject, Keeping
    <3>3. job'[q].row = i /\ release'[i].creator = Subject(q) /\ i \in DOMAIN release' /\ i # 0
        BY <1>1, <1>2, <1>6, <1>8, <2>2 DEF Keeping, Books
    <3>4. job'[q].back \in 0 .. AgreedFee
        BY <1>5, <2>2, SettlementBounds
    <3>. QED BY <1>1, <2>2, <3>1, <3>2, <3>3, <3>4 DEF AtHand, Keeping
  <2>. QED BY <1>11, <2>1, <2>2
<1>. QED BY <1>1, <1>2, <1>6, <1>8, <1>9, <1>11, <1>12

LEMMA NoReleaseEffect ==
    ASSUME BooksInv, NEW q \in Deciders, NoRelease(q)
    PROVE  /\ Stepped(q) /\ AtHand(q)' /\ Subject(q) \in Creators /\ RowsOf(Subject(q)) = {}
           /\ \/ job'[q] = NoDeed
              \/ job'[q].pc = "done"
              \/ /\ job'[q].pc = "refund" /\ job'[q].decision = "brand" /\ job'[q].row = 0
                 /\ job'[q].back = AgreedFee /\ Subject(q)' = Subject(q)
<1>1. Books /\ AtHand(q) /\ job[q].pc = "read" /\ RowsOf(Subject(q)) = {} /\ UNCHANGED <<dispute, release>>
    BY DEF BooksInv, NoRelease
<1>2. job[q].d \in DOMAIN dispute /\ job[q] \in DeedRec /\ job[q].decision \in Decisions /\ job[q].row = 0
    BY <1>1 DEF AtHand, Books, DeedRec
<1>3. dispute[job[q].d] \in DisputeRec
    BY <1>1, <1>2 DEF Books
<1>4. Subject(q) \in Creators
    BY <1>3 DEF Subject, DisputeRec
<1>5. AgreedFee <= Budget /\ AgreedFee \in Nat /\ Budget \in Nat
    BY <1>4, FeeIsPaid, SettlementBounds
<1>6. PICK c : c = Subject(q)
    OBVIOUS
<1>7. PICK half : half = Halved(AgreedFee) /\ half \in 0 .. AgreedFee
    BY HalvedType
<1>8. ASSUME NEW r \in DeedRec, job' = [job EXCEPT ![q] = r], r.d = job[q].d
      PROVE  Stepped(q) /\ job'[q] = r /\ Subject(q)' = c
    BY <1>1, <1>6, <1>8, JobEffect DEF Stepped, Subject
<1>9. ASSUME NEW amount \in 0 .. AgreedFee, NEW back \in 0 .. AgreedFee, amount + back <= AgreedFee,
             back > 0 => job[q].decision = "split",
             job' = [job EXCEPT ![q] = [job[q] EXCEPT !.pc = "done", !.owe = Only(c, amount), !.back = back]]
      PROVE  Stepped(q) /\ AtHand(q)' /\ job'[q].pc = "done"
  <2>1. PICK r : r = [job[q] EXCEPT !.pc = "done", !.owe = Only(c, amount), !.back = back]
      OBVIOUS
  <2>2. Only(c, amount) \in [Creators -> 0 .. AgreedFee] /\ back \in 0 .. Budget
      BY <1>5 DEF Only
  <2>3. r \in DeedRec /\ r.pc = "done" /\ r.owe = Only(c, amount) /\ r.back = back /\ r.d = job[q].d
        /\ r.decision = job[q].decision /\ r.row = 0
      BY <1>2, <2>1, <2>2 DEF DeedRec
  <2>4. Stepped(q) /\ job'[q] = r /\ Subject(q)' = c
      BY <1>8, <1>9, <2>1, <2>3
  <2>5. \A e \in Owing(q)' : e = c /\ r.owe[e] = amount
      BY <1>5, <2>3, <2>4 DEF Owing, Only
  <2>. QED BY <1>1, <1>2, <1>9, <2>3, <2>4, <2>5 DEF AtHand
<1>10. CASE job[q].decision = "creator"
  <2>1. job' = [job EXCEPT ![q] = [job[q] EXCEPT !.pc = "done", !.owe = Only(c, AgreedFee)]]
      BY <1>6, <1>10 DEF NoRelease
  <2>2. [job[q] EXCEPT !.pc = "done", !.owe = Only(c, AgreedFee)]
          = [job[q] EXCEPT !.pc = "done", !.owe = Only(c, AgreedFee), !.back = 0]
    <3>1. job[q].back = 0
        BY <1>1 DEF AtHand
    <3>. QED BY <1>2, <3>1 DEF DeedRec
  <2>3. job' = [job EXCEPT ![q] = [job[q] EXCEPT !.pc = "done", !.owe = Only(c, AgreedFee), !.back = 0]]
      BY <2>1, <2>2
  <2>4. AgreedFee \in 0 .. AgreedFee /\ 0 \in 0 .. AgreedFee /\ AgreedFee + 0 <= AgreedFee /\ ~(0 > 0)
      BY <1>5
  <2>5. Stepped(q) /\ AtHand(q)' /\ job'[q].pc = "done"
      BY <1>9, <2>3, <2>4
  <2>. QED BY <1>1, <1>4, <2>5
<1>11. CASE job[q].decision = "split"
  <2>1. job' = [job EXCEPT ![q] = [job[q] EXCEPT !.pc = "done", !.owe = Only(c, half), !.back = AgreedFee - half]]
      BY <1>6, <1>7, <1>11 DEF NoRelease
  <2>2. AgreedFee - half \in 0 .. AgreedFee /\ half + (AgreedFee - half) <= AgreedFee
      BY <1>5, <1>7
  <2>3. Stepped(q) /\ AtHand(q)' /\ job'[q].pc = "done"
      BY <1>7, <1>9, <1>11, <2>1, <2>2
  <2>. QED BY <1>1, <1>4, <2>3
<1>12. CASE job[q].decision = "brand"
  <2>1. PICK r : r = [job[q] EXCEPT !.pc = "refund", !.back = AgreedFee]
      OBVIOUS
  <2>2. r \in DeedRec /\ r.pc = "refund" /\ r.back = AgreedFee /\ r.d = job[q].d /\ r.decision = "brand" /\ r.row = 0
    <3>1. AgreedFee \in 0 .. Budget
        BY <1>5
    <3>. QED BY <1>2, <1>12, <2>1, <3>1 DEF DeedRec
  <2>3. job' = [job EXCEPT ![q] = r]
      BY <1>12, <2>1 DEF NoRelease
  <2>4. Stepped(q) /\ job'[q] = r /\ Subject(q)' = c
      BY <1>8, <2>2, <2>3
  <2>5. AtHand(q)'
      BY <1>1, <1>2, <1>5, <2>2, <2>4 DEF AtHand
  <2>. QED BY <1>1, <1>4, <1>6, <2>2, <2>4, <2>5
<1>13. CASE job[q].decision = "extend"
  <2>1. job' = [job EXCEPT ![q] = NoDeed]
      BY <1>13 DEF NoRelease
  <2>2. Stepped(q) /\ job'[q] = NoDeed
      BY <1>1, <2>1, NoDeedIs, JobEffect DEF Stepped
  <2>. QED BY <1>1, <1>4, <2>2, IdleAtHand
<1>. QED BY <1>2, <1>10, <1>11, <1>12, <1>13 DEF Decisions
LEMMA SaveDoneEffect ==
    ASSUME BooksInv, NEW q \in Deciders, SaveDone(q)
    PROVE  Stepped(q) /\ AtHand(q)' /\ Keeping(q) /\ job'[q].pc = "release" /\ job'[q].back = job[q].back
           /\ work' \in [Creators -> WorkStatus]
           /\ \A c \in Creators : work'[c] = "done" => work[c] = "done" \/ c \in Owing(q)'
<1>1. Books /\ AtHand(q) /\ job[q].pc = "done" /\ Go(q, "release") /\ UNCHANGED <<dispute, release>>
      /\ work' = [c \in Creators |-> IF c \in Owing(q) /\ work[c] # "none" THEN "done" ELSE work[c]]
    BY DEF BooksInv, SaveDone
<1>2. Stepped(q) /\ Keeping(q) /\ job'[q].pc = "release" /\ job'[q].back = job[q].back
    BY <1>1, GoEffect
<1>3. Owing(q)' = Owing(q)
    BY <1>2 DEF Owing, Keeping
<1>4. Subject(q)' = Subject(q)
    BY <1>1, <1>2 DEF Subject, Keeping
<1>5. AtHand(q)'
    BY <1>1, <1>2, <1>3, <1>4 DEF AtHand, Keeping
<1>6. work' \in [Creators -> WorkStatus]
    BY <1>1 DEF Books, WorkStatus, ActiveWork
<1>. QED BY <1>1, <1>2, <1>3, <1>5, <1>6

LEMMA CreateReleaseEffect ==
    ASSUME BooksInv, NEW q \in Deciders, NEW c \in Creators, CreateRelease(q, c)
    PROVE  /\ Stepped(q) /\ AtHand(q)' /\ Lasting /\ c \in Owing(q) /\ job[q].owe[c] \in 0 .. AgreedFee
           /\ release' \in Seq(ReleaseRec) /\ RowsOf(c)' # {}
           /\ \/ job[q].back = 0 /\ job'[q] = NoDeed
              \/ job[q].back > 0 /\ Keeping(q) /\ job'[q].pc = "refund" /\ job'[q].back = job[q].back
<1>1. /\ Books /\ AtHand(q) /\ job[q].pc = "release" /\ c \in Owing(q) /\ dispute' = dispute
      /\ release' = Append(release, NewRow(c, job[q].owe[c])) /\ GoOnDeed(q, "refund", job[q].back)
    BY DEF BooksInv, CreateRelease
<1>2. job[q] \in DeedRec /\ job[q].back \in 0 .. Budget /\ job[q].owe[c] \in 0 .. AgreedFee
  <2>1. job[q] \in DeedRec
      BY <1>1 DEF Books
  <2>. QED BY <2>1 DEF DeedRec
<1>3. /\ release' \in Seq(ReleaseRec) /\ Len(release) + 1 \notin DOMAIN release
      /\ DOMAIN release' = DOMAIN release \cup {Len(release) + 1}
      /\ \A i \in DOMAIN release : release'[i] = release[i]
      /\ release'[Len(release) + 1] = NewRow(c, job[q].owe[c]) /\ RowsOf(c)' # {}
    BY <1>1, <1>2, AppendRow
<1>4. Lasting
    BY <1>1, <1>3 DEF Lasting
<1>5. /\ Stepped(q)
      /\ \/ job[q].back = 0 /\ job'[q] = NoDeed
         \/ job[q].back > 0 /\ Keeping(q) /\ job'[q].pc = "refund" /\ job'[q].back = job[q].back
    BY <1>1, <1>2, GoOnDeedEffect
<1>6. AtHand(q)'
  <2>1. CASE job'[q] = NoDeed
      BY <2>1, IdleAtHand
  <2>2. CASE job[q].back > 0 /\ Keeping(q) /\ job'[q].pc = "refund" /\ job'[q].back = job[q].back
    <3>1. job[q].d \in DOMAIN dispute /\ job[q].decision = "split" /\ c = Subject(q) /\ job[q].row = 0
          /\ job[q].owe[c] + job[q].back <= AgreedFee
        BY <1>1, <2>2 DEF AtHand
    <3>2. Subject(q)' = c
        BY <1>1, <2>2, <3>1 DEF Subject, Keeping
    <3>3. job'[q].back \in 0 .. AgreedFee
        BY <1>2, <2>2, <3>1, SettlementBounds
    <3>4. RowsOf(Subject(q))' # {}
        BY <1>3, <3>2 DEF RowsOf
    <3>. QED BY <1>1, <2>2, <3>1, <3>3, <3>4 DEF AtHand, Keeping
  <2>. QED BY <1>5, <2>1, <2>2
<1>. QED BY <1>1, <1>2, <1>3, <1>4, <1>5, <1>6

LEMMA TotalIsSum == ASSUME NEW f, NEW S PROVE Total(f, S) = SumOf(f, S)
BY DEF Total, SumOf

\* What cancelCampaign lists: a share of each creator, and what is left of the budget.
LEMMA ListSharesEffect ==
    ASSUME BooksInv, NEW q \in Deciders, ListShares(q)
    PROVE  /\ Stepped(q) /\ AtHand(q)' /\ job'[q].pc = "shares"
           /\ job'[q].owe = [c \in Creators |-> IF work[c] # "none" THEN AgreedFee
                                                ELSE AgreedFee - Halved(AgreedFee)]
           /\ job'[q].back = IF Total(job'[q].owe, Creators) < Budget
                             THEN Budget - Total(job'[q].owe, Creators) ELSE 0
<1>1. PICK share : share = [c \in Creators |-> IF work[c] # "none" THEN AgreedFee
                                               ELSE AgreedFee - Halved(AgreedFee)]
    OBVIOUS
<1>2. PICK back : back = IF Total(share, Creators) < Budget THEN Budget - Total(share, Creators) ELSE 0
    OBVIOUS
<1>3. job' = [job EXCEPT ![q] = [job[q] EXCEPT !.pc = "shares", !.owe = share, !.back = back]]
    BY <1>1, <1>2 DEF ListShares
<1>4. Books /\ job[q] \in DeedRec
    BY DEF BooksInv, Books
<1>5. share \in [Creators -> 0 .. AgreedFee]
  <2>1. AgreedFee \in 0 .. AgreedFee /\ AgreedFee - Halved(AgreedFee) \in 0 .. AgreedFee
      BY HalvedType, SettlementBounds
  <2>. QED BY <1>1, <2>1
<1>6. Total(share, Creators) \in Nat
  <2>1. \A c \in Creators : share[c] \in Nat
      BY <1>5, SettlementBounds
  <2>. QED BY <2>1, SumType, TotalIsSum, SettlementBounds
<1>7. back \in 0 .. Budget
    BY <1>2, <1>6, SettlementBounds
<1>8. PICK r : r = [job[q] EXCEPT !.pc = "shares", !.owe = share, !.back = back]
    OBVIOUS
<1>9. r \in DeedRec /\ r.pc = "shares" /\ r.owe = share /\ r.back = back
    BY <1>4, <1>5, <1>7, <1>8 DEF DeedRec
<1>10. Stepped(q) /\ job'[q] = r
    BY <1>3, <1>4, <1>8, <1>9, JobEffect DEF Stepped
<1>. QED BY <1>1, <1>2, <1>9, <1>10 DEF AtHand

LEMMA CreateShareEffect ==
    ASSUME BooksInv, NEW q \in Deciders, NEW c \in Creators, CreateShare(q, c)
    PROVE  /\ Stepped(q) /\ AtHand(q)' /\ Lasting /\ job[q].pc = "shares" /\ job'[q].pc = "shares"
           /\ c \in Owing(q) /\ job[q].owe[c] \in 0 .. AgreedFee
           /\ job'[q].owe = [job[q].owe EXCEPT ![c] = 0] /\ job'[q].back = job[q].back
           /\ release' \in Seq(ReleaseRec) /\ RowsOf(c)' # {}
<1>1. /\ Books /\ job[q].pc = "shares" /\ c \in Owing(q) /\ dispute' = dispute
      /\ release' = Append(release, NewRow(c, job[q].owe[c])) /\ job' = [job EXCEPT ![q].owe[c] = 0]
    BY DEF BooksInv, CreateShare
<1>2. job[q] \in DeedRec
    BY <1>1 DEF Books
<1>3. job[q].owe \in [Creators -> 0 .. AgreedFee]
    BY <1>2 DEF DeedRec
<1>4. PICK owe : owe = [job[q].owe EXCEPT ![c] = 0]
    OBVIOUS
<1>5. owe \in [Creators -> 0 .. AgreedFee]
    BY <1>3, <1>4, SettlementBounds
<1>6. PICK r : r = [job[q] EXCEPT !.owe = owe]
    OBVIOUS
<1>7. r \in DeedRec /\ r.pc = "shares" /\ r.owe = owe /\ r.back = job[q].back
    BY <1>1, <1>2, <1>5, <1>6 DEF DeedRec
<1>8. job' = [job EXCEPT ![q] = r]
    BY <1>1, <1>4, <1>6
<1>9. Stepped(q) /\ job'[q] = r
    BY <1>1, <1>7, <1>8, JobEffect DEF Stepped
<1>10. job[q].owe[c] \in 0 .. AgreedFee
    BY <1>3
<1>11. /\ release' \in Seq(ReleaseRec)
       /\ DOMAIN release' = DOMAIN release \cup {Len(release) + 1}
       /\ \A i \in DOMAIN release : release'[i] = release[i] /\ RowsOf(c)' # {}
    BY <1>1, <1>10, AppendRow
<1>12. RowsOf(c)' # {}
    BY <1>1, <1>10, AppendRow
<1>13. Lasting
    BY <1>1, <1>11 DEF Lasting
<1>. QED BY <1>1, <1>4, <1>7, <1>9, <1>10, <1>11, <1>12, <1>13 DEF AtHand

LEMMA AppendRefund ==
    ASSUME Books, NEW amount \in 0 .. Budget, refund' = Append(refund, amount)
    PROVE  /\ refund' \in Seq(0 .. Budget) /\ refund' # <<>> /\ Len(refund) + 1 \notin DOMAIN refund
           /\ DOMAIN refund' = DOMAIN refund \cup {Len(refund) + 1}
           /\ \A i \in DOMAIN refund : refund'[i] = refund[i]
           /\ refund'[Len(refund) + 1] = amount
<1>1. refund \in Seq(0 .. Budget)
    BY DEF Books
<1>2. /\ refund' \in Seq(0 .. Budget) /\ Len(refund') = Len(refund) + 1
      /\ \A i \in 1 .. Len(refund) : refund'[i] = refund[i]
      /\ refund'[Len(refund) + 1] = amount
    BY <1>1, AppendProperties
<1>3. DOMAIN refund = 1 .. Len(refund) /\ DOMAIN refund' = 1 .. Len(refund') /\ Len(refund) \in Nat
    BY <1>1, <1>2
<1>. QED BY <1>2, <1>3

\* Every step of a deed.
LEMMA GoOnEffects ==
    ASSUME BooksInv, NEW q \in Deciders, GoOnWithDeeds(q)
    PROVE  Stepped(q) /\ AtHand(q)' /\ Lasting /\ release' \in Seq(ReleaseRec) /\ dispute' \in Seq(DisputeRec)
<1>1. Books /\ release \in Seq(ReleaseRec) /\ dispute \in Seq(DisputeRec)
    BY DEF BooksInv, Books
<1>2. CASE SaveResolved(q)
    BY <1>1, <1>2, ResolvedEffect DEF SaveResolved, DisputesLast
<1>3. CASE \E r \in MaybeRow : ReadRelease(q, r)
    BY <1>1, <1>3, ReadEffect DEF ReadRelease, Lasting
<1>4. CASE WriteRow(q)
    BY <1>1, <1>4, WriteRowEffect DEF WriteRow
<1>5. CASE NoRelease(q)
    BY <1>1, <1>5, NoReleaseEffect DEF NoRelease, Lasting
<1>6. CASE SaveDone(q)
    BY <1>1, <1>6, SaveDoneEffect DEF SaveDone, Lasting
<1>7. CASE CreateRefund(q)
  <2>1. Stepped(q) /\ job'[q] = NoDeed
      BY <1>1, <1>7, FinishDeedEffect DEF CreateRefund
  <2>. QED BY <1>1, <1>7, <2>1, IdleAtHand DEF CreateRefund, Lasting
<1>8. CASE \E c \in Creators : CreateRelease(q, c)
    BY <1>1, <1>8, CreateReleaseEffect DEF CreateRelease
<1>9. CASE \E c \in Creators : CreateShare(q, c)
    BY <1>1, <1>9, CreateShareEffect DEF CreateShare
<1>10. CASE SaveCancelled(q)
  <2>1. Stepped(q) /\ job'[q].pc = "list"
      BY <1>1, <1>10, GoEffect DEF SaveCancelled
  <2>2. AtHand(q)'
      BY <2>1 DEF AtHand
  <2>. QED BY <1>1, <1>10, <2>1, <2>2 DEF SaveCancelled, Lasting
<1>11. CASE ListShares(q)
    BY <1>1, <1>11, ListSharesEffect DEF ListShares, Lasting
<1>12. CASE CreateRemainder(q)
  <2>1. Stepped(q) /\ job'[q] = NoDeed
      BY <1>1, <1>12, FinishDeedEffect DEF CreateRemainder
  <2>. QED BY <1>1, <1>12, <2>1, IdleAtHand DEF CreateRemainder, Lasting
<1>. QED BY <1>2, <1>3, <1>4, <1>5, <1>6, <1>7, <1>8, <1>9, <1>10, <1>11, <1>12 DEF GoOnWithDeeds

-----------------------------------------------------------------------------
(* Steps outside the requests that decide, and the whole of the next-state relation. *)

Outsiders ==
    \/ People
    \/ \E i \in DOMAIN release : TakeUp(i) \/ \E h \in Hooks : ReceiveTransfer(h, i)

Idlers == (\E h \in Hooks : HookStep(h)) \/ (\E s \in Scans : ScanStep(s)) \/ CrashDeed

\* What is left of the books when rows, disputes and requests are taken for granted.
OtherBooks ==
    /\ campaign \in CampaignStatus /\ work \in [Creators -> WorkStatus] /\ refund \in Seq(0 .. Budget)
    /\ hook \in [Hooks -> {"idle", "releases", "work", "campaign"}]
    /\ scan \in [Scans -> ScanRec] /\ settled \subseteq Creators
    /\ blame \subseteq {"late", "again", "refrozen", "rewritten", "crash"}
    /\ cancels \in 0 .. MaxCancels /\ crashes \in 0 .. MaxCrashes

LEMMA WhenBlames ==
    ASSUME NEW condition, NEW event \in {"late", "again", "refrozen", "rewritten", "crash"}
    PROVE  When(event, condition) \subseteq {"late", "again", "refrozen", "rewritten", "crash"}
BY DEF When

LEMMA OutsidersEffect ==
    ASSUME Books, Outsiders
    PROVE  /\ RowsMove /\ DisputesLast /\ OtherBooks'
           /\ UNCHANGED <<campaign, refund, job, scan, settled, cancels, crashes>>
           /\ \A c \in Creators : work'[c] = "done" => work[c] = "done"
<1>1. OtherBooks
    BY DEF Books, OtherBooks
<1>2. ASSUME NEW c \in Creators, Submit(c) \/ PostLive(c) \/ RejectDraft(c)
      PROVE  /\ RowsMove /\ DisputesLast /\ OtherBooks'
             /\ UNCHANGED <<campaign, refund, job, scan, settled, cancels, crashes>>
             /\ \A e \in Creators : work'[e] = "done" => work[e] = "done"
  <2>1. UNCHANGED <<release, campaign, refund, job, hook, scan, settled, blame, cancels, crashes>>
      BY <1>2 DEF Submit, PostLive, RejectDraft, bystanders
  <2>2. PICK to \in {"draft", "live", "disputed"} : work' = [work EXCEPT ![c] = to]
      BY <1>2 DEF Submit, PostLive, RejectDraft
  <2>3. work' \in [Creators -> WorkStatus] /\ \A e \in Creators : work'[e] = "done" => work[e] = "done"
      BY <2>2 DEF Books, WorkStatus, ActiveWork
  <2>4. DisputesLast
      BY <1>2, AppendDispute, UntouchedDisputes DEF Submit, PostLive, RejectDraft
  <2>. QED BY <1>1, <2>1, <2>3, <2>4, UntouchedRows DEF OtherBooks
<1>3. ASSUME NEW c \in Creators, NEW r \in MaybeRow, RaiseDispute(c, r)
      PROVE  /\ RowsMove /\ DisputesLast /\ OtherBooks'
             /\ UNCHANGED <<campaign, refund, job, scan, settled, cancels, crashes>>
             /\ \A e \in Creators : work'[e] = "done" => work[e] = "done"
  <2>1. UNCHANGED <<work, campaign, refund, job, hook, scan, settled, cancels, crashes>> /\ NewDispute(c)
        /\ blame' = blame \cup When("refrozen", r # 0 /\ release[r].status # "pending")
      BY <1>3 DEF RaiseDispute, bystanders
  <2>2. blame' \subseteq {"late", "again", "refrozen", "rewritten", "crash"}
      BY <1>1, <2>1, WhenBlames DEF OtherBooks
  <2>. QED BY <1>1, <1>3, <2>1, <2>2, FrozenRows, AppendDispute DEF OtherBooks
<1>4. ASSUME NEW d \in DOMAIN dispute, NEW r \in MaybeRow, DeclineDispute(d, r)
      PROVE  /\ RowsMove /\ DisputesLast /\ OtherBooks'
             /\ UNCHANGED <<campaign, refund, job, scan, settled, cancels, crashes>>
             /\ \A e \in Creators : work'[e] = "done" => work[e] = "done"
  <2>1. UNCHANGED <<work, campaign, refund, job, hook, scan, settled, blame, cancels, crashes>>
        /\ SetStatus(r, {"disputed"}, "pending") /\ dispute' = [dispute EXCEPT ![d].open = FALSE]
      BY <1>4 DEF DeclineDispute, bystanders
  <2>. QED BY <1>1, <2>1, ThawedRows, CloseDispute DEF OtherBooks
<1>5. ASSUME NEW i \in DOMAIN release, TakeUp(i) \/ \E h \in Hooks : ReceiveTransfer(h, i)
      PROVE  /\ RowsMove /\ DisputesLast /\ OtherBooks'
             /\ UNCHANGED <<campaign, refund, job, scan, settled, cancels, crashes>>
             /\ \A e \in Creators : work'[e] = "done" => work[e] = "done"
  <2>1. UNCHANGED <<work, dispute, campaign, refund, job, scan, settled, blame, cancels, crashes>>
      BY <1>5 DEF TakeUp, ReceiveTransfer
  <2>2. hook' = hook \/ \E h \in Hooks : hook' = [hook EXCEPT ![h] = "releases"]
      BY <1>5 DEF TakeUp, ReceiveTransfer
  <2>. QED BY <1>1, <1>5, <2>1, <2>2, PaidRows, UntouchedDisputes DEF OtherBooks
<1>. QED BY <1>2, <1>3, <1>4, <1>5 DEF Outsiders, People

LEMMA ScanSum == ASSUME Books PROVE SumReleases \in Nat
<1>1. IsFiniteSet(DOMAIN release)
  <2>1. DOMAIN release = 1 .. Len(release) /\ Len(release) \in Nat
      BY DEF Books
  <2>. QED BY <2>1, FS_Interval
<1>2. \A i \in DOMAIN release : Amounts[i] \in Nat
    BY RowType, SettlementBounds DEF Amounts
<1>. QED BY <1>1, <1>2, SumType, TotalIsSum DEF SumReleases

LEMMA IdlersEffect ==
    ASSUME Books, Idlers
    PROVE  /\ UNCHANGED <<work, dispute, release, settled, cancels>> /\ OtherBooks'
           /\ \/ job' = job
              \/ \E q \in Deciders : Stepped(q) /\ job'[q] = NoDeed /\ "crash" \in blame'
<1>1. OtherBooks
    BY DEF Books, OtherBooks
<1>2. ASSUME NEW h \in Hooks, HookStep(h)
      PROVE  OtherBooks' /\ UNCHANGED <<work, dispute, release, settled, cancels, job>>
  <2>1. UNCHANGED <<work, dispute, release, refund, job, scan, settled, blame, cancels, crashes>>
      BY <1>2 DEF HookStep, CountReleases, CountSubmissions, Complete, hookOnly
  <2>2. campaign' = campaign \/ campaign' = "completed"
      BY <1>2 DEF HookStep, CountReleases, CountSubmissions, Complete
  <2>3. \E at \in {"idle", "work", "campaign"} : hook' = [hook EXCEPT ![h] = at]
      BY <1>2 DEF HookStep, CountReleases, CountSubmissions, Complete
  <2>. QED BY <1>1, <2>1, <2>2, <2>3 DEF OtherBooks, CampaignStatus, Ended
<1>3. ASSUME NEW s \in Scans, ScanStep(s)
      PROVE  OtherBooks' /\ UNCHANGED <<work, dispute, release, settled, cancels, job>>
  <2>1. UNCHANGED <<campaign, work, dispute, release, job, hook, settled, cancels, crashes>>
      BY <1>3 DEF ScanStep, ListEnded, SumUp, QueueLeftover, scanOnly
  <2>2. blame' \subseteq {"late", "again", "refrozen", "rewritten", "crash"}
    <3>1. \E condition : blame' = blame \cup When("late", condition) \/ blame' = blame
        BY <1>3 DEF ScanStep, ListEnded, SumUp, QueueLeftover
    <3>. QED BY <1>1, <3>1, WhenBlames DEF OtherBooks
  <2>3. scan[s] \in ScanRec
      BY <1>1 DEF OtherBooks
  <2>4. refund' \in Seq(0 .. Budget)
    <3>1. CASE QueueLeftover(s)
      <4>1. (IF scan[s].sum < Budget THEN Budget - scan[s].sum ELSE 0) \in 0 .. Budget
          BY <2>3, SettlementBounds DEF ScanRec
      <4>. QED BY <3>1, <4>1, AppendRefund DEF QueueLeftover
    <3>2. CASE ~QueueLeftover(s)
        BY <1>1, <1>3, <3>2 DEF ScanStep, ListEnded, SumUp, OtherBooks
    <3>. QED BY <3>1, <3>2
  <2>5. scan' \in [Scans -> ScanRec]
    <3>1. PICK r : r = [scan[s] EXCEPT !.pc = "sum"]
        OBVIOUS
    <3>2. r \in ScanRec /\ IdleScan \in ScanRec /\ [pc |-> "queue", sum |-> SumReleases] \in ScanRec
        BY <2>3, <3>1, ScanSum DEF ScanRec, IdleScan
    <3>3. \E new \in ScanRec : scan' = [scan EXCEPT ![s] = new]
        BY <1>3, <3>1, <3>2 DEF ScanStep, ListEnded, SumUp, QueueLeftover
    <3>. QED BY <1>1, <3>3 DEF OtherBooks
  <2>. QED BY <1>1, <2>1, <2>2, <2>4, <2>5 DEF OtherBooks
<1>4. ASSUME CrashDeed
      PROVE  /\ OtherBooks' /\ UNCHANGED <<work, dispute, release, settled, cancels>>
             /\ \/ job' = job
                \/ \E q \in Deciders : Stepped(q) /\ job'[q] = NoDeed /\ "crash" \in blame'
  <2>1. UNCHANGED <<campaign, work, dispute, release, refund, settled, cancels>> /\ crashes' \in 0 .. MaxCrashes
      BY <1>1, <1>4, SettlementBounds DEF CrashDeed, OtherBooks
  <2>2. CASE \E q \in Deciders : FinishDeed(q) /\ blame' = blame \cup {"crash"} /\ UNCHANGED <<hook, scan>>
      BY <1>1, <2>1, <2>2, FinishDeedEffect DEF OtherBooks
  <2>3. CASE \E h \in Hooks : hook' = [hook EXCEPT ![h] = "idle"] /\ UNCHANGED <<job, scan, blame>>
      BY <1>1, <2>1, <2>3 DEF OtherBooks
  <2>4. CASE \E s \in Scans : scan' = [scan EXCEPT ![s] = IdleScan] /\ UNCHANGED <<job, hook, blame>>
    <3>1. IdleScan \in ScanRec
        BY DEF IdleScan, ScanRec
    <3>. QED BY <1>1, <2>1, <2>4, <3>1 DEF OtherBooks
  <2>. QED BY <1>4, <2>2, <2>3, <2>4 DEF CrashDeed
<1>. QED BY <1>2, <1>3, <1>4 DEF Idlers

\* What a step of a deed leaves of the other books.
LEMMA DeedBooks ==
    ASSUME BooksInv, NEW q \in Deciders, BeginDeed(q) \/ GoOnWithDeeds(q)
    PROVE  OtherBooks'
<1>1. OtherBooks /\ Books
    BY DEF BooksInv, Books, OtherBooks
<1>2. CASE BeginDeed(q)
  <2>1. UNCHANGED <<campaign, work, refund, settled, blame, hook, scan, crashes>>
      BY <1>2 DEF BeginDeed, BeginApprove, BeginResolve, BeginCancel, others
  <2>2. cancels' \in 0 .. MaxCancels
    <3>1. cancels' = cancels \/ (cancels < MaxCancels /\ cancels' = cancels + 1)
        BY <1>2 DEF BeginDeed, BeginApprove, BeginResolve, BeginCancel, others
    <3>. QED BY <1>1, <3>1, SettlementBounds DEF OtherBooks
  <2>. QED BY <1>1, <2>1, <2>2 DEF OtherBooks
<1>3. CASE GoOnWithDeeds(q)
  <2>1. UNCHANGED others
      BY <1>3 DEF GoOnWithDeeds, SaveResolved, ReadRelease, WriteRow, NoRelease, SaveDone, CreateRefund,
                  CreateRelease, CreateShare, SaveCancelled, ListShares, CreateRemainder
  <2>2. UNCHANGED <<hook, scan, cancels, crashes>>
      BY <2>1 DEF others
  <2>3. campaign' \in CampaignStatus
      BY <1>1, <1>3 DEF GoOnWithDeeds, SaveResolved, ReadRelease, WriteRow, NoRelease, SaveDone, CreateRefund,
                  CreateRelease, CreateShare, SaveCancelled, ListShares, CreateRemainder, CampaignStatus, Ended, OtherBooks
  <2>4. work' \in [Creators -> WorkStatus]
    <3>1. CASE SaveDone(q)
        BY <3>1, SaveDoneEffect
    <3>2. CASE ~SaveDone(q)
        BY <1>1, <1>3, <3>2 DEF GoOnWithDeeds, SaveResolved, ReadRelease, WriteRow, NoRelease, CreateRefund,
                  CreateRelease, CreateShare, SaveCancelled, ListShares, CreateRemainder, OtherBooks
    <3>. QED BY <3>1, <3>2
  <2>5. job[q].back \in 0 .. Budget
    <3>1. job[q] \in DeedRec
        BY <1>1 DEF Books
    <3>. QED BY <3>1 DEF DeedRec
  <2>6. refund' \in Seq(0 .. Budget)
    <3>1. refund' = refund \/ refund' = Append(refund, job[q].back)
        BY <1>3 DEF GoOnWithDeeds, SaveResolved, ReadRelease, WriteRow, NoRelease, SaveDone, CreateRefund,
                  CreateRelease, CreateShare, SaveCancelled, ListShares, CreateRemainder
    <3>. QED BY <1>1, <2>5, <3>1, AppendRefund DEF OtherBooks
  <2>7. settled' \subseteq Creators
    <3>1. CASE CreateRefund(q)
      <4>1. job[q].d \in DOMAIN dispute
          BY <3>1 DEF CreateRefund, BooksInv, AtHand
      <4>2. dispute[job[q].d] \in DisputeRec
          BY <1>1, <4>1 DEF Books
      <4>3. Subject(q) \in Creators
          BY <4>2 DEF Subject, DisputeRec
      <4>. QED BY <1>1, <3>1, <4>3 DEF CreateRefund, OtherBooks
    <3>2. CASE ~CreateRefund(q)
        BY <1>1, <1>3, <3>2 DEF GoOnWithDeeds, SaveResolved, ReadRelease, WriteRow, NoRelease, SaveDone,
                  CreateRelease, CreateShare, SaveCancelled, ListShares, CreateRemainder, OtherBooks
    <3>. QED BY <3>1, <3>2
  <2>8. blame' \subseteq {"late", "again", "refrozen", "rewritten", "crash"}
    <3>1. blame \subseteq {"late", "again", "refrozen", "rewritten", "crash"}
        BY <1>1 DEF OtherBooks
    <3>2. CASE \E c \in Creators : CreateRelease(q, c) \/ CreateShare(q, c)
      <4>1. PICK c \in Creators : blame' = blame \cup Blamed(q, c)
          BY <3>2 DEF CreateRelease, CreateShare
      <4>. QED BY <3>1, <4>1, WhenBlames DEF Blamed
    <3>3. CASE WriteRow(q)
      <4>1. PICK condition : blame' = blame \cup When("rewritten", condition)
          BY <3>3 DEF WriteRow
      <4>. QED BY <3>1, <4>1, WhenBlames
    <3>4. CASE CreateRefund(q)
      <4>1. PICK x, y : blame' = blame \cup When("late", x) \cup When("again", y)
          BY <3>4 DEF CreateRefund
      <4>. QED BY <3>1, <4>1, WhenBlames
    <3>5. CASE CreateRemainder(q)
      <4>1. PICK condition : blame' = blame \cup When("late", condition)
          BY <3>5 DEF CreateRemainder
      <4>. QED BY <3>1, <4>1, WhenBlames
    <3>6. CASE blame' = blame
        BY <3>1, <3>6
    <3>. QED BY <1>3, <3>2, <3>3, <3>4, <3>5, <3>6
             DEF GoOnWithDeeds, SaveResolved, ReadRelease, NoRelease, SaveDone, SaveCancelled, ListShares
  <2>. QED BY <1>1, <2>2, <2>3, <2>4, <2>6, <2>7, <2>8 DEF OtherBooks
<1>. QED BY <1>2, <1>3

LEMMA BooksStart == InitSettlement => BooksInv
<1>. SUFFICES ASSUME InitSettlement PROVE BooksInv
    OBVIOUS
<1>1. Books
    BY NoDeedIs, SettlementBounds DEF InitSettlement, Books, CampaignStatus, WorkStatus, ScanRec, IdleScan
<1>2. \A q \in Deciders : job[q] = NoDeed
    BY DEF InitSettlement
<1>3. \A q \in Deciders : AtHand(q)
    BY <1>2, NoDeedIs DEF AtHand
<1>. QED BY <1>1, <1>3 DEF BooksInv

LEMMA SettlementCases ==
    NextSettlement => Outsiders \/ Idlers \/ \E q \in Deciders : BeginDeed(q) \/ GoOnWithDeeds(q)
BY DEF NextSettlement, Outsiders, Idlers

LEMMA BooksStep == BooksInv /\ [NextSettlement]_settlementVars => BooksInv'
<1>. SUFFICES ASSUME BooksInv, [NextSettlement]_settlementVars PROVE BooksInv'
    OBVIOUS
<1>1. Books /\ \A q \in Deciders : AtHand(q)
    BY DEF BooksInv
<1>2. ASSUME Lasting, job' = job
      PROVE  \A q \in Deciders : AtHand(q)'
    BY <1>1, <1>2, StaysAtHand
<1>3. CASE Outsiders
    BY <1>1, <1>2, <1>3, OutsidersEffect, MovingLasts DEF BooksInv, Books, OtherBooks, RowsMove, DisputesLast
<1>4. CASE Idlers
  <2>1. UNCHANGED <<dispute, release>> /\ OtherBooks'
      BY <1>1, <1>4, IdlersEffect
  <2>2. Lasting
      BY <2>1 DEF Lasting
  <2>3. CASE job' = job
      BY <1>1, <1>2, <2>1, <2>2, <2>3 DEF BooksInv, Books, OtherBooks
  <2>4. CASE \E q \in Deciders : Stepped(q) /\ job'[q] = NoDeed
    <3>1. PICK q \in Deciders : Stepped(q) /\ job'[q] = NoDeed
        BY <2>4
    <3>2. \A p \in Deciders : AtHand(p)'
        BY <2>2, <3>1, IdleAtHand, StepAtHand
    <3>3. job' \in [Deciders -> DeedRec]
        BY <3>1 DEF Stepped
    <3>. QED BY <1>1, <2>1, <3>2, <3>3 DEF BooksInv, Books, OtherBooks
  <2>. QED BY <1>1, <1>4, <2>3, <2>4, IdlersEffect
<1>5. ASSUME NEW q \in Deciders, BeginDeed(q) \/ GoOnWithDeeds(q)
      PROVE  BooksInv'
  <2>1. Stepped(q) /\ AtHand(q)' /\ Lasting /\ release' \in Seq(ReleaseRec) /\ dispute' \in Seq(DisputeRec)
    <3>1. CASE BeginDeed(q)
        BY <1>1, <3>1, BeginDeedEffect DEF Lasting, Books
    <3>2. CASE GoOnWithDeeds(q)
        BY <3>2, GoOnEffects
    <3>. QED BY <1>5, <3>1, <3>2
  <2>2. \A p \in Deciders : AtHand(p)'
      BY <2>1, StepAtHand
  <2>3. OtherBooks' /\ job' \in [Deciders -> DeedRec]
      BY <1>5, <2>1, DeedBooks DEF Stepped
  <2>. QED BY <2>1, <2>2, <2>3 DEF BooksInv, Books, OtherBooks
<1>6. CASE UNCHANGED settlementVars
  <2>1. Lasting /\ job' = job
      BY <1>6 DEF settlementVars, Lasting
  <2>2. Books'
      BY <1>1, <1>6 DEF settlementVars, Books
  <2>. QED BY <1>2, <2>1, <2>2 DEF BooksInv
<1>. QED BY <1>3, <1>4, <1>5, <1>6, SettlementCases

LEMMA BooksAreTyped == BooksInv => SettlementTypeOK
<1>. SUFFICES ASSUME BooksInv PROVE SettlementTypeOK
    OBVIOUS
<1>1. Books
    BY DEF BooksInv
<1>2. release \in Seq(Rows) /\ dispute \in Seq([creator : Creators, open : BOOLEAN])
  <2>1. ReleaseRec \subseteq Rows
      BY SettlementBounds DEF ReleaseRec, Rows
  <2>2. release \in Seq(Rows)
      BY <1>1, <2>1 DEF Books
  <2>. QED BY <1>1, <2>2 DEF Books, DisputeRec
<1>3. \A q \in Deciders : job[q] \in DeedRec
    BY <1>1 DEF Books
<1>4. \A s \in Scans : scan[s] \in ScanRec
    BY <1>1 DEF Books
<1>. QED BY <1>1, <1>2, <1>3, <1>4 DEF Books, SettlementTypeOK, DeedRec, ScanRec

\* Releases, disputes, refunds and requests keep their shape: in particular no release is
\* above the agreed fee, and what a request is about to write names a row that is there.
THEOREM SettlementTypeCorrect == SpecSettlement => []SettlementTypeOK
BY BooksStart, BooksStep, BooksAreTyped, PTL DEF SpecSettlement

-----------------------------------------------------------------------------
(* Finished work is owed.                                                  *)

\* Whoever's work is done has a row for good, or the request that marked it done is the
\* next to create one: approveLivePost and resolveDispute name the creator they go on to pay.
LEMMA OwedStep == BooksInv /\ OwedInv /\ [NextSettlement]_settlementVars => OwedInv'
<1>. SUFFICES ASSUME BooksInv, OwedInv, [NextSettlement]_settlementVars PROVE OwedInv'
    OBVIOUS
<1>1. Books
    BY DEF BooksInv
<1>2. ASSUME "crash" \in blame' PROVE OwedInv'
    BY <1>2 DEF OwedInv
<1>. SUFFICES ASSUME "crash" \notin blame' PROVE OwedInv'
    BY <1>2
<1>3. CASE Outsiders
  <2>1. Lasting /\ job' = job /\ \A c \in Creators : work'[c] = "done" => work[c] = "done"
      BY <1>1, <1>3, OutsidersEffect, MovingLasts
  <2>2. blame \subseteq blame'
      BY <1>3 DEF Outsiders, People, Submit, PostLive, RejectDraft, RaiseDispute, DeclineDispute, TakeUp,
                  ReceiveTransfer
  <2>. QED BY <2>1, <2>2, LastingRows DEF OwedInv, Owing
<1>4. CASE Idlers
  <2>1. UNCHANGED <<work, release, job>>
      BY <1>1, <1>4, IdlersEffect
  <2>2. blame \subseteq blame'
      BY <1>4 DEF Idlers, HookStep, CountReleases, CountSubmissions, Complete, hookOnly, ScanStep, ListEnded,
                  SumUp, QueueLeftover, CrashDeed
  <2>. QED BY <2>1, <2>2 DEF OwedInv, Owing, RowsOf
<1>5. ASSUME NEW q \in Deciders, BeginDeed(q) \/ GoOnWithDeeds(q)
      PROVE  OwedInv'
  <2>1. Stepped(q) /\ Lasting /\ blame \subseteq blame'
    <3>1. CASE BeginDeed(q)
        BY <3>1, BeginDeedEffect DEF Lasting
    <3>2. CASE GoOnWithDeeds(q)
      <4>1. blame \subseteq blame'
          BY <3>2 DEF GoOnWithDeeds, SaveResolved, ReadRelease, WriteRow, NoRelease, SaveDone, CreateRefund,
                  CreateRelease, CreateShare, SaveCancelled, ListShares, CreateRemainder
      <4>. QED BY <3>2, <4>1, GoOnEffects
    <3>. QED BY <1>5, <3>1, <3>2
  <2>2. ASSUME NEW c \in Creators, work'[c] = "done"
        PROVE  RowsOf(c)' # {} \/ \E p \in Deciders : job'[p].pc = "release" /\ c \in Owing(p)'
    <3>1. CASE RowsOf(c) # {}
        BY <2>1, <3>1, LastingRows
    <3>2. ASSUME NEW p \in Deciders, p # q, job[p].pc = "release", c \in Owing(p)
          PROVE  job'[p].pc = "release" /\ c \in Owing(p)'
        BY <2>1, <3>2 DEF Stepped, Owing
    <3>3. CASE job[q].pc = "release" /\ c \in Owing(q)
      <4>1. PICK e \in Creators : CreateRelease(q, e)
          BY <1>5, <3>3 DEF BeginDeed, BeginApprove, BeginResolve, BeginCancel, GoOnWithDeeds, SaveResolved,
                  ReadRelease, WriteRow, NoRelease, SaveDone, CreateRefund, CreateShare, SaveCancelled,
                  ListShares, CreateRemainder
      <4>2. e \in Owing(q) /\ RowsOf(e)' # {}
          BY <4>1, CreateReleaseEffect
      <4>3. e = c
          BY <3>3, <4>2 DEF BooksInv, AtHand
      <4>. QED BY <4>2, <4>3
    <3>4. CASE work[c] = "done" /\ RowsOf(c) = {}
        BY <2>1, <3>2, <3>3, <3>4 DEF OwedInv
    <3>5. CASE work[c] # "done"
      <4>1. SaveDone(q)
          BY <1>5, <2>2, <3>5 DEF BeginDeed, BeginApprove, BeginResolve, BeginCancel, GoOnWithDeeds, SaveResolved,
                  ReadRelease, WriteRow, NoRelease, CreateRelease, CreateRefund, CreateShare, SaveCancelled,
                  ListShares, CreateRemainder
      <4>2. job'[q].pc = "release" /\ c \in Owing(q)'
          BY <2>2, <3>5, <4>1, SaveDoneEffect
      <4>. QED BY <4>2
    <3>. QED BY <3>1, <3>4, <3>5
  <2>. QED BY <2>2 DEF OwedInv
<1>6. CASE UNCHANGED settlementVars
    BY <1>6 DEF settlementVars, OwedInv, Owing, RowsOf
<1>. QED BY <1>3, <1>4, <1>5, <1>6, SettlementCases

\* approveLivePost and resolveDispute never mark a submission done and then leave the
\* creator unpaid, unless the process dies between the two writes.
THEOREM FinishedWorkIsOwed == SpecSettlement => []DoneIsOwed
<1>1. InitSettlement => OwedInv
    BY DEF InitSettlement, OwedInv
<1>2. OwedInv => DoneIsOwed
    BY DEF OwedInv, DoneIsOwed
<1>. QED BY <1>1, <1>2, BooksStart, BooksStep, OwedStep, PTL DEF SpecSettlement

-----------------------------------------------------------------------------
(* The budget.  What a creator's row still costs it, creator by creator.   *)

Held(rows, c) == {i \in DOMAIN rows : rows[i].creator = c}
RowHeld(rows, c) == rows[CHOOSE i \in Held(rows, c) : TRUE]
OneEach(rows) == \A i, j \in DOMAIN rows : rows[i].creator = rows[j].creator => i = j

Cost(row) == IF row.status = "cancelled" THEN 0 ELSE row.amount
Worth(rows, c) == IF Held(rows, c) = {} THEN 0 ELSE Cost(RowHeld(rows, c))
Stated(rows, c) == IF Held(rows, c) = {} THEN 0 ELSE RowHeld(rows, c).amount

LEMMA RowIn ==
    ASSUME NEW rows \in Seq(ReleaseRec), NEW i \in DOMAIN rows
    PROVE  /\ rows[i] \in ReleaseRec /\ rows[i].creator \in Creators /\ rows[i].amount \in 0 .. AgreedFee
           /\ rows[i].status \in RowStatus /\ rows[i].sent \in Nat /\ Cost(rows[i]) \in 0 .. rows[i].amount
<1>1. rows[i] \in ReleaseRec
    OBVIOUS
<1>. QED BY <1>1, SettlementBounds DEF ReleaseRec, Cost

LEMMA HeldOne ==
    ASSUME NEW rows \in Seq(ReleaseRec), OneEach(rows), NEW i \in DOMAIN rows
    PROVE  /\ Held(rows, rows[i].creator) # {} /\ RowHeld(rows, rows[i].creator) = rows[i]
           /\ Worth(rows, rows[i].creator) = Cost(rows[i])
           /\ Stated(rows, rows[i].creator) = rows[i].amount
<1>1. PICK c : c = rows[i].creator
    OBVIOUS
<1>2. PICK j : j = CHOOSE k \in Held(rows, c) : TRUE
    OBVIOUS
<1>3. i \in Held(rows, c)
    BY <1>1 DEF Held
<1>4. j \in Held(rows, c)
    BY <1>2, <1>3
<1>5. j = i
    BY <1>1, <1>4 DEF Held, OneEach
<1>6. RowHeld(rows, c) = rows[i]
    BY <1>2, <1>5 DEF RowHeld
<1>. QED BY <1>1, <1>3, <1>6 DEF Worth, Stated

LEMMA HeldBy ==
    ASSUME NEW rows, NEW c
    PROVE  \/ Held(rows, c) = {} /\ Worth(rows, c) = 0 /\ Stated(rows, c) = 0
           \/ \E i \in DOMAIN rows : rows[i].creator = c
BY DEF Held, Worth, Stated

LEMMA WorthBounds ==
    ASSUME NEW rows \in Seq(ReleaseRec), OneEach(rows), NEW c
    PROVE  Worth(rows, c) \in 0 .. AgreedFee /\ Stated(rows, c) \in 0 .. AgreedFee
           /\ Worth(rows, c) <= Stated(rows, c)
<1>1. CASE Held(rows, c) = {} /\ Worth(rows, c) = 0 /\ Stated(rows, c) = 0
    BY <1>1, SettlementBounds
<1>2. CASE \E i \in DOMAIN rows : rows[i].creator = c
  <2>1. PICK i \in DOMAIN rows : rows[i].creator = c
      BY <1>2
  <2>2. Worth(rows, c) = Cost(rows[i]) /\ Stated(rows, c) = rows[i].amount
      BY <2>1, HeldOne
  <2>. QED BY <2>2, RowIn, SettlementBounds
<1>. QED BY <1>1, <1>2, HeldBy

LEMMA FiniteRows ==
    ASSUME NEW R, NEW rows \in Seq(R)
    PROVE  IsFiniteSet(DOMAIN rows)
<1>1. DOMAIN rows = 1 .. Len(rows) /\ Len(rows) \in Nat
    OBVIOUS
<1>. QED BY <1>1, FS_Interval

\* A sum over rows is a sum over the creators who hold them.
LEMMA SumByCreator ==
    ASSUME NEW rows \in Seq(ReleaseRec), OneEach(rows)
    PROVE  /\ SumOf([i \in DOMAIN rows |-> Cost(rows[i])], DOMAIN rows)
                = SumOf([c \in Creators |-> Worth(rows, c)], Creators)
           /\ SumOf([i \in DOMAIN rows |-> rows[i].amount], DOMAIN rows)
                = SumOf([c \in Creators |-> Stated(rows, c)], Creators)
<1>1. PICK S, T : S = DOMAIN rows /\ T = Creators
    OBVIOUS
<1>2. IsFiniteSet(S) /\ IsFiniteSet(T)
    BY <1>1, FiniteRows, SettlementBounds
<1>3. PICK h : h = [i \in S |-> rows[i].creator]
    OBVIOUS
<1>4. \A i \in S : h[i] \in T /\ h[i] = rows[i].creator
    BY <1>1, <1>3, RowIn
<1>5. \A x, y \in S : h[x] = h[y] => x = y
    BY <1>1, <1>4 DEF OneEach
<1>6. PICK f, g : f = [i \in S |-> Cost(rows[i])] /\ g = [c \in T |-> Worth(rows, c)]
    OBVIOUS
<1>7. SumOf(f, S) = SumOf(g, T)
  <2>1. \A x \in S : f[x] \in Int /\ h[x] \in T /\ g[h[x]] = f[x]
    <3>. SUFFICES ASSUME NEW x \in S PROVE f[x] \in Int /\ h[x] \in T /\ g[h[x]] = f[x]
        OBVIOUS
    <3>1. Cost(rows[x]) \in 0 .. rows[x].amount /\ rows[x].amount \in 0 .. AgreedFee
          /\ Worth(rows, rows[x].creator) = Cost(rows[x])
        BY <1>1, RowIn, HeldOne
    <3>. QED BY <1>4, <1>6, <3>1
  <2>2. \A y \in T : g[y] \in Int /\ (g[y] # 0 => \E x \in S : h[x] = y)
    <3>. SUFFICES ASSUME NEW y \in T PROVE g[y] \in Int /\ (g[y] # 0 => \E x \in S : h[x] = y)
        OBVIOUS
    <3>1. Worth(rows, y) \in 0 .. AgreedFee
        BY WorthBounds
    <3>2. Worth(rows, y) # 0 => \E x \in S : rows[x].creator = y
        BY <1>1, HeldBy
    <3>. QED BY <1>4, <1>6, <3>1, <3>2
  <2>. QED BY <1>2, <1>5, <2>1, <2>2, SumRenamed
<1>8. PICK a, b : a = [i \in S |-> rows[i].amount] /\ b = [c \in T |-> Stated(rows, c)]
    OBVIOUS
<1>9. SumOf(a, S) = SumOf(b, T)
  <2>1. \A x \in S : a[x] \in Int /\ h[x] \in T /\ b[h[x]] = a[x]
    <3>. SUFFICES ASSUME NEW x \in S PROVE a[x] \in Int /\ h[x] \in T /\ b[h[x]] = a[x]
        OBVIOUS
    <3>1. rows[x].amount \in 0 .. AgreedFee /\ Stated(rows, rows[x].creator) = rows[x].amount
        BY <1>1, RowIn, HeldOne
    <3>. QED BY <1>4, <1>8, <3>1
  <2>2. \A y \in T : b[y] \in Int /\ (b[y] # 0 => \E x \in S : h[x] = y)
    <3>. SUFFICES ASSUME NEW y \in T PROVE b[y] \in Int /\ (b[y] # 0 => \E x \in S : h[x] = y)
        OBVIOUS
    <3>1. Stated(rows, y) \in 0 .. AgreedFee
        BY WorthBounds
    <3>2. Stated(rows, y) # 0 => \E x \in S : rows[x].creator = y
        BY <1>1, HeldBy
    <3>. QED BY <1>4, <1>8, <3>1, <3>2
  <2>. QED BY <1>2, <1>5, <2>1, <2>2, SumRenamed
<1>. QED BY <1>1, <1>6, <1>7, <1>8, <1>9

\* Limits on what each creator may still cost: together they are within the budget.
Caps == [Creators -> 0 .. AgreedFee]

LEMMA CapsFit ==
    ASSUME NEW K \in Caps
    PROVE  SumOf(K, Creators) \in Nat /\ SumOf(K, Creators) <= Budget
<1>1. \A c \in Creators : K[c] \in 0 .. AgreedFee /\ K[c] \in Nat
    BY SettlementBounds DEF Caps
<1>2. SumOf(K, Creators) \in Nat
    BY <1>1, SumType, SettlementBounds
<1>3. SumOf(K, Creators) <= Cardinality(Creators) * AgreedFee
    BY <1>1, SumBound, SettlementBounds
<1>4. Cardinality(Creators) * AgreedFee \in Nat
  <2>1. Cardinality(Creators) \in Nat
      BY FS_CardinalityType, SettlementBounds
  <2>. QED BY <2>1, SettlementBounds
<1>. QED BY <1>2, <1>3, <1>4, SettlementBounds

LEMMA LowerCap ==
    ASSUME NEW K \in Caps, NEW c \in Creators, NEW v \in 0 .. AgreedFee
    PROVE  /\ [K EXCEPT ![c] = v] \in Caps
           /\ SumOf([K EXCEPT ![c] = v], Creators) = SumOf(K, Creators) - K[c] + v
<1>1. PICK h : h = [K EXCEPT ![c] = v]
    OBVIOUS
<1>2. h \in Caps /\ h[c] = v /\ \A e \in Creators \ {c} : h[e] = K[e]
    BY <1>1 DEF Caps
<1>3. \A e \in Creators : K[e] \in Int /\ h[e] \in Int
  <2>1. \A e \in Creators : K[e] \in 0 .. AgreedFee /\ h[e] \in 0 .. AgreedFee
      BY <1>2 DEF Caps
  <2>. QED BY <2>1, SettlementBounds
<1>4. SumOf(h, Creators) = SumOf(K, Creators) - K[c] + h[c]
  <2>1. IsFiniteSet(Creators) /\ \A e \in Creators \ {c} : h[e] = K[e]
      BY <1>2, SettlementBounds
  <2>. QED BY <1>3, <2>1, SumChange
<1>. QED BY <1>1, <1>2, <1>4

LEMMA WorthCaps ==
    ASSUME NEW rows \in Seq(ReleaseRec), OneEach(rows)
    PROVE  [c \in Creators |-> Worth(rows, c)] \in Caps /\ [c \in Creators |-> Stated(rows, c)] \in Caps
           /\ [c \in Creators |-> AgreedFee] \in Caps
BY WorthBounds, SettlementBounds DEF Caps

\* Rows that stay where they are.
LEMMA HeldStill ==
    ASSUME NEW rows \in Seq(ReleaseRec), OneEach(rows), NEW new \in Seq(ReleaseRec),
           DOMAIN new = DOMAIN rows, \A i \in DOMAIN rows : new[i].creator = rows[i].creator
    PROVE  /\ OneEach(new) /\ \A c : Held(new, c) = Held(rows, c)
           /\ \A i \in DOMAIN rows : /\ Worth(new, rows[i].creator) = Cost(new[i])
                                     /\ Stated(new, rows[i].creator) = new[i].amount
<1>1. OneEach(new)
    BY DEF OneEach
<1>2. \A c : Held(new, c) = Held(rows, c)
    BY DEF Held
<1>. QED BY <1>1, <1>2, HeldOne

LEMMA WorthFalls ==
    ASSUME NEW rows \in Seq(ReleaseRec), OneEach(rows), NEW new \in Seq(ReleaseRec),
           DOMAIN new = DOMAIN rows, \A i \in DOMAIN rows : new[i].creator = rows[i].creator,
           \A i \in DOMAIN rows : Cost(new[i]) <= Cost(rows[i])
    PROVE  \A c : Worth(new, c) <= Worth(rows, c)
<1>. SUFFICES ASSUME NEW c PROVE Worth(new, c) <= Worth(rows, c)
    OBVIOUS
<1>1. CASE \E i \in DOMAIN rows : rows[i].creator = c
    BY <1>1, HeldStill, HeldOne
<1>2. CASE ~ \E i \in DOMAIN rows : rows[i].creator = c
    BY <1>2, HeldBy
<1>. QED BY <1>1, <1>2

LEMMA StatedStays ==
    ASSUME NEW rows \in Seq(ReleaseRec), OneEach(rows), NEW new \in Seq(ReleaseRec),
           DOMAIN new = DOMAIN rows, \A i \in DOMAIN rows : new[i].creator = rows[i].creator,
           \A i \in DOMAIN rows : new[i].amount = rows[i].amount
    PROVE  \A c : Stated(new, c) = Stated(rows, c)
<1>. SUFFICES ASSUME NEW c PROVE Stated(new, c) = Stated(rows, c)
    OBVIOUS
<1>1. CASE \E i \in DOMAIN rows : rows[i].creator = c
    BY <1>1, HeldStill, HeldOne
<1>2. CASE ~ \E i \in DOMAIN rows : rows[i].creator = c
    BY <1>2, HeldBy
<1>. QED BY <1>1, <1>2

\* A row for a creator who held none.
LEMMA HeldAnew ==
    ASSUME NEW rows \in Seq(ReleaseRec), OneEach(rows), NEW new \in Seq(ReleaseRec), NEW n, n \notin DOMAIN rows,
           DOMAIN new = DOMAIN rows \cup {n}, \A i \in DOMAIN rows : new[i] = rows[i],
           NEW c, new[n].creator = c, new[n].status = "pending", Held(rows, c) = {}
    PROVE  /\ OneEach(new) /\ Worth(new, c) = new[n].amount /\ Stated(new, c) = new[n].amount
           /\ \A e : e # c => Worth(new, e) = Worth(rows, e) /\ Stated(new, e) = Stated(rows, e)
                              /\ Held(new, e) = Held(rows, e)
<1>1. OneEach(new)
    BY DEF OneEach, Held
<1>2. Worth(new, c) = Cost(new[n]) /\ Stated(new, c) = new[n].amount
    BY <1>1, HeldOne
<1>3. ASSUME NEW e, e # c
      PROVE  Worth(new, e) = Worth(rows, e) /\ Stated(new, e) = Stated(rows, e)
  <2>1. CASE \E i \in DOMAIN rows : rows[i].creator = e
    <3>1. PICK i \in DOMAIN rows : rows[i].creator = e
        BY <2>1
    <3>2. i \in DOMAIN new /\ new[i] = rows[i]
        OBVIOUS
    <3>. QED BY <1>1, <3>1, <3>2, HeldOne
  <2>2. CASE ~ \E i \in DOMAIN rows : rows[i].creator = e
    <3>1. ~ \E i \in DOMAIN new : new[i].creator = e
        BY <1>3, <2>2
    <3>. QED BY <2>2, <3>1, HeldBy
  <2>. QED BY <2>1, <2>2
<1>4. \A e : e # c => Held(new, e) = Held(rows, e)
    BY DEF Held
<1>. QED BY <1>1, <1>2, <1>3, <1>4 DEF Cost

\* Without a step after which the sums may not add up; a crash only leaves less owed.
Fair == blame \subseteq {"crash"}

\* A row is paid once.
SentOk == \A i \in DOMAIN release :
    release[i].sent = IF release[i].status \in {"underway", "released"} THEN 1 ELSE 0

\* A decision that has written a row and has not queued the brand's part yet.
Flying(q) == job[q].pc = "refund" /\ job[q].row # 0

\* What the brand is about to get back is not in the row.
FlightOf(q) ==
    /\ job[q].pc = "refund" /\ ~(OnlyBack(q) /\ Held(release, Subject(q)) # {}) =>
         Worth(release, Subject(q)) + job[q].back <= AgreedFee
    /\ Flying(q) /\ job[q].decision = "brand" =>
         release[job[q].row].status = "cancelled" /\ job[q].back <= release[job[q].row].amount
FlightOk == \A q \in Deciders : FlightOf(q)

\* Limit K covers what a creator may still cost.
CoversAt(K, c) ==
    /\ Worth(release, c) <= K[c]
    /\ \A q \in Deciders : Flying(q) /\ Subject(q) = c /\ c \notin settled =>
            Worth(release, c) + job[q].back <= K[c]
Covers(K) == \A c \in Creators : CoversAt(K, c)

Refunded == SumOf(refund, DOMAIN refund)

\* Once something is refunded, the rest covers the creators; the leftover that the scan is
\* about to queue, and the remainder of a cancelled campaign, leave enough for them.
RefundOk == refund # <<>> => \E K \in Caps : Covers(K) /\ SumOf(K, Creators) + Refunded <= Budget
ScanOk == refund = <<>> => \A s \in Scans : scan[s].pc = "queue" =>
            \E K \in Caps : Covers(K) /\ SumOf(K, Creators) <= scan[s].sum
Shares(q, K) ==
    /\ job[q].back = Budget - SumOf(K, Creators)
    /\ \A c \in Creators : job[q].owe[c] \in {0, K[c]}
    /\ \A c \in Creators : job[q].owe[c] = 0 => CoversAt(K, c)
    /\ Undisputed => \A c \in Creators : job[q].owe[c] = 0 => Stated(release, c) = K[c]
ShareOk == refund = <<>> => \A q \in Deciders : job[q].pc = "shares" => \E K \in Caps : Shares(q, K)

SoundDeed == SentOk /\ OneEach(release) /\ FlightOk /\ RefundOk /\ ScanOk /\ ShareOk
BudgetInv == Fair => SoundDeed

\* With no dispute in play, nothing is lost either.
EvenInv == Undisputed =>
    /\ \A i \in DOMAIN release : release[i].status = "cancelled" => release[i].amount = 0
    /\ refund # <<>> => SumReleases + Refunded = Budget
    /\ refund = <<>> => \A s \in Scans : scan[s].pc = "queue" => scan[s].sum = SumReleases

\* How a step leaves the rows: none is dearer, a cancelled one stays as it is, and one
\* that is not cancelled keeps its amount or gives the rest of it back.
RowsSettle ==
    /\ SentOk' /\ OneEach(release')
    /\ \A c : Held(release', c) = Held(release, c) /\ Worth(release', c) <= Worth(release, c)
    /\ \A i \in DOMAIN release : release[i].status = "cancelled" => release'[i] = release[i]

SameAmounts ==
    /\ DOMAIN release' = DOMAIN release
    /\ \A i \in DOMAIN release :
         /\ release'[i].creator = release[i].creator /\ release'[i].amount = release[i].amount
         /\ release'[i].status = "cancelled" => release[i].status = "cancelled" \/ release[i].amount = 0

LEMMA MovedRows ==
    ASSUME Books, SentOk, OneEach(release), RowsMove, "refrozen" \notin blame'
    PROVE  RowsSettle /\ SameAmounts
<1>1. release \in Seq(ReleaseRec) /\ release' \in Seq(ReleaseRec) /\ DOMAIN release' = DOMAIN release
    BY DEF Books, RowsMove
<1>2. ASSUME NEW i \in DOMAIN release
      PROVE  /\ release'[i].creator = release[i].creator /\ release'[i].amount = release[i].amount
             /\ release'[i].sent = IF release'[i].status \in {"underway", "released"} THEN 1 ELSE 0
             /\ release'[i].status = "cancelled" <=> release[i].status = "cancelled"
             /\ release[i].status = "cancelled" => release'[i] = release[i]
             /\ Cost(release'[i]) <= Cost(release[i])
  <2>1. Moved(i) /\ release[i].sent = IF release[i].status \in {"underway", "released"} THEN 1 ELSE 0
      BY DEF RowsMove, SentOk
  <2>2. release[i].amount \in 0 .. AgreedFee /\ release[i].sent \in Nat
      BY <1>1, RowIn
  <2>3. /\ release'[i].creator = release[i].creator /\ release'[i].amount = release[i].amount
        /\ release'[i].sent = IF release'[i].status \in {"underway", "released"} THEN 1 ELSE 0
        /\ release'[i].status = "cancelled" <=> release[i].status = "cancelled"
        /\ release[i].status = "cancelled" => release'[i] = release[i]
      BY <2>1, <2>2 DEF Moved
  <2>. QED BY <2>2, <2>3, SettlementBounds DEF Cost
<1>3. SentOk'
    BY <1>1, <1>2 DEF SentOk
<1>4. /\ OneEach(release') /\ \A c : Held(release', c) = Held(release, c)
      /\ \A c : Worth(release', c) <= Worth(release, c)
    BY <1>1, <1>2, HeldStill, WorthFalls
<1>. QED BY <1>1, <1>2, <1>3, <1>4 DEF RowsSettle, SameAmounts

\* A decision is written into a row that is still as it was read: frozen.
LEMMA WrittenRow ==
    ASSUME BooksInv, SentOk, OneEach(release), NEW q \in Deciders, WriteRow(q), "rewritten" \notin blame'
    PROVE  /\ RowsSettle /\ (BackOf(q) = 0 => SameAmounts)
           /\ Worth(release', Subject(q)) + BackOf(q) <= Worth(release, Subject(q))
           /\ job[q].decision = "brand" => /\ release'[job[q].row].status = "cancelled"
                                           /\ release'[job[q].row].amount = BackOf(q)
<1>1. Books /\ AtHand(q) /\ job[q].pc = "row" /\ release \in Seq(ReleaseRec)
    BY DEF BooksInv, Books, WriteRow
<1>2. PICK r : r = job[q].row
    OBVIOUS
<1>3. r \in DOMAIN release /\ release[r].creator = Subject(q)
    BY <1>1, <1>2 DEF AtHand
<1>4. release[r] = job[q].copy /\ job[q].copy.status = "disputed"
    BY <1>2 DEF WriteRow, When
<1>5. /\ release' \in Seq(ReleaseRec) /\ DOMAIN release' = DOMAIN release
      /\ \A i \in DOMAIN release : i # r => release'[i] = release[i]
      /\ release'[r].sent = release[r].sent /\ release'[r].status = NewStatus(q)
      /\ release'[r].amount = NewAmount(q) /\ Lasting
  <2>1. NewStatus(q) # "disputed"
      BY DEF NewStatus
  <2>. QED BY <1>2, <1>4, <2>1, WriteRowEffect
<1>6. /\ release[r].amount \in 0 .. AgreedFee /\ release[r].amount \in Nat
      /\ Halved(release[r].amount) \in 0 .. release[r].amount
      /\ Cost(release[r]) = release[r].amount
  <2>1. release[r].amount \in 0 .. AgreedFee
      BY <1>1, <1>3, RowIn
  <2>2. release[r].amount \in Nat
      BY <2>1, SettlementBounds
  <2>. QED BY <1>4, <2>1, <2>2, HalvedType DEF Cost
<1>7. NewAmount(q) \in Nat /\ NewAmount(q) <= release[r].amount
    BY <1>4, <1>6 DEF NewAmount
<1>8. Cost(release'[r]) + BackOf(q) <= Cost(release[r]) /\ BackOf(q) \in Nat /\ Cost(release'[r]) \in Nat
  <2>1. CASE job[q].decision = "brand"
      BY <1>4, <1>5, <1>6, <2>1 DEF Cost, BackOf, NewStatus
  <2>2. CASE job[q].decision = "split"
    <3>1. release'[r].status = "pending" /\ BackOf(q) = release[r].amount - NewAmount(q)
        BY <1>4, <1>5, <2>2 DEF NewStatus, BackOf
    <3>. QED BY <1>5, <1>6, <1>7, <3>1 DEF Cost
  <2>3. CASE job[q].decision \notin {"brand", "split"}
    <3>1. BackOf(q) = 0
        BY <2>3 DEF BackOf
    <3>. QED BY <1>5, <1>6, <1>7, <3>1 DEF Cost
  <2>. QED BY <2>1, <2>2, <2>3
<1>9. \A i \in DOMAIN release : release'[i].creator = release[i].creator /\ Cost(release'[i]) <= Cost(release[i])
  <2>. SUFFICES ASSUME NEW i \in DOMAIN release
                PROVE  release'[i].creator = release[i].creator /\ Cost(release'[i]) <= Cost(release[i])
      OBVIOUS
  <2>1. release'[i].creator = release[i].creator
      BY <1>5 DEF Lasting
  <2>2. CASE i = r
      BY <1>6, <1>8, <2>1, <2>2
  <2>3. CASE i # r
    <3>1. Cost(release[i]) \in 0 .. release[i].amount /\ release[i].amount \in 0 .. AgreedFee
        BY <1>1, RowIn
    <3>. QED BY <1>5, <2>1, <2>3, <3>1
  <2>. QED BY <2>2, <2>3
<1>10. /\ OneEach(release') /\ \A c : Held(release', c) = Held(release, c)
       /\ \A c : Worth(release', c) <= Worth(release, c)
       /\ Worth(release', Subject(q)) = Cost(release'[r]) /\ Worth(release, Subject(q)) = Cost(release[r])
    BY <1>1, <1>3, <1>5, <1>9, HeldStill, WorthFalls, HeldOne
<1>11. SentOk'
  <2>1. release[r].sent = 0 /\ release'[r].status \notin {"underway", "released"}
      BY <1>3, <1>4, <1>5 DEF SentOk, NewStatus
  <2>. QED BY <1>5, <2>1 DEF SentOk
<1>12. RowsSettle
    BY <1>4, <1>5, <1>10, <1>11 DEF RowsSettle
<1>13. ASSUME BackOf(q) = 0
       PROVE  SameAmounts
  <2>1. release'[r].amount = release[r].amount
      BY <1>4, <1>5, <1>6, <1>7, <1>13 DEF BackOf, NewAmount
  <2>2. release'[r].status = "cancelled" => release[r].amount = 0
      BY <1>4, <1>5, <1>13 DEF BackOf, NewStatus
  <2>. QED BY <1>5, <1>9, <2>1, <2>2 DEF SameAmounts
<1>14. job[q].decision = "brand" => /\ release'[r].status = "cancelled" /\ release'[r].amount = BackOf(q)
    BY <1>4, <1>5 DEF NewStatus, BackOf, NewAmount
<1>. QED BY <1>2, <1>8, <1>10, <1>12, <1>13, <1>14

\* A limit that covered a creator still does: nobody is dearer, and a decision in flight
\* is either the one there was or takes the brand's part out of the row.
Lighter ==
    /\ \A c \in Creators : Worth(release', c) <= Worth(release, c)
    /\ \A p \in Deciders : Flying(p)' =>
         \/ Flying(p) /\ Subject(p)' = Subject(p) /\ job'[p].back = job[p].back
         \/ Worth(release', Subject(p)') + job'[p].back <= Worth(release, Subject(p)')

LEMMA LighterCovers ==
    ASSUME BooksInv, OneEach(release), Books', OneEach(release'), Lighter, settled \subseteq settled',
           NEW K \in Caps, NEW c \in Creators, CoversAt(K, c)
    PROVE  CoversAt(K, c)'
<1>1. release \in Seq(ReleaseRec) /\ release' \in Seq(ReleaseRec)
    BY DEF BooksInv, Books
<1>2. Worth(release, c) \in Nat /\ Worth(release', c) \in Nat
  <2>1. Worth(release, c) \in 0 .. AgreedFee /\ Worth(release', c) \in 0 .. AgreedFee
      BY <1>1, WorthBounds
  <2>. QED BY <2>1, SettlementBounds
<1>3. K[c] \in Nat
    BY SettlementBounds DEF Caps
<1>4. \A p \in Deciders : job[p].back \in Nat /\ job'[p].back \in Nat
  <2>1. \A p \in Deciders : job[p] \in DeedRec /\ job'[p] \in DeedRec
      BY DEF BooksInv, Books
  <2>. QED BY <2>1, SettlementBounds DEF DeedRec
<1>5. Worth(release', c) <= K[c]
    BY <1>2, <1>3 DEF CoversAt, Lighter
<1>6. ASSUME NEW p \in Deciders, Flying(p)', Subject(p)' = c, c \notin settled'
      PROVE  Worth(release', c) + job'[p].back <= K[c]
  <2>1. CASE Flying(p) /\ Subject(p) = c /\ job'[p].back = job[p].back
    <3>1. Worth(release, c) + job[p].back <= K[c]
        BY <1>6, <2>1 DEF CoversAt
    <3>. QED BY <1>2, <1>3, <1>4, <2>1, <3>1 DEF Lighter
  <2>2. CASE Worth(release', c) + job'[p].back <= Worth(release, c)
    <3>1. Worth(release, c) <= K[c]
        BY DEF CoversAt
    <3>. QED BY <1>2, <1>3, <1>4, <2>2, <3>1
  <2>. QED BY <1>6, <2>1, <2>2 DEF Lighter
<1>. QED BY <1>5, <1>6 DEF CoversAt

\* A step that neither creates a row nor refunds.  A scan and a cancelled campaign that
\* compute the leftover just now find enough for the creators.
SumsUp(s) == scan'[s].sum = SumReleases' /\ \E K \in Caps : Covers(K)' /\ SumOf(K, Creators) <= scan'[s].sum
SharesOut(q) == \E K \in Caps : Shares(q, K)'

Quiet ==
    /\ RowsSettle /\ FlightOk' /\ Lighter /\ UNCHANGED <<refund, settled>>
    /\ \A s \in Scans : scan'[s].pc = "queue" => scan'[s] = scan[s] \/ SumsUp(s)
    /\ \A p \in Deciders : job'[p].pc = "shares" => job'[p] = job[p] \/ SharesOut(p)
    /\ Undisputed' => Undisputed /\ SameAmounts

LEMMA QuietSound ==
    ASSUME BooksInv, Books', SoundDeed, Quiet
    PROVE  SoundDeed'
<1>1. SentOk' /\ OneEach(release') /\ FlightOk'
    BY DEF Quiet, RowsSettle
<1>2. ASSUME NEW K \in Caps, NEW c \in Creators, CoversAt(K, c)
      PROVE  CoversAt(K, c)'
  <2>1. Lighter /\ OneEach(release) /\ settled \subseteq settled'
      BY DEF SoundDeed, Quiet
  <2>. QED BY <1>1, <1>2, <2>1, LighterCovers
<1>3. ASSUME NEW K \in Caps, Covers(K)
      PROVE  Covers(K)'
    BY <1>2, <1>3 DEF Covers
<1>4. refund' = refund /\ Refunded' = Refunded
    BY DEF Quiet, Refunded
<1>5. RefundOk'
    BY <1>3, <1>4 DEF SoundDeed, RefundOk
<1>6. ScanOk'
  <2>. SUFFICES ASSUME refund = <<>>, NEW s \in Scans, scan'[s].pc = "queue"
                PROVE  \E K \in Caps : Covers(K)' /\ SumOf(K, Creators) <= scan'[s].sum
      BY <1>4 DEF ScanOk
  <2>1. CASE SumsUp(s)
      BY <2>1 DEF SumsUp
  <2>2. CASE scan'[s] = scan[s]
    <3>1. PICK K \in Caps : Covers(K) /\ SumOf(K, Creators) <= scan[s].sum
        BY <2>2 DEF SoundDeed, ScanOk
    <3>. QED BY <1>3, <2>2, <3>1
  <2>. QED BY <2>1, <2>2 DEF Quiet
<1>7. ShareOk'
  <2>. SUFFICES ASSUME refund = <<>>, NEW q \in Deciders, job'[q].pc = "shares"
                PROVE  SharesOut(q)
      BY <1>4 DEF ShareOk, SharesOut
  <2>1. CASE job'[q] = job[q]
    <3>1. PICK K \in Caps : Shares(q, K)
        BY <2>1 DEF SoundDeed, ShareOk
    <3>2. \A c \in Creators : job'[q].owe[c] = 0 => CoversAt(K, c)'
        BY <1>2, <2>1, <3>1 DEF Shares
    <3>3. ASSUME Undisputed', NEW c \in Creators, job'[q].owe[c] = 0
          PROVE  Stated(release', c) = K[c]
      <4>1. Undisputed /\ SameAmounts
          BY <3>3 DEF Quiet
      <4>2. Stated(release, c) = K[c]
          BY <2>1, <3>1, <3>3, <4>1 DEF Shares
      <4>3. release \in Seq(ReleaseRec) /\ release' \in Seq(ReleaseRec) /\ OneEach(release)
          BY DEF BooksInv, Books, SoundDeed
      <4>. QED BY <4>1, <4>2, <4>3, StatedStays DEF SameAmounts
    <3>4. Shares(q, K)'
        BY <2>1, <3>1, <3>2, <3>3 DEF Shares
    <3>. QED BY <3>4 DEF SharesOut
  <2>. QED BY <2>1 DEF Quiet
<1>. QED BY <1>1, <1>5, <1>6, <1>7 DEF SoundDeed

LEMMA SameSum ==
    ASSUME Books, Books', SameAmounts
    PROVE  SumReleases' = SumReleases
<1>1. \A i \in DOMAIN release : Amounts[i] \in Int /\ Amounts'[i] = Amounts[i]
  <2>1. \A i \in DOMAIN release : release[i].amount \in 0 .. AgreedFee
      BY RowType
  <2>. QED BY <2>1, SettlementBounds DEF SameAmounts, Amounts
<1>2. IsFiniteSet(DOMAIN release) /\ DOMAIN release' = DOMAIN release
    BY FiniteRows DEF Books, SameAmounts
<1>3. SumOf(Amounts, DOMAIN release) = SumOf(Amounts', DOMAIN release)
    BY <1>1, <1>2, SumCongruent
<1>4. SumReleases = SumOf(Amounts, DOMAIN release)
    BY TotalIsSum DEF SumReleases
<1>5. SumReleases' = SumOf(Amounts', DOMAIN release')
    BY TotalIsSum DEF SumReleases
<1>. QED BY <1>2, <1>3, <1>4, <1>5

LEMMA QuietEven ==
    ASSUME Books, Books', EvenInv, Quiet
    PROVE  EvenInv'
<1>. SUFFICES ASSUME Undisputed' PROVE EvenInv'
    BY DEF EvenInv
<1>1. Undisputed /\ SameAmounts /\ refund' = refund /\ Refunded' = Refunded
    BY DEF Quiet, Refunded
<1>2. SumReleases' = SumReleases
    BY <1>1, SameSum
<1>3. \A i \in DOMAIN release' : release'[i].status = "cancelled" => release'[i].amount = 0
    BY <1>1 DEF EvenInv, SameAmounts
<1>4. \A s \in Scans : scan'[s].pc = "queue" => scan'[s] = scan[s] \/ scan'[s].sum = SumReleases'
    BY DEF Quiet, SumsUp
<1>. QED BY <1>1, <1>2, <1>3, <1>4 DEF EvenInv

\* A decision that goes on being in flight, or about to refund.
LEMMA FlightStays ==
    ASSUME BooksInv, Books', Lasting, NEW p \in Deciders, FlightOf(p), job'[p] = job[p],
           OneEach(release), OneEach(release'),
           \A c : Worth(release', c) <= Worth(release, c) \/ (Held(release, c) = {} /\ Held(release', c) # {}),
           \A i \in DOMAIN release : release[i].status = "cancelled" => release'[i] = release[i]
    PROVE  FlightOf(p)' /\ (Flying(p)' => Flying(p) /\ Subject(p)' = Subject(p))
<1>. SUFFICES ASSUME job[p].pc = "refund" PROVE FlightOf(p)' /\ (Flying(p)' => Flying(p) /\ Subject(p)' = Subject(p))
    BY DEF FlightOf, Flying
<1>1. AtHand(p) /\ job[p].d \in DOMAIN dispute /\ job[p].decision \in {"brand", "split"} /\ job[p].back \in 0 .. AgreedFee
    BY DEF BooksInv, AtHand
<1>2. PICK c : c = Subject(p)
    OBVIOUS
<1>3. Subject(p)' = c
    BY <1>1, <1>2 DEF Subject, Lasting
<1>4. /\ Worth(release, c) \in 0 .. AgreedFee /\ Worth(release', c) \in 0 .. AgreedFee
  <2>1. release \in Seq(ReleaseRec) /\ release' \in Seq(ReleaseRec)
      BY DEF BooksInv, Books
  <2>. QED BY <2>1, WorthBounds
<1>5. Held(release, c) # {} => Held(release', c) # {}
    BY DEF Held, Lasting
<1>6. ASSUME ~(OnlyBack(p)' /\ Held(release', c) # {})
      PROVE  Worth(release', c) + job'[p].back <= AgreedFee
  <2>1. OnlyBack(p)' <=> OnlyBack(p)
      BY DEF OnlyBack
  <2>2. Worth(release, c) + job[p].back <= AgreedFee
      BY <1>2, <1>5, <1>6, <2>1 DEF FlightOf
  <2>3. Held(release, c) = {} /\ Held(release', c) # {} => FALSE
    <3>1. job[p].row # 0 => Held(release, c) # {}
        BY <1>1, <1>2 DEF AtHand, Held
    <3>2. job[p].row = 0 /\ job[p].decision = "split" => Held(release, c) # {}
        BY <1>1, <1>2 DEF AtHand, Held, RowsOf
    <3>. QED BY <1>1, <1>6, <2>1, <3>1, <3>2 DEF OnlyBack
  <2>4. Worth(release', c) <= Worth(release, c)
      BY <2>3
  <2>. QED BY <1>1, <1>4, <2>2, <2>4, SettlementBounds
<1>7. ASSUME job[p].row # 0, job[p].decision = "brand"
      PROVE  release'[job[p].row].status = "cancelled" /\ job[p].back <= release'[job[p].row].amount
  <2>1. job[p].row \in DOMAIN release
      BY <1>1, <1>7 DEF AtHand
  <2>2. release[job[p].row].status = "cancelled" /\ job[p].back <= release[job[p].row].amount
      BY <1>7 DEF FlightOf, Flying
  <2>. QED BY <2>1, <2>2
<1>. QED BY <1>2, <1>3, <1>6, <1>7 DEF FlightOf, Flying

LEMMA OthersStill ==
    ASSUME BooksInv, Books', SoundDeed, RowsSettle, Lasting,
           \A p \in Deciders : \/ job'[p] = job[p]
                               \/ /\ FlightOf(p)'
                                  /\ Flying(p)' => Worth(release', Subject(p)') + job'[p].back
                                                     <= Worth(release, Subject(p)')
    PROVE  FlightOk' /\ Lighter
<1>1. ASSUME NEW p \in Deciders, job'[p] = job[p]
      PROVE  FlightOf(p)' /\ (Flying(p)' => Flying(p) /\ Subject(p)' = Subject(p))
  <2>1. FlightOf(p) /\ OneEach(release)
      BY DEF SoundDeed, FlightOk
  <2>2. /\ OneEach(release') /\ \A c : Worth(release', c) <= Worth(release, c)
        /\ \A i \in DOMAIN release : release[i].status = "cancelled" => release'[i] = release[i]
      BY DEF RowsSettle
  <2>. QED BY <1>1, <2>1, <2>2, FlightStays
<1>2. FlightOk'
    BY <1>1 DEF FlightOk
<1>3. Lighter
  <2>1. \A c \in Creators : Worth(release', c) <= Worth(release, c)
      BY DEF RowsSettle
  <2>2. ASSUME NEW p \in Deciders, Flying(p)'
        PROVE  \/ Flying(p) /\ Subject(p)' = Subject(p) /\ job'[p].back = job[p].back
               \/ Worth(release', Subject(p)') + job'[p].back <= Worth(release, Subject(p)')
      BY <1>1, <2>2
  <2>. QED BY <2>1, <2>2 DEF Lighter
<1>. QED BY <1>2, <1>3

LEMMA OthersQuiet ==
    ASSUME BooksInv, Books', SoundDeed, RowsSettle, Lasting, UNCHANGED <<refund, settled>>,
           \A s \in Scans : scan'[s].pc = "queue" => scan'[s] = scan[s] \/ SumsUp(s),
           Undisputed' => Undisputed /\ SameAmounts,
           \A p \in Deciders : \/ job'[p] = job[p]
                               \/ /\ FlightOf(p)' /\ (job'[p].pc = "shares" => SharesOut(p))
                                  /\ Flying(p)' => Worth(release', Subject(p)') + job'[p].back
                                                     <= Worth(release, Subject(p)')
    PROVE  Quiet
<1>1. FlightOk' /\ Lighter
    BY OthersStill
<1>. QED BY <1>1 DEF Quiet

\* A step that leaves the rows' amounts alone, and of the requests at most one that gets
\* neither to a refund nor to shares.
LEMMA PlainQuiet ==
    ASSUME BooksInv, Books', SoundDeed, Fair', RowsMove, DisputesLast, UNCHANGED <<refund, settled>>,
           \A s \in Scans : scan'[s].pc = "queue" => scan'[s] = scan[s], blame \subseteq blame',
           \/ job' = job
           \/ \E q \in Deciders : /\ Stepped(q) /\ job'[q].pc \notin {"refund", "shares"}
                                  /\ job[q].pc = "refund" => blame' # {}
    PROVE  Quiet
<1>1. RowsSettle /\ SameAmounts /\ Lasting
  <2>1. "refrozen" \notin blame'
      BY DEF Fair
  <2>. QED BY <2>1, MovedRows, MovingLasts DEF BooksInv, SoundDeed
<1>2. Undisputed' => Undisputed
    BY DEF Undisputed, Stepped
<1>3. \A p \in Deciders : \/ job'[p] = job[p]
                          \/ FlightOf(p)' /\ job'[p].pc # "shares" /\ ~Flying(p)'
    BY DEF Stepped, FlightOf, Flying
<1>. QED BY <1>1, <1>2, <1>3, OthersQuiet

LEMMA WriteQuiet ==
    ASSUME BooksInv, Books', SoundDeed, Fair', NEW q \in Deciders, WriteRow(q)
    PROVE  Quiet
<1>1. Books /\ AtHand(q) /\ release \in Seq(ReleaseRec) /\ release' \in Seq(ReleaseRec)
    BY DEF BooksInv, Books
<1>2. /\ RowsSettle /\ (BackOf(q) = 0 => SameAmounts)
      /\ Worth(release', Subject(q)) + BackOf(q) <= Worth(release, Subject(q))
      /\ job[q].decision = "brand" => /\ release'[job[q].row].status = "cancelled"
                                      /\ release'[job[q].row].amount = BackOf(q)
  <2>1. "rewritten" \notin blame'
      BY DEF Fair
  <2>. QED BY <2>1, WrittenRow DEF SoundDeed
<1>3. /\ Stepped(q) /\ Lasting
      /\ \/ BackOf(q) = 0 /\ job'[q] = NoDeed
         \/ BackOf(q) > 0 /\ Keeping(q) /\ job'[q].pc = "refund" /\ job'[q].back = BackOf(q)
    BY WriteRowEffect
<1>4. UNCHANGED <<refund, settled, scan, dispute>> /\ blame \subseteq blame' /\ job[q].pc = "row"
    BY DEF WriteRow, others
<1>5. ASSUME Undisputed'
      PROVE  Undisputed /\ SameAmounts
  <2>1. BackOf(q) = 0
      BY <1>3, <1>5 DEF Undisputed
  <2>. QED BY <1>2, <1>3, <1>4, <1>5, <2>1 DEF Undisputed, Stepped
<1>6. CASE job'[q] = NoDeed
  <2>1. FlightOf(q)' /\ job'[q].pc # "shares" /\ ~Flying(q)'
      BY <1>6, NoDeedIs DEF FlightOf, Flying
  <2>. QED BY <1>2, <1>3, <1>4, <1>5, <2>1, OthersQuiet DEF Stepped
<1>7. CASE BackOf(q) > 0 /\ Keeping(q) /\ job'[q].pc = "refund" /\ job'[q].back = BackOf(q)
  <2>1. PICK c : c = Subject(q)
      OBVIOUS
  <2>2. Subject(q)' = c
      BY <1>4, <1>7, <2>1 DEF Subject, Keeping
  <2>3. Worth(release', c) + job'[q].back <= Worth(release, c)
      BY <1>2, <1>7, <2>1
  <2>4. Worth(release', c) + job'[q].back <= AgreedFee
    <3>1. Worth(release, c) \in 0 .. AgreedFee /\ Worth(release', c) \in 0 .. AgreedFee
        BY <1>1, <1>2, WorthBounds DEF SoundDeed, RowsSettle
    <3>2. job'[q] \in DeedRec
        BY <1>3 DEF Stepped
    <3>3. job'[q].back \in Nat
        BY <3>2, SettlementBounds DEF DeedRec
    <3>. QED BY <2>3, <3>1, <3>3, SettlementBounds
  <2>5. job'[q].decision = "brand" =>
          release'[job'[q].row].status = "cancelled" /\ job'[q].back <= release'[job'[q].row].amount
    <3>1. BackOf(q) \in Nat => BackOf(q) <= BackOf(q)
        OBVIOUS
    <3>2. job'[q] \in DeedRec
        BY <1>3 DEF Stepped
    <3>3. BackOf(q) \in Nat
        BY <1>7, <3>2, SettlementBounds DEF DeedRec
    <3>. QED BY <1>2, <1>7, <3>1, <3>3 DEF Keeping
  <2>6. FlightOf(q)'
      BY <2>2, <2>4, <2>5 DEF FlightOf
  <2>. QED BY <1>2, <1>3, <1>4, <1>5, <1>7, <2>2, <2>3, <2>6, OthersQuiet DEF Stepped
<1>. QED BY <1>3, <1>6, <1>7

LEMMA NoReleaseQuiet ==
    ASSUME BooksInv, Books', SoundDeed, Fair', NEW q \in Deciders, NoRelease(q)
    PROVE  Quiet
<1>1. /\ UNCHANGED <<refund, settled, scan, dispute, release, blame>> /\ Books /\ job[q].pc = "read"
    BY DEF NoRelease, others, BooksInv
<1>2. /\ Stepped(q) /\ Subject(q) \in Creators /\ RowsOf(Subject(q)) = {}
      /\ \/ job'[q] = NoDeed
         \/ job'[q].pc = "done"
         \/ /\ job'[q].pc = "refund" /\ job'[q].decision = "brand" /\ job'[q].row = 0
            /\ job'[q].back = AgreedFee /\ Subject(q)' = Subject(q)
    BY NoReleaseEffect
<1>3. RowsMove /\ DisputesLast /\ Lasting
    BY <1>1, UntouchedRows, UntouchedDisputes, MovingLasts
<1>4. CASE job'[q] = NoDeed \/ job'[q].pc = "done"
  <2>1. job'[q].pc \notin {"refund", "shares"}
      BY <1>4, NoDeedIs
  <2>. QED BY <1>1, <1>2, <1>3, <2>1, PlainQuiet
<1>5. CASE /\ job'[q].pc = "refund" /\ job'[q].decision = "brand" /\ job'[q].row = 0
           /\ job'[q].back = AgreedFee /\ Subject(q)' = Subject(q)
  <2>1. RowsSettle
    <3>1. "refrozen" \notin blame'
        BY DEF Fair
    <3>. QED BY <1>1, <1>3, <3>1, MovedRows DEF SoundDeed
  <2>2. Worth(release', Subject(q)') = 0
      BY <1>1, <1>2, <1>5 DEF Worth, RowsOf, Held
  <2>3. FlightOf(q)' /\ ~Flying(q)'
      BY <1>5, <2>2, SettlementBounds DEF FlightOf, Flying
  <2>4. ~Undisputed'
      BY <1>5 DEF Undisputed
  <2>. QED BY <1>1, <1>2, <1>3, <1>5, <2>1, <2>3, <2>4, OthersQuiet DEF Stepped
<1>. QED BY <1>2, <1>4, <1>5

LEMMA BlameGrows == NextSettlement => blame \subseteq blame'
<1>1. Outsiders => blame \subseteq blame'
    BY DEF Outsiders, People, Submit, PostLive, RejectDraft, RaiseDispute, DeclineDispute, TakeUp, ReceiveTransfer
<1>2. Idlers => blame \subseteq blame'
    BY DEF Idlers, HookStep, CountReleases, CountSubmissions, Complete, hookOnly, ScanStep, ListEnded,
           SumUp, QueueLeftover, CrashDeed
<1>3. ASSUME NEW q \in Deciders, BeginDeed(q)
      PROVE  blame \subseteq blame'
    BY <1>3 DEF BeginDeed, BeginApprove, BeginResolve, BeginCancel
<1>4. ASSUME NEW q \in Deciders, GoOnWithDeeds(q)
      PROVE  blame \subseteq blame'
    BY <1>4 DEF GoOnWithDeeds, SaveResolved, ReadRelease, WriteRow, NoRelease, SaveDone, CreateRefund,
                CreateRelease, CreateShare, SaveCancelled, ListShares, CreateRemainder
<1>. QED BY <1>1, <1>2, <1>3, <1>4, SettlementCases

\* The steps that do more than that.
Weighty ==
    \/ \E q \in Deciders : \/ CreateRefund(q) \/ ListShares(q) \/ CreateRemainder(q)
                           \/ \E c \in Creators : CreateRelease(q, c) \/ CreateShare(q, c)
    \/ \E s \in Scans : SumUp(s) \/ QueueLeftover(s)

LEMMA MostAreQuiet ==
    ASSUME BooksInv, Books', SoundDeed, Fair', NextSettlement, ~Weighty
    PROVE  Quiet
<1>1. Books /\ blame \subseteq blame'
    BY BlameGrows DEF BooksInv
<1>2. CASE Outsiders
  <2>1. RowsMove /\ DisputesLast /\ UNCHANGED <<refund, job, scan, settled>>
      BY <1>1, <1>2, OutsidersEffect
  <2>. QED BY <1>1, <2>1, PlainQuiet
<1>3. CASE Idlers
  <2>1. /\ UNCHANGED <<dispute, release, settled>>
        /\ \/ job' = job
           \/ \E q \in Deciders : Stepped(q) /\ job'[q] = NoDeed /\ "crash" \in blame'
      BY <1>1, <1>3, IdlersEffect
  <2>2. refund' = refund
      BY <1>3 DEF Weighty, Idlers, HookStep, CountReleases, CountSubmissions, Complete, hookOnly, ScanStep,
                  ListEnded, CrashDeed
  <2>3. ASSUME NEW s \in Scans, scan'[s].pc = "queue"
        PROVE  scan'[s] = scan[s]
    <3>1. scan \in [Scans -> ScanRec]
        BY <1>1 DEF Books
    <3>2. CASE \E t \in Scans : ListEnded(t)
      <4>1. PICK t \in Scans : scan' = [scan EXCEPT ![t].pc = "sum"]
          BY <3>2 DEF ListEnded
      <4>2. scan[t] \in ScanRec
          BY <3>1
      <4>3. PICK new : new = [scan[t] EXCEPT !.pc = "sum"]
          OBVIOUS
      <4>4. new.pc = "sum" /\ scan' = [scan EXCEPT ![t] = new]
          BY <4>1, <4>2, <4>3 DEF ScanRec
      <4>. QED BY <2>3, <3>1, <4>4
    <3>3. CASE scan' = scan
        BY <3>3
    <3>4. CASE \E t \in Scans : scan' = [scan EXCEPT ![t] = IdleScan]
        BY <2>3, <3>1, <3>4 DEF IdleScan
    <3>. QED BY <1>3, <3>2, <3>3, <3>4 DEF Weighty, Idlers, HookStep, CountReleases, CountSubmissions,
                Complete, hookOnly, ScanStep, CrashDeed
  <2>4. RowsMove /\ DisputesLast
      BY <1>1, <2>1, UntouchedRows, UntouchedDisputes
  <2>5. \/ job' = job
        \/ \E q \in Deciders : /\ Stepped(q) /\ job'[q].pc \notin {"refund", "shares"}
                               /\ job[q].pc = "refund" => blame' # {}
      BY <2>1, NoDeedIs
  <2>. QED BY <1>1, <2>1, <2>2, <2>3, <2>4, <2>5, PlainQuiet
<1>4. ASSUME NEW q \in Deciders, BeginDeed(q)
      PROVE  Quiet
  <2>1. Stepped(q) /\ UNCHANGED <<dispute, release, refund, settled, scan>>
      BY <1>4, BeginDeedEffect
  <2>2. job[q].pc = "idle" /\ job'[q].pc \in {"done", "resolve", "cancel"}
      BY <1>4, BeginDeedEffect
  <2>3. RowsMove /\ DisputesLast
      BY <1>1, <2>1, UntouchedRows, UntouchedDisputes
  <2>. QED BY <1>1, <2>1, <2>2, <2>3, PlainQuiet
<1>5. ASSUME NEW q \in Deciders, GoOnWithDeeds(q)
      PROVE  Quiet
  <2>1. CASE SaveResolved(q)
    <3>1. UNCHANGED <<release, refund, settled, scan>> /\ job[q].pc = "resolve" /\ Go(q, "read")
        BY <2>1 DEF SaveResolved, others
    <3>2. Stepped(q) /\ DisputesLast /\ job'[q].pc = "read"
        BY <1>1, <2>1, <3>1, ResolvedEffect, GoEffect
    <3>3. RowsMove
        BY <1>1, <3>1, UntouchedRows
    <3>. QED BY <1>1, <3>1, <3>2, <3>3, PlainQuiet
  <2>2. CASE \E r \in MaybeRow : ReadRelease(q, r)
    <3>1. UNCHANGED <<dispute, release, refund, settled, scan>> /\ job[q].pc = "read"
        BY <2>2 DEF ReadRelease, others
    <3>2. Stepped(q) /\ job'[q].pc = "row"
        BY <2>2, ReadEffect
    <3>3. RowsMove /\ DisputesLast
        BY <1>1, <3>1, UntouchedRows, UntouchedDisputes
    <3>. QED BY <1>1, <3>1, <3>2, <3>3, PlainQuiet
  <2>3. CASE SaveDone(q)
    <3>1. UNCHANGED <<dispute, release, refund, settled, scan>> /\ job[q].pc = "done"
        BY <2>3 DEF SaveDone, others
    <3>2. Stepped(q) /\ job'[q].pc = "release"
        BY <2>3, SaveDoneEffect
    <3>3. RowsMove /\ DisputesLast
        BY <1>1, <3>1, UntouchedRows, UntouchedDisputes
    <3>. QED BY <1>1, <3>1, <3>2, <3>3, PlainQuiet
  <2>4. CASE SaveCancelled(q)
    <3>1. UNCHANGED <<dispute, release, refund, settled, scan>> /\ job[q].pc = "cancel" /\ Go(q, "list")
        BY <2>4 DEF SaveCancelled, others
    <3>2. Stepped(q) /\ job'[q].pc = "list"
        BY <1>1, <3>1, GoEffect
    <3>3. RowsMove /\ DisputesLast
        BY <1>1, <3>1, UntouchedRows, UntouchedDisputes
    <3>. QED BY <1>1, <3>1, <3>2, <3>3, PlainQuiet
  <2>. QED BY <1>5, <2>1, <2>2, <2>3, <2>4, WriteQuiet, NoReleaseQuiet DEF GoOnWithDeeds, Weighty
<1>. QED BY <1>2, <1>3, <1>4, <1>5, SettlementCases

\* A full fee covers a creator whatever is in flight.
LEMMA FullCovers ==
    ASSUME BooksInv, OneEach(release), FlightOk, NEW K, NEW c, K[c] = AgreedFee
    PROVE  CoversAt(K, c)
<1>1. Worth(release, c) \in 0 .. AgreedFee
    BY WorthBounds DEF BooksInv, Books
<1>2. ASSUME NEW p \in Deciders, Flying(p), Subject(p) = c
      PROVE  Worth(release, c) + job[p].back <= AgreedFee
    BY <1>2 DEF FlightOk, FlightOf, Flying, OnlyBack
<1>. QED BY <1>1, <1>2, SettlementBounds DEF CoversAt

\* What the nightly scan adds up covers the creators: a decision for the brand that is in
\* flight still shows the row's full amount.
LEMMA StatedCovers ==
    ASSUME BooksInv, OneEach(release), FlightOk, ~HalfSplit,
           NEW K, K = [c \in Creators |-> Stated(release, c)]
    PROVE  K \in Caps /\ Covers(K) /\ SumOf(K, Creators) = SumReleases
<1>1. release \in Seq(ReleaseRec) /\ Books
    BY DEF BooksInv, Books
<1>2. K \in Caps
    BY <1>1, WorthCaps
<1>3. SumOf(K, Creators) = SumReleases
    BY <1>1, SumByCreator, TotalIsSum DEF SumReleases, Amounts
<1>4. ASSUME NEW c \in Creators
      PROVE  CoversAt(K, c)
  <2>1. Worth(release, c) <= K[c]
      BY <1>1, WorthBounds
  <2>2. ASSUME NEW p \in Deciders, Flying(p), Subject(p) = c
        PROVE  Worth(release, c) + job[p].back <= K[c]
    <3>1. /\ job[p].row \in DOMAIN release /\ release[job[p].row].creator = c
          /\ job[p].decision \in {"brand", "split"} /\ job[p].pc = "refund" /\ job[p].row # 0
        BY <2>2 DEF BooksInv, AtHand, Flying
    <3>2. job[p].decision = "brand"
        BY <3>1 DEF HalfSplit
    <3>3. release[job[p].row].status = "cancelled" /\ job[p].back <= release[job[p].row].amount
        BY <2>2, <3>2 DEF FlightOk, FlightOf
    <3>4. Worth(release, c) = 0 /\ Stated(release, c) = release[job[p].row].amount
        BY <1>1, <3>1, <3>3, HeldOne DEF Cost
    <3>5. job[p] \in DeedRec
        BY <1>1 DEF Books
    <3>6. job[p].back \in Nat
        BY <3>5, SettlementBounds DEF DeedRec
    <3>. QED BY <3>3, <3>4, <3>6
  <2>. QED BY <2>1, <2>2 DEF CoversAt
<1>. QED BY <1>2, <1>3, <1>4 DEF Covers

LEMMA SumUpQuiet ==
    ASSUME BooksInv, Books', SoundDeed, Fair', NEW s \in Scans, SumUp(s)
    PROVE  Quiet
<1>1. /\ UNCHANGED <<release, dispute, job, refund, settled>> /\ blame \subseteq blame' /\ ~HalfSplit
      /\ Books /\ OneEach(release) /\ FlightOk
    BY DEF SumUp, scanOnly, Fair, When, BooksInv, SoundDeed
<1>2. RowsMove /\ DisputesLast /\ Lasting
    BY <1>1, UntouchedRows, UntouchedDisputes, MovingLasts
<1>3. RowsSettle /\ SameAmounts
  <2>1. "refrozen" \notin blame'
      BY DEF Fair
  <2>. QED BY <1>1, <1>2, <2>1, MovedRows DEF SoundDeed
<1>4. FlightOk' /\ Lighter
    BY <1>1, <1>2, <1>3, OthersStill
<1>5. Undisputed' => Undisputed /\ SameAmounts
    BY <1>1, <1>3 DEF Undisputed
<1>6. SumsUp(s)
  <2>1. PICK K : K = [c \in Creators |-> Stated(release, c)]
      OBVIOUS
  <2>2. K \in Caps /\ Covers(K) /\ SumOf(K, Creators) = SumReleases
      BY <1>1, <2>1, StatedCovers
  <2>3. Covers(K)'
    <3>1. \A c \in Creators : CoversAt(K, c)
        BY <2>2 DEF Covers
    <3>2. settled \subseteq settled' /\ OneEach(release')
        BY <1>1
    <3>3. \A c \in Creators : CoversAt(K, c)'
        BY <1>1, <1>4, <2>2, <3>1, <3>2, LighterCovers
    <3>. QED BY <3>3 DEF Covers
  <2>4. SumReleases' = SumReleases
      BY <1>1, <1>3, SameSum
  <2>5. scan'[s].sum = SumReleases /\ SumReleases \in Nat
      BY <1>1, ScanSum DEF SumUp, Books
  <2>. QED BY <2>2, <2>3, <2>4, <2>5 DEF SumsUp
<1>7. \A t \in Scans : t # s => scan'[t] = scan[t]
    BY <1>1 DEF SumUp, Books
<1>. QED BY <1>1, <1>2, <1>3, <1>5, <1>6, <1>7, OthersQuiet

LEMMA ListSharesQuiet ==
    ASSUME BooksInv, Books', SoundDeed, Fair', NEW q \in Deciders, ListShares(q)
    PROVE  Quiet
<1>1. /\ UNCHANGED <<release, dispute, refund, settled, blame, scan>> /\ job[q].pc = "list"
      /\ Books /\ OneEach(release) /\ FlightOk /\ release \in Seq(ReleaseRec)
    BY DEF ListShares, others, BooksInv, Books, SoundDeed
<1>2. RowsMove /\ DisputesLast /\ Lasting
    BY <1>1, UntouchedRows, UntouchedDisputes, MovingLasts
<1>3. RowsSettle /\ SameAmounts
  <2>1. "refrozen" \notin blame'
      BY DEF Fair
  <2>. QED BY <1>1, <1>2, <2>1, MovedRows DEF SoundDeed
<1>4. PICK K : K = job'[q].owe
    OBVIOUS
<1>5. /\ Stepped(q) /\ job'[q].pc = "shares"
      /\ K = [c \in Creators |-> IF work[c] # "none" THEN AgreedFee ELSE AgreedFee - Halved(AgreedFee)]
      /\ job'[q].back = IF Total(K, Creators) < Budget THEN Budget - Total(K, Creators) ELSE 0
    BY <1>4, ListSharesEffect
<1>6. \A p \in Deciders : p # q => job'[p] = job[p]
    BY <1>5 DEF Stepped
<1>7. Undisputed' => Undisputed /\ SameAmounts
    BY <1>1, <1>3, <1>6 DEF Undisputed
<1>8. FlightOf(q)' /\ ~Flying(q)'
    BY <1>5 DEF FlightOf, Flying
<1>9. FlightOk' /\ Lighter
    BY <1>2, <1>3, <1>6, <1>8, OthersStill
<1>10. SharesOut(q)
  <2>1. \A c \in Creators : K[c] \in 0 .. AgreedFee /\ (K[c] = 0 => AgreedFee = 0)
    <3>1. \A n \in Nat : Halved(n) \in 0 .. n /\ (n - Halved(n) = 0 => n = 0)
        BY DEF Halved
    <3>. QED BY <1>5, <3>1, SettlementBounds
  <2>2. K \in Caps
      BY <1>5, <2>1 DEF Caps
  <2>3. job'[q].back = Budget - SumOf(K, Creators)
    <3>1. Total(K, Creators) = SumOf(K, Creators)
        BY TotalIsSum
    <3>2. SumOf(K, Creators) \in Nat /\ SumOf(K, Creators) <= Budget
        BY <2>2, CapsFit
    <3>. QED BY <1>5, <3>1, <3>2, SettlementBounds
  <2>4. ASSUME NEW c \in Creators, K[c] = 0
        PROVE  CoversAt(K, c)' /\ Stated(release', c) = K[c]
    <3>1. K[c] = AgreedFee
        BY <2>1, <2>4
    <3>2. CoversAt(K, c)
        BY <1>1, <3>1, FullCovers
    <3>3. settled \subseteq settled' /\ OneEach(release')
        BY <1>1
    <3>4. CoversAt(K, c)'
        BY <1>1, <1>9, <2>2, <3>2, <3>3, LighterCovers
    <3>5. Stated(release, c) \in 0 .. AgreedFee
        BY <1>1, WorthBounds
    <3>. QED BY <1>1, <2>4, <3>1, <3>4, <3>5
  <2>5. Shares(q, K)'
      BY <1>4, <2>3, <2>4 DEF Shares
  <2>. QED BY <2>2, <2>5 DEF SharesOut
<1>. QED BY <1>1, <1>2, <1>3, <1>6, <1>7, <1>8, <1>10, OthersQuiet

LEMMA RefundedGrows ==
    ASSUME Books, NEW amount \in 0 .. Budget, refund' = Append(refund, amount)
    PROVE  Refunded \in Nat /\ Refunded' = Refunded + amount
<1>1. /\ refund \in Seq(0 .. Budget) /\ Len(refund) + 1 \notin DOMAIN refund
      /\ DOMAIN refund' = DOMAIN refund \cup {Len(refund) + 1}
      /\ \A i \in DOMAIN refund : refund'[i] = refund[i]
      /\ refund'[Len(refund) + 1] = amount
    BY AppendRefund DEF Books
<1>2. IsFiniteSet(DOMAIN refund)
    BY <1>1, FiniteRows
<1>3. \A i \in DOMAIN refund : refund[i] \in Nat /\ refund[i] \in Int
  <2>1. \A i \in DOMAIN refund : refund[i] \in 0 .. Budget
    <3>1. PICK R : R = 0 .. Budget
        OBVIOUS
    <3>2. refund \in Seq(R)
        BY <1>1, <3>1
    <3>3. \A i \in DOMAIN refund : refund[i] \in R
        BY <3>2
    <3>. QED BY <3>1, <3>3
  <2>. QED BY <2>1, SettlementBounds
<1>4. Refunded \in Nat
    BY <1>2, <1>3, SumType DEF Refunded
<1>5. PICK D, n, g : D = DOMAIN refund /\ n = Len(refund) + 1 /\ g = refund'
    OBVIOUS
<1>6. SumOf(g, D) = SumOf(refund, D)
    BY <1>1, <1>2, <1>3, <1>5, SumCongruent
<1>7. SumOf(g, D \cup {n}) = g[n] + SumOf(g, D)
  <2>1. IsFiniteSet(D) /\ n \notin D
      BY <1>1, <1>2, <1>5
  <2>2. \A i \in D \cup {n} : g[i] \in Int
      BY <1>1, <1>3, <1>5, SettlementBounds
  <2>. QED BY <2>1, <2>2, SumAdd
<1>8. Refunded' = SumOf(g, D \cup {n}) /\ Refunded = SumOf(refund, D) /\ g[n] = amount
    BY <1>1, <1>5 DEF Refunded
<1>. QED BY <1>4, <1>6, <1>7, <1>8, SettlementBounds

LEMMA NothingRefunded == refund = <<>> => Refunded = 0
<1>. SUFFICES ASSUME refund = <<>> PROVE Refunded = 0
    OBVIOUS
<1>1. DOMAIN refund = {}
    OBVIOUS
<1>. QED BY <1>1, SumEmpty DEF Refunded

\* Before the leftover is taken, and while nobody else computes it.
Early(q) ==
    /\ refund = <<>> /\ \A s \in Scans : scan[s].pc # "queue"
    /\ \A p \in Deciders \ {q} : job[p].pc # "shares"

\* A new row, for a creator who has none.
LEMMA NewRowSettles ==
    ASSUME BooksInv, Books', SoundDeed, NEW q \in Deciders, Stepped(q), NEW c \in Creators, RowsOf(c) = {},
           NEW amount \in 0 .. AgreedFee, release' = Append(release, NewRow(c, amount)), dispute' = dispute
    PROVE  /\ SentOk' /\ OneEach(release') /\ Worth(release', c) = amount /\ Stated(release', c) = amount
           /\ \A e : e # c => Worth(release', e) = Worth(release, e) /\ Stated(release', e) = Stated(release, e)
           /\ \A p \in Deciders : p # q => /\ FlightOf(p)'
                                           /\ Flying(p)' => Flying(p) /\ Subject(p)' = Subject(p) /\ Subject(p) # c
<1>1. Books /\ OneEach(release) /\ SentOk /\ release \in Seq(ReleaseRec) /\ Held(release, c) = {}
    BY DEF BooksInv, Books, SoundDeed, Held, RowsOf
<1>2. PICK n : n = Len(release) + 1
    OBVIOUS
<1>3. /\ release' \in Seq(ReleaseRec) /\ n \notin DOMAIN release
      /\ DOMAIN release' = DOMAIN release \cup {n}
      /\ \A i \in DOMAIN release : release'[i] = release[i]
      /\ release'[n] = NewRow(c, amount)
    BY <1>1, <1>2, AppendRow
<1>4. /\ release'[n].creator = c /\ release'[n].status = "pending" /\ release'[n].sent = 0
      /\ release'[n].amount = amount
    BY <1>3 DEF NewRow
<1>5. /\ OneEach(release') /\ Worth(release', c) = amount /\ Stated(release', c) = amount
      /\ \A e : e # c => Worth(release', e) = Worth(release, e) /\ Stated(release', e) = Stated(release, e)
                         /\ Held(release', e) = Held(release, e)
  <2>1. release \in Seq(ReleaseRec) /\ OneEach(release) /\ Held(release, c) = {}
      BY <1>1
  <2>2. /\ release' \in Seq(ReleaseRec) /\ n \notin DOMAIN release
        /\ DOMAIN release' = DOMAIN release \cup {n}
        /\ \A i \in DOMAIN release : release'[i] = release[i]
      BY <1>3
  <2>3. release'[n].creator = c /\ release'[n].status = "pending"
      BY <1>4
  <2>4. /\ OneEach(release') /\ Worth(release', c) = release'[n].amount
        /\ Stated(release', c) = release'[n].amount
        /\ \A e : e # c => Worth(release', e) = Worth(release, e) /\ Stated(release', e) = Stated(release, e)
                           /\ Held(release', e) = Held(release, e)
    <3>1. PICK rows, new : rows = release /\ new = release'
        OBVIOUS
    <3>2. rows \in Seq(ReleaseRec) /\ OneEach(rows) /\ Held(rows, c) = {} /\ new \in Seq(ReleaseRec)
        BY <2>1, <2>2, <3>1
    <3>3. n \notin DOMAIN rows /\ DOMAIN new = DOMAIN rows \cup {n} /\ \A i \in DOMAIN rows : new[i] = rows[i]
        BY <2>2, <3>1
    <3>4. new[n].creator = c /\ new[n].status = "pending"
        BY <2>3, <3>1
    <3>5. /\ OneEach(new) /\ Worth(new, c) = new[n].amount /\ Stated(new, c) = new[n].amount
          /\ \A e : e # c => Worth(new, e) = Worth(rows, e) /\ Stated(new, e) = Stated(rows, e)
                             /\ Held(new, e) = Held(rows, e)
        BY <3>2, <3>3, <3>4, HeldAnew, SMTT(40)
    <3>. QED BY <3>1, <3>5
  <2>. QED BY <1>4, <2>4
<1>6. SentOk'
    BY <1>1, <1>3, <1>4 DEF SentOk
<1>7. Lasting
    BY <1>3 DEF Lasting
<1>8. n \in Held(release', c)
    BY <1>3, <1>4 DEF Held
<1>9. \A e : Worth(release', e) <= Worth(release, e) \/ (Held(release, e) = {} /\ Held(release', e) # {})
  <2>. SUFFICES ASSUME NEW e, e # c PROVE Worth(release', e) <= Worth(release, e)
      BY <1>1, <1>8
  <2>1. Worth(release, e) \in 0 .. AgreedFee
      BY <1>1, WorthBounds
  <2>. QED BY <1>5, <2>1, SettlementBounds
<1>10. ASSUME NEW p \in Deciders, p # q
       PROVE  /\ FlightOf(p)'
              /\ Flying(p)' => Flying(p) /\ Subject(p)' = Subject(p) /\ Subject(p) # c
  <2>1. job'[p] = job[p] /\ FlightOf(p)
      BY <1>10 DEF Stepped, SoundDeed, FlightOk
  <2>2. FlightOf(p)' /\ (Flying(p)' => Flying(p) /\ Subject(p)' = Subject(p))
      BY <1>1, <1>3, <1>5, <1>7, <1>9, <2>1, FlightStays
  <2>3. Flying(p) => Subject(p) # c
    <3>1. Flying(p) => job[p].row \in DOMAIN release /\ release[job[p].row].creator = Subject(p)
        BY DEF BooksInv, AtHand, Flying
    <3>. QED BY <1>1, <3>1 DEF Held
  <2>. QED BY <2>2, <2>3
<1>. QED BY <1>5, <1>6, <1>10

LEMMA CreateReleaseSound ==
    ASSUME BooksInv, Books', SoundDeed, Fair', NEW q \in Deciders, NEW c \in Creators, CreateRelease(q, c)
    PROVE  SoundDeed' /\ (EvenInv => EvenInv')
<1>1. /\ Books /\ job[q].pc = "release" /\ release' = Append(release, NewRow(c, job[q].owe[c]))
      /\ UNCHANGED <<refund, settled, scan, dispute>> /\ blame' = blame \cup Blamed(q, c)
    BY DEF CreateRelease, others, BooksInv
<1>2. Early(q) /\ RowsOf(c) = {} /\ c \notin settled
    BY <1>1 DEF Fair, Blamed, When, TakenBefore, Early
<1>3. /\ Stepped(q) /\ AtHand(q)' /\ AtHand(q) /\ c \in Owing(q) /\ job[q].owe[c] \in 0 .. AgreedFee
      /\ \/ job[q].back = 0 /\ job'[q] = NoDeed
         \/ job[q].back > 0 /\ Keeping(q) /\ job'[q].pc = "refund" /\ job'[q].back = job[q].back
    BY CreateReleaseEffect DEF BooksInv
<1>4. /\ SentOk' /\ OneEach(release') /\ Worth(release', c) = job[q].owe[c]
      /\ \A p \in Deciders : p # q => FlightOf(p)'
    BY <1>1, <1>2, <1>3, NewRowSettles
<1>5. FlightOf(q)'
  <2>1. CASE job'[q] = NoDeed
      BY <2>1, NoDeedIs DEF FlightOf, Flying
  <2>2. CASE job[q].back > 0 /\ Keeping(q) /\ job'[q].pc = "refund" /\ job'[q].back = job[q].back
    <3>1. c = Subject(q) /\ job[q].owe[c] + job[q].back <= AgreedFee /\ job[q].row = 0
        BY <1>1, <1>3, <2>2 DEF AtHand
    <3>2. Subject(q)' = c
        BY <1>1, <2>2, <3>1 DEF Subject, Keeping
    <3>. QED BY <1>4, <2>2, <3>1, <3>2 DEF FlightOf, Flying, Keeping
  <2>. QED BY <1>3, <2>1, <2>2
<1>6. FlightOk'
    BY <1>4, <1>5 DEF FlightOk
<1>7. /\ refund' = <<>> /\ \A s \in Scans : scan'[s].pc # "queue"
      /\ \A p \in Deciders : job'[p].pc # "shares"
  <2>1. job'[q].pc # "shares"
      BY <1>3, NoDeedIs
  <2>. QED BY <1>1, <1>2, <1>3, <2>1 DEF Early, Stepped
<1>8. SoundDeed'
    BY <1>4, <1>6, <1>7 DEF SoundDeed, RefundOk, ScanOk, ShareOk
<1>9. ASSUME EvenInv, Undisputed'
      PROVE  \A i \in DOMAIN release' : release'[i].status = "cancelled" => release'[i].amount = 0
  <2>1. Undisputed
      BY <1>1, <1>3, <1>9 DEF Undisputed, Stepped
  <2>2. /\ DOMAIN release' = DOMAIN release \cup {Len(release) + 1}
        /\ \A i \in DOMAIN release : release'[i] = release[i]
        /\ release'[Len(release) + 1] = NewRow(c, job[q].owe[c])
      BY <1>1, <1>3, AppendRow
  <2>. QED BY <1>9, <2>1, <2>2 DEF EvenInv, NewRow
<1>. QED BY <1>7, <1>8, <1>9 DEF EvenInv

LEMMA CreateShareSound ==
    ASSUME BooksInv, Books', SoundDeed, Fair', NEW q \in Deciders, NEW c \in Creators, CreateShare(q, c)
    PROVE  SoundDeed' /\ (EvenInv => EvenInv')
<1>1. /\ Books /\ job[q].pc = "shares" /\ release' = Append(release, NewRow(c, job[q].owe[c]))
      /\ UNCHANGED <<refund, settled, scan, dispute>> /\ blame' = blame \cup Blamed(q, c)
    BY DEF CreateShare, others, BooksInv
<1>2. Early(q) /\ RowsOf(c) = {} /\ c \notin settled
    BY <1>1 DEF Fair, Blamed, When, TakenBefore, Early
<1>3. /\ Stepped(q) /\ job'[q].pc = "shares" /\ c \in Owing(q) /\ job[q].owe[c] \in 0 .. AgreedFee
      /\ job'[q].owe = [job[q].owe EXCEPT ![c] = 0] /\ job'[q].back = job[q].back
    BY CreateShareEffect
<1>4. /\ SentOk' /\ OneEach(release') /\ Worth(release', c) = job[q].owe[c] /\ Stated(release', c) = job[q].owe[c]
      /\ \A e : e # c => Worth(release', e) = Worth(release, e) /\ Stated(release', e) = Stated(release, e)
      /\ \A p \in Deciders : p # q => /\ FlightOf(p)'
                                      /\ Flying(p)' => Flying(p) /\ Subject(p)' = Subject(p) /\ Subject(p) # c
    BY <1>1, <1>2, <1>3, NewRowSettles
<1>5. FlightOf(q)' /\ ~Flying(q)'
    BY <1>3 DEF FlightOf, Flying
<1>6. FlightOk'
    BY <1>4, <1>5 DEF FlightOk
<1>7. /\ refund' = <<>> /\ \A s \in Scans : scan'[s].pc # "queue"
      /\ \A p \in Deciders : p # q => job'[p].pc # "shares"
    BY <1>1, <1>2, <1>3 DEF Early, Stepped
<1>8. Undisputed' => Undisputed
    BY <1>1, <1>3 DEF Undisputed, Stepped
<1>9. PICK K \in Caps : Shares(q, K)
    BY <1>1, <1>2 DEF SoundDeed, ShareOk, Early
<1>10. job[q].owe[c] = K[c] /\ K[c] \in 0 .. AgreedFee
    BY <1>3, <1>9, SettlementBounds DEF Owing, Shares, Caps
<1>11. job[q].owe \in [Creators -> 0 .. AgreedFee]
  <2>1. job[q] \in DeedRec
      BY <1>1 DEF Books
  <2>. QED BY <2>1 DEF DeedRec
<1>12. \A e \in Creators : e # c => job'[q].owe[e] = job[q].owe[e]
    BY <1>3, <1>11
<1>13. ASSUME NEW e \in Creators, job'[q].owe[e] = 0
       PROVE  CoversAt(K, e)' /\ (Undisputed' => Stated(release', e) = K[e])
  <2>1. CASE e = c
    <3>1. Worth(release', e) <= K[e] /\ Stated(release', e) = K[e]
        BY <1>4, <1>10, <2>1, SettlementBounds
    <3>2. \A p \in Deciders : Flying(p)' => Subject(p)' # e
        BY <1>4, <1>5, <2>1
    <3>. QED BY <3>1, <3>2 DEF CoversAt
  <2>2. CASE e # c
    <3>1. CoversAt(K, e) /\ (Undisputed => Stated(release, e) = K[e])
        BY <1>9, <1>12, <1>13, <2>2 DEF Shares
    <3>2. Worth(release', e) = Worth(release, e) /\ Stated(release', e) = Stated(release, e)
        BY <1>4, <2>2
    <3>3. ASSUME NEW p \in Deciders, Flying(p)', Subject(p)' = e, e \notin settled'
          PROVE  Worth(release', e) + job'[p].back <= K[e]
      <4>1. p # q /\ Flying(p) /\ Subject(p) = e
          BY <1>4, <1>5, <3>3
      <4>2. job'[p] = job[p]
          BY <1>3, <4>1 DEF Stepped
      <4>. QED BY <1>1, <3>1, <3>2, <3>3, <4>1, <4>2 DEF CoversAt
    <3>4. CoversAt(K, e)'
        BY <3>1, <3>2, <3>3 DEF CoversAt
    <3>. QED BY <1>8, <3>1, <3>2, <3>4
  <2>. QED BY <2>1, <2>2
<1>14. \A e \in Creators : job'[q].owe[e] \in {0, K[e]}
    BY <1>3, <1>9, <1>11, <1>12 DEF Shares
<1>15. Shares(q, K)'
    BY <1>3, <1>9, <1>13, <1>14 DEF Shares
<1>16. SoundDeed'
    BY <1>4, <1>6, <1>7, <1>9, <1>15 DEF SoundDeed, RefundOk, ScanOk, ShareOk
<1>17. ASSUME EvenInv, Undisputed'
       PROVE  \A i \in DOMAIN release' : release'[i].status = "cancelled" => release'[i].amount = 0
  <2>2. /\ DOMAIN release' = DOMAIN release \cup {Len(release) + 1}
        /\ \A i \in DOMAIN release : release'[i] = release[i]
        /\ release'[Len(release) + 1] = NewRow(c, job[q].owe[c])
      BY <1>1, <1>3, AppendRow
  <2>. QED BY <1>8, <1>17, <2>2 DEF EvenInv, NewRow
<1>. QED BY <1>7, <1>16, <1>17 DEF EvenInv

\* A step after which a request has nothing left to do, and the rows are as they were.
LEMMA FinishedStill ==
    ASSUME BooksInv, Books', SoundDeed, Fair', NEW q \in Deciders, Stepped(q), job'[q] = NoDeed,
           UNCHANGED <<release, dispute>>
    PROVE  SentOk' /\ OneEach(release') /\ FlightOk' /\ Lighter /\ (SumReleases' = SumReleases)
<1>1. RowsMove /\ DisputesLast /\ Lasting /\ Books
    BY UntouchedRows, UntouchedDisputes, MovingLasts DEF BooksInv
<1>2. RowsSettle /\ SameAmounts
  <2>1. "refrozen" \notin blame'
      BY DEF Fair
  <2>. QED BY <1>1, <2>1, MovedRows DEF SoundDeed
<1>3. FlightOf(q)' /\ ~Flying(q)'
    BY NoDeedIs DEF FlightOf, Flying
<1>4. FlightOk' /\ Lighter
    BY <1>1, <1>2, <1>3, OthersStill DEF Stepped
<1>. QED BY <1>1, <1>2, <1>4, SameSum DEF RowsSettle

LEMMA CreateRefundSound ==
    ASSUME BooksInv, Books', SoundDeed, Fair', NEW q \in Deciders, CreateRefund(q)
    PROVE  SoundDeed' /\ EvenInv'
<1>1. /\ Books /\ AtHand(q) /\ job[q].pc = "refund" /\ refund' = Append(refund, job[q].back)
      /\ settled' = settled \cup {Subject(q)} /\ UNCHANGED <<release, dispute>> /\ release \in Seq(ReleaseRec)
    BY DEF BooksInv, Books, CreateRefund
<1>2. Stepped(q) /\ job'[q] = NoDeed
    BY <1>1, FinishDeedEffect DEF CreateRefund
<1>3. SentOk' /\ OneEach(release') /\ FlightOk' /\ Lighter
    BY <1>1, <1>2, FinishedStill
<1>4. PICK c : c = Subject(q)
    OBVIOUS
<1>5. c \in Creators /\ c \in settled' /\ settled \subseteq settled'
  <2>1. job[q].d \in DOMAIN dispute
      BY <1>1 DEF AtHand
  <2>2. dispute[job[q].d] \in DisputeRec
      BY <1>1, <2>1 DEF Books
  <2>. QED BY <1>1, <1>4, <2>2 DEF Subject, DisputeRec
<1>6. /\ c \notin settled /\ ~(OnlyBack(q) /\ Held(release, c) # {})
      /\ job[q].row = 0 => refund = <<>>
    BY <1>4 DEF CreateRefund, Fair, When, TakenBefore, Held, RowsOf
<1>7. job[q].back \in 0 .. Budget /\ job[q].back \in Nat /\ Worth(release, c) \in 0 .. AgreedFee
  <2>1. job[q] \in DeedRec
      BY <1>1 DEF Books
  <2>2. OneEach(release)
      BY DEF SoundDeed
  <2>. QED BY <1>1, <2>1, <2>2, WorthBounds, SettlementBounds DEF DeedRec
<1>8. Refunded \in Nat /\ Refunded' = Refunded + job[q].back /\ refund' # <<>>
    BY <1>1, <1>7, RefundedGrows, AppendRefund
<1>9. PICK K \in Caps : /\ Covers(K) /\ Worth(release, c) + job[q].back <= K[c]
                        /\ SumOf(K, Creators) + Refunded <= Budget
  <2>1. CASE refund = <<>>
    <3>1. PICK K : K = [e \in Creators |-> AgreedFee]
        OBVIOUS
    <3>2. K \in Caps
        BY <3>1, SettlementBounds DEF Caps
    <3>3. Covers(K)
        BY <3>1, FullCovers DEF SoundDeed, Covers
    <3>4. Worth(release, c) + job[q].back <= K[c]
      <4>1. FlightOf(q)
          BY DEF SoundDeed, FlightOk
      <4>. QED BY <1>1, <1>4, <1>5, <1>6, <3>1, <4>1 DEF FlightOf
    <3>5. SumOf(K, Creators) + Refunded <= Budget
        BY <2>1, <3>2, CapsFit, NothingRefunded
    <3>. QED BY <3>2, <3>3, <3>4, <3>5
  <2>2. CASE refund # <<>>
    <3>1. PICK K \in Caps : Covers(K) /\ SumOf(K, Creators) + Refunded <= Budget
        BY <2>2 DEF SoundDeed, RefundOk
    <3>2. Flying(q)
        BY <1>1, <1>6, <2>2 DEF Flying
    <3>3. Worth(release, c) + job[q].back <= K[c]
        BY <1>4, <1>5, <1>6, <3>1, <3>2 DEF Covers, CoversAt
    <3>. QED BY <3>1, <3>3
  <2>. QED BY <2>1, <2>2
<1>10. PICK N : N = [K EXCEPT ![c] = Worth(release, c)]
    OBVIOUS
<1>11. N \in Caps /\ SumOf(N, Creators) = SumOf(K, Creators) - K[c] + Worth(release, c)
    BY <1>5, <1>7, <1>10, LowerCap
<1>12. SumOf(N, Creators) + Refunded' <= Budget
  <2>1. SumOf(K, Creators) \in Nat /\ SumOf(N, Creators) \in Nat
      BY <1>11, CapsFit
  <2>2. K[c] \in Nat
      BY <1>5, SettlementBounds DEF Caps
  <2>3. PICK k, n, r, b, w, t : /\ k = SumOf(K, Creators) /\ n = SumOf(N, Creators) /\ r = Refunded
                              /\ b = job[q].back /\ w = Worth(release, c) /\ t = K[c]
      OBVIOUS
  <2>4. n = k - t + w /\ w + b <= t /\ k + r <= Budget
      BY <1>9, <1>11, <2>3
  <2>5. k \in Nat /\ n \in Nat /\ t \in Nat /\ r \in Nat /\ b \in Nat /\ w \in Nat
      BY <1>7, <1>8, <2>1, <2>2, <2>3, SettlementBounds
  <2>6. n + (r + b) <= Budget
      BY <2>4, <2>5, SettlementBounds
  <2>7. Refunded' = r + b
      BY <1>8, <2>3
  <2>. QED BY <2>3, <2>6, <2>7
<1>13. ASSUME NEW e \in Creators
       PROVE  CoversAt(N, e)'
  <2>1. CASE e = c
    <3>1. N[e] = Worth(release, c) /\ Worth(release', e) = Worth(release, c)
        BY <1>1, <1>5, <1>10, <2>1 DEF Caps
    <3>. QED BY <1>5, <1>7, <2>1, <3>1, SettlementBounds DEF CoversAt
  <2>2. CASE e # c
    <3>1. N[e] = K[e]
        BY <1>10, <2>2 DEF Caps
    <3>2. CoversAt(K, e) /\ OneEach(release)
        BY <1>9 DEF Covers, SoundDeed
    <3>3. CoversAt(K, e)'
        BY <1>3, <1>5, <3>2, LighterCovers
    <3>. QED BY <3>1, <3>3 DEF CoversAt
  <2>. QED BY <2>1, <2>2
<1>14. RefundOk'
    BY <1>11, <1>12, <1>13 DEF RefundOk, Covers
<1>15. ScanOk' /\ ShareOk'
    BY <1>8 DEF ScanOk, ShareOk
<1>16. ~Undisputed'
    BY <1>5 DEF Undisputed
<1>. QED BY <1>3, <1>14, <1>15, <1>16 DEF SoundDeed, EvenInv

\* The rows of an undisputed campaign state what they cost.
LEMMA StatedFits ==
    ASSUME BooksInv, OneEach(release)
    PROVE  /\ SumReleases = SumOf([c \in Creators |-> Stated(release, c)], Creators)
           /\ SumReleases \in Nat /\ SumReleases <= Budget
<1>1. release \in Seq(ReleaseRec)
    BY DEF BooksInv, Books
<1>2. SumReleases = SumOf([c \in Creators |-> Stated(release, c)], Creators)
    BY <1>1, SumByCreator, TotalIsSum DEF SumReleases, Amounts
<1>3. [c \in Creators |-> Stated(release, c)] \in Caps
    BY <1>1, WorthCaps
<1>. QED BY <1>2, <1>3, CapsFit

LEMMA CreateRemainderSound ==
    ASSUME BooksInv, Books', SoundDeed, Fair', NEW q \in Deciders, CreateRemainder(q)
    PROVE  SoundDeed' /\ (EvenInv => EvenInv')
<1>1. /\ Books /\ job[q].pc = "shares" /\ Owing(q) = {} /\ UNCHANGED <<release, dispute, settled, scan>>
      /\ refund' = IF job[q].back > 0 THEN Append(refund, job[q].back) ELSE refund
    BY DEF BooksInv, CreateRemainder, others
<1>2. Stepped(q) /\ job'[q] = NoDeed
    BY <1>1, FinishDeedEffect DEF CreateRemainder
<1>3. SentOk' /\ OneEach(release') /\ FlightOk' /\ Lighter /\ SumReleases' = SumReleases
    BY <1>1, <1>2, FinishedStill
<1>4. Early(q) /\ blame \subseteq blame'
    BY DEF CreateRemainder, Fair, When, TakenBefore, Early
<1>5. job[q].back \in 0 .. Budget /\ job[q].back \in Nat /\ job[q].owe \in [Creators -> 0 .. AgreedFee]
  <2>1. job[q] \in DeedRec
      BY <1>1 DEF Books
  <2>. QED BY <2>1, SettlementBounds DEF DeedRec
<1>6. PICK K \in Caps : Shares(q, K)
    BY <1>1, <1>4 DEF SoundDeed, ShareOk, Early
<1>7. \A c \in Creators : job[q].owe[c] = 0
    BY <1>1, <1>5, SettlementBounds DEF Owing
<1>8. \A c \in Creators : CoversAt(K, c)
    BY <1>6, <1>7 DEF Shares
<1>9. \A c \in Creators : CoversAt(K, c)'
  <2>1. settled \subseteq settled' /\ OneEach(release)
      BY <1>1 DEF SoundDeed
  <2>. QED BY <1>3, <1>8, <2>1, LighterCovers
<1>10. SumOf(K, Creators) \in Nat /\ job[q].back = Budget - SumOf(K, Creators)
    BY <1>6, CapsFit DEF Shares
<1>11. CASE job[q].back > 0
  <2>1. Refunded' = job[q].back /\ refund' # <<>>
    <3>1. Refunded = 0
        BY <1>4, NothingRefunded DEF Early
    <3>. QED BY <1>1, <1>5, <1>11, <3>1, RefundedGrows, AppendRefund
  <2>2. SumOf(K, Creators) + Refunded' <= Budget
      BY <1>10, <2>1, SettlementBounds
  <2>3. RefundOk'
      BY <1>9, <2>2 DEF RefundOk, Covers
  <2>4. ScanOk' /\ ShareOk'
      BY <2>1 DEF ScanOk, ShareOk
  <2>5. ASSUME EvenInv, Undisputed'
        PROVE  EvenInv'
    <3>1. Undisputed
        BY <1>1, <1>2, <1>4, <2>5 DEF Undisputed, Stepped
    <3>2. \A c \in Creators : Stated(release, c) = K[c]
        BY <1>6, <1>7, <3>1 DEF Shares
    <3>3. [c \in Creators |-> Stated(release, c)] = K
        BY <3>2 DEF Caps
    <3>4. SumReleases = SumOf(K, Creators)
        BY <3>3, StatedFits DEF SoundDeed
    <3>5. SumReleases' + Refunded' = Budget
        BY <1>3, <1>10, <2>1, <3>4, SettlementBounds
    <3>. QED BY <1>1, <2>1, <2>5, <3>1, <3>5 DEF EvenInv
  <2>6. ~Undisputed' => EvenInv'
      BY DEF EvenInv
  <2>. QED BY <1>3, <2>3, <2>4, <2>5, <2>6 DEF SoundDeed
<1>12. CASE ~(job[q].back > 0)
  <2>1. refund' = <<>> /\ (\A s \in Scans : scan'[s].pc # "queue") /\ \A p \in Deciders : job'[p].pc # "shares"
      BY <1>1, <1>2, <1>4, <1>12, NoDeedIs DEF Early, Stepped
  <2>2. RefundOk' /\ ScanOk' /\ ShareOk'
      BY <2>1 DEF RefundOk, ScanOk, ShareOk
  <2>3. EvenInv /\ Undisputed' => Undisputed
      BY <1>1, <1>2, <1>4 DEF Undisputed, Stepped
  <2>. QED BY <1>1, <1>3, <2>1, <2>2, <2>3 DEF SoundDeed, EvenInv
<1>. QED BY <1>11, <1>12

LEMMA QueueLeftoverSound ==
    ASSUME BooksInv, Books', SoundDeed, Fair', NEW s \in Scans, QueueLeftover(s)
    PROVE  SoundDeed' /\ (EvenInv => EvenInv')
<1>1. /\ Books /\ scan[s].pc = "queue" /\ UNCHANGED <<release, dispute, job, settled>> /\ refund = <<>>
      /\ blame \subseteq blame' /\ OneEach(release)
      /\ refund' = Append(refund, IF scan[s].sum < Budget THEN Budget - scan[s].sum ELSE 0)
    BY DEF BooksInv, QueueLeftover, scanOnly, Fair, When, SoundDeed
<1>2. scan[s].sum \in Nat
  <2>1. scan[s] \in ScanRec
      BY <1>1 DEF Books
  <2>. QED BY <2>1 DEF ScanRec
<1>3. PICK left : left = IF scan[s].sum < Budget THEN Budget - scan[s].sum ELSE 0
    OBVIOUS
<1>4. left \in 0 .. Budget
    BY <1>2, <1>3, SettlementBounds
<1>5. Refunded' = left /\ refund' # <<>>
  <2>1. Refunded = 0 /\ refund' = Append(refund, left)
      BY <1>1, <1>3, NothingRefunded
  <2>. QED BY <1>1, <1>4, <2>1, RefundedGrows, AppendRefund
<1>6. RowsMove /\ DisputesLast /\ Lasting
    BY <1>1, UntouchedRows, UntouchedDisputes, MovingLasts
<1>7. RowsSettle /\ SameAmounts
  <2>1. "refrozen" \notin blame'
      BY DEF Fair
  <2>. QED BY <1>1, <1>6, <2>1, MovedRows DEF SoundDeed
<1>8. FlightOk' /\ Lighter
    BY <1>1, <1>6, <1>7, OthersStill
<1>9. PICK K \in Caps : Covers(K) /\ SumOf(K, Creators) + left <= Budget
  <2>1. CASE scan[s].sum < Budget
    <3>1. PICK K \in Caps : Covers(K) /\ SumOf(K, Creators) <= scan[s].sum
        BY <1>1 DEF SoundDeed, ScanOk
    <3>2. SumOf(K, Creators) \in Nat
        BY CapsFit
    <3>. QED BY <1>2, <1>3, <2>1, <3>1, <3>2, SettlementBounds
  <2>2. CASE ~(scan[s].sum < Budget)
    <3>1. PICK K : K = [e \in Creators |-> AgreedFee]
        OBVIOUS
    <3>2. K \in Caps
        BY <3>1, SettlementBounds DEF Caps
    <3>3. Covers(K)
        BY <3>1, FullCovers DEF SoundDeed, Covers
    <3>4. SumOf(K, Creators) \in Nat /\ SumOf(K, Creators) <= Budget
        BY <3>2, CapsFit
    <3>. QED BY <1>3, <2>2, <3>2, <3>3, <3>4
  <2>. QED BY <2>1, <2>2
<1>10. \A c \in Creators : CoversAt(K, c)'
  <2>1. settled \subseteq settled' /\ OneEach(release') /\ \A c \in Creators : CoversAt(K, c)
      BY <1>1, <1>9 DEF Covers
  <2>. QED BY <1>1, <1>8, <2>1, LighterCovers
<1>11. SoundDeed'
    BY <1>5, <1>7, <1>8, <1>9, <1>10 DEF SoundDeed, RowsSettle, RefundOk, ScanOk, ShareOk, Covers
<1>12. ASSUME EvenInv, Undisputed'
       PROVE  EvenInv'
  <2>1. Undisputed
      BY <1>1, <1>12 DEF Undisputed
  <2>2. scan[s].sum = SumReleases /\ SumReleases' = SumReleases
      BY <1>1, <1>7, <1>12, <2>1, SameSum DEF EvenInv
  <2>3. SumReleases \in Nat /\ SumReleases <= Budget
      BY <1>1, StatedFits
  <2>4. SumReleases' + Refunded' = Budget
      BY <1>3, <1>5, <2>2, <2>3, SettlementBounds
  <2>. QED BY <1>1, <1>5, <1>12, <2>1, <2>4 DEF EvenInv
<1>. QED BY <1>11, <1>12 DEF EvenInv

LEMMA WeightyEffects ==
    ASSUME BooksInv, Books', SoundDeed, EvenInv, Fair', NextSettlement
    PROVE  SoundDeed' /\ EvenInv'
<1>1. ASSUME Quiet
      PROVE  SoundDeed' /\ EvenInv'
    BY <1>1, QuietSound, QuietEven DEF BooksInv
<1>. QED BY <1>1, MostAreQuiet, ListSharesQuiet, SumUpQuiet, CreateRefundSound, CreateRemainderSound,
            CreateReleaseSound, CreateShareSound, QueueLeftoverSound DEF Weighty

LEMMA BudgetStart == InitSettlement => BudgetInv /\ EvenInv
<1>. SUFFICES ASSUME InitSettlement PROVE BudgetInv /\ EvenInv
    OBVIOUS
<1>1. \A q \in Deciders : job[q].pc = "idle"
    BY NoDeedIs DEF InitSettlement
<1>2. release = <<>> /\ refund = <<>> /\ \A s \in Scans : scan[s].pc = "idle"
    BY DEF InitSettlement, IdleScan
<1>3. FlightOk
    BY <1>1 DEF FlightOk, FlightOf, Flying
<1>4. SentOk /\ OneEach(release)
    BY <1>2 DEF SentOk, OneEach
<1>. QED BY <1>1, <1>2, <1>3, <1>4 DEF BudgetInv, EvenInv, SoundDeed, RefundOk, ScanOk, ShareOk

LEMMA BudgetStep ==
    BooksInv /\ BudgetInv /\ EvenInv /\ BooksInv' /\ [NextSettlement]_settlementVars => BudgetInv' /\ EvenInv'
<1>. SUFFICES ASSUME BooksInv, BudgetInv, EvenInv, BooksInv', [NextSettlement]_settlementVars
              PROVE  BudgetInv' /\ EvenInv'
    OBVIOUS
<1>1. Books'
    BY DEF BooksInv
<1>2. CASE UNCHANGED settlementVars
  <2>1. UNCHANGED <<release, refund, job, scan, settled, blame, dispute>>
      BY <1>2 DEF settlementVars
  <2>2. Fair' => Fair /\ SoundDeed
      BY <2>1 DEF BudgetInv, Fair
  <2>3. SoundDeed => SoundDeed'
    <3>1. SentOk' <=> SentOk
        BY <2>1 DEF SentOk
    <3>2. FlightOk' <=> FlightOk
        BY <2>1 DEF FlightOk, FlightOf, Flying, OnlyBack, Subject
    <3>3. \A K \in Caps : \A c \in Creators : CoversAt(K, c)' <=> CoversAt(K, c)
        BY <2>1 DEF CoversAt, Flying, Subject
    <3>4. Undisputed' <=> Undisputed
        BY <2>1 DEF Undisputed
    <3>5. RefundOk => RefundOk'
        BY <2>1, <3>3 DEF RefundOk, Covers, Refunded
    <3>6. ScanOk => ScanOk'
        BY <2>1, <3>3 DEF ScanOk, Covers
    <3>7. \A q \in Deciders, K \in Caps : Shares(q, K) => Shares(q, K)'
        BY <2>1, <3>3, <3>4 DEF Shares
    <3>8. ShareOk => ShareOk'
        BY <2>1, <3>7 DEF ShareOk
    <3>. QED BY <2>1, <3>1, <3>2, <3>5, <3>6, <3>8 DEF SoundDeed
  <2>4. EvenInv'
    <3>1. SumReleases' = SumReleases /\ Refunded' = Refunded
        BY <2>1 DEF SumReleases, Amounts, Refunded
    <3>. QED BY <2>1, <3>1 DEF EvenInv, Undisputed
  <2>. QED BY <2>2, <2>3, <2>4 DEF BudgetInv
<1>3. CASE NextSettlement /\ Fair'
  <2>1. SoundDeed
    <3>1. Fair
        BY <1>3, BlameGrows DEF Fair
    <3>. QED BY <3>1 DEF BudgetInv
  <2>. QED BY <1>1, <1>3, <2>1, WeightyEffects DEF BudgetInv
<1>4. CASE ~Fair'
  <2>1. ~Undisputed'
      BY <1>4 DEF Fair, Undisputed
  <2>. QED BY <1>4, <2>1 DEF BudgetInv, EvenInv
<1>. QED BY <1>2, <1>3, <1>4

\* What has left the budget, or will, is what the rows still cost and what was refunded.
LEMMA CommittedIs ==
    ASSUME BooksInv, SentOk
    PROVE  CommittedNow = SumOf([i \in DOMAIN release |-> Cost(release[i])], DOMAIN release) + Refunded
<1>1. release \in Seq(ReleaseRec)
    BY DEF BooksInv, Books
<1>2. \A i \in DOMAIN release : Out(i) = Cost(release[i]) /\ Cost(release[i]) \in Int
  <2>. SUFFICES ASSUME NEW i \in DOMAIN release PROVE Out(i) = Cost(release[i]) /\ Cost(release[i]) \in Int
      OBVIOUS
  <2>1. release[i].amount \in 0 .. AgreedFee /\ release[i].status \in RowStatus
        /\ release[i].sent = IF release[i].status \in {"underway", "released"} THEN 1 ELSE 0
      BY <1>1, RowIn DEF SentOk
  <2>2. PICK n : n = release[i].amount
      OBVIOUS
  <2>3. n \in Nat /\ n * 1 = n /\ n * 0 = 0
      BY <2>1, <2>2, SettlementBounds
  <2>4. CASE release[i].status \in {"underway", "released"}
      BY <2>1, <2>2, <2>3, <2>4 DEF Out, Cost
  <2>5. CASE release[i].status \in {"pending", "disputed"}
      BY <2>1, <2>2, <2>3, <2>5 DEF Out, Cost
  <2>6. CASE release[i].status = "cancelled"
      BY <2>1, <2>2, <2>3, <2>6 DEF Out, Cost
  <2>. QED BY <2>1, <2>4, <2>5, <2>6 DEF RowStatus
<1>3. PICK D, f, g : /\ D = DOMAIN release /\ f = [i \in DOMAIN release |-> Cost(release[i])]
                     /\ g = [i \in DOMAIN release |-> Out(i)]
    OBVIOUS
<1>4. SumOf(f, D) = SumOf(g, D)
  <2>1. IsFiniteSet(D)
      BY <1>1, <1>3, FiniteRows
  <2>2. \A i \in D : f[i] \in Int /\ g[i] = f[i]
      BY <1>2, <1>3
  <2>. QED BY <2>1, <2>2, SumCongruent
<1>5. CommittedNow = SumOf(g, D) + Refunded
    BY <1>3, TotalIsSum DEF CommittedNow, Refunded
<1>. QED BY <1>3, <1>4, <1>5

LEMMA BudgetHolds == BooksInv /\ BudgetInv /\ EvenInv => WithinBudget
<1>. SUFFICES ASSUME BooksInv, BudgetInv, EvenInv PROVE WithinBudget
    OBVIOUS
<1>1. release \in Seq(ReleaseRec)
    BY DEF BooksInv, Books
<1>2. ASSUME Fair
      PROVE  CommittedNow <= Budget
  <2>1. SoundDeed
      BY <1>2 DEF BudgetInv
  <2>2. PICK W : W = [c \in Creators |-> Worth(release, c)]
      OBVIOUS
  <2>3. W \in Caps /\ CommittedNow = SumOf(W, Creators) + Refunded
      BY <1>1, <2>1, <2>2, CommittedIs, SumByCreator, WorthCaps DEF SoundDeed
  <2>4. CASE refund = <<>>
      BY <2>3, <2>4, CapsFit, NothingRefunded
  <2>5. CASE refund # <<>>
    <3>1. PICK K \in Caps : Covers(K) /\ SumOf(K, Creators) + Refunded <= Budget
        BY <2>1, <2>5 DEF SoundDeed, RefundOk
    <3>2. SumOf(W, Creators) <= SumOf(K, Creators)
      <4>1. \A c \in Creators : W[c] \in Int /\ K[c] \in Int /\ W[c] <= K[c]
        <5>1. \A c \in Creators : W[c] \in 0 .. AgreedFee /\ K[c] \in 0 .. AgreedFee
            BY <2>3 DEF Caps
        <5>2. \A c \in Creators : W[c] <= K[c]
            BY <2>2, <3>1 DEF Covers, CoversAt
        <5>. QED BY <5>1, <5>2, SettlementBounds
      <4>. QED BY <4>1, SumAtMost, SettlementBounds
    <3>3. SumOf(W, Creators) \in Nat /\ SumOf(K, Creators) \in Nat
        BY <2>3, CapsFit
    <3>4. Refunded \in Nat
      <4>1. refund \in Seq(0 .. Budget)
          BY DEF BooksInv, Books
      <4>2. IsFiniteSet(DOMAIN refund) /\ \A i \in DOMAIN refund : refund[i] \in 0 .. Budget
        <5>1. PICK R : R = 0 .. Budget
            OBVIOUS
        <5>2. refund \in Seq(R)
            BY <4>1, <5>1
        <5>3. \A i \in DOMAIN refund : refund[i] \in R
            BY <5>2
        <5>4. IsFiniteSet(DOMAIN refund)
            BY <5>2, FiniteRows
        <5>. QED BY <5>1, <5>3, <5>4
      <4>3. \A i \in DOMAIN refund : refund[i] \in Nat
          BY <4>2, SettlementBounds
      <4>. QED BY <4>2, <4>3, SumType DEF Refunded
    <3>. QED BY <2>3, <3>1, <3>2, <3>3, <3>4, SettlementBounds
  <2>. QED BY <2>4, <2>5
<1>3. ASSUME Undisputed, refund # <<>>
      PROVE  CommittedNow = Budget
  <2>1. SoundDeed
      BY <1>3 DEF BudgetInv, Fair, Undisputed
  <2>2. PICK D, f, a : /\ D = DOMAIN release /\ f = [i \in DOMAIN release |-> Cost(release[i])]
                       /\ a = [i \in DOMAIN release |-> release[i].amount]
      OBVIOUS
  <2>3. SumOf(f, D) = SumOf(a, D)
    <3>1. IsFiniteSet(D)
        BY <1>1, <2>2, FiniteRows
    <3>2. \A i \in D : f[i] = a[i] /\ f[i] \in Int
      <4>. SUFFICES ASSUME NEW i \in D PROVE f[i] = a[i] /\ f[i] \in Int
          OBVIOUS
      <4>1. release[i].amount \in 0 .. AgreedFee /\ (release[i].status = "cancelled" => release[i].amount = 0)
          BY <1>1, <1>3, <2>2, RowIn DEF EvenInv
      <4>. QED BY <2>2, <4>1 DEF Cost
    <3>. QED BY <3>1, <3>2, SumCongruent
  <2>4. SumReleases = SumOf(a, D)
      BY <2>2, TotalIsSum DEF SumReleases, Amounts
  <2>5. CommittedNow = SumOf(f, D) + Refunded
      BY <2>1, <2>2, CommittedIs DEF SoundDeed
  <2>. QED BY <1>3, <2>3, <2>4, <2>5 DEF EvenInv
<1>. QED BY <1>2, <1>3 DEF WithinBudget, Fair

\* Approvals, disputes, splits, cancellations, the webhook and the nightly scan promise no
\* more than the budget between them, for any number of creators and of each of them,
\* unless one of the named events broke in; with no dispute in play they promise all of it.
THEOREM BudgetIsKept == SpecSettlement => []WithinBudget
BY BooksStart, BooksStep, BudgetStart, BudgetStep, BudgetHolds, PTL DEF SpecSettlement
=============================================================================
