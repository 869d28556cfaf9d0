--------------------------- MODULE NoticesProofs ---------------------------
(***************************************************************************)
(* Proofs about Notifications and Tokens, for any number of callers,       *)
(* users, requests, crons and rows.                                        *)
(***************************************************************************)
EXTENDS Tokens, Notifications, Sums, SequenceTheorems

-----------------------------------------------------------------------------
(* Notifications.  OnceInv ties the row of a user to the one dispatch that *)
(* is at his mail, StatusInv what the row says to what that dispatch did,  *)
(* and QuietInv the channels that a dispatch has resolved to what his      *)
(* settings have allowed.                                                  *)

Pending == {"mail", "sent", "failed"}
Channels == {"inApp", "mail", "push"}
RunRec == [pc : {"off", "resolve", "next"} \cup Pending,
           todo : SUBSET (Users \X SUBSET Channels), user : Users \cup {Off.user}]

\* The shape of every variable of Notifications.
NoticesTypeOK ==
    /\ event \in EventRec /\ off \in [Users -> SUBSET Toggles]
    /\ caller \in [Callers -> {"idle", "adding", "returned"}] /\ parked \subseteq Callers
    /\ job \in [Callers -> {"none", "waiting", "active", "completed", "failed", "removed"}]
    /\ taken \in [Callers -> Nat] /\ stalled \in [Callers -> Nat]
    /\ run \in [Runs -> RunRec]
    /\ rows \in [Users -> Nat] /\ pushed \in [Users -> Nat] /\ mailed \in [Users -> Nat]
    /\ status \in [Users -> {"none", "skipped", "sent", "failed"}]
    /\ allowed \in [Users -> SUBSET Toggles] /\ excused \subseteq Users
    /\ unrecorded \subseteq Users \cup {Off.user}
    /\ faults \in Nat /\ crashes \in Nat /\ changes \in Nat

\* Nothing is dispatched of a call that has not returned, nor of a job that nobody is at.
UnderwayInv ==
    \A c \in Callers :
        /\ caller[c] # "returned" =>
             run[<<c, "inline">>].pc = "off" /\ job[c] = "none" /\ c \notin parked
        /\ job[c] # "active" => run[<<c, "job">>].pc = "off"

MailIn(d, u) == run[d].pc \in Pending /\ run[d].user = u

OnceInv ==
    event.keyed =>
        /\ \A u \in Users : rows[u] <= 1 /\ pushed[u] <= rows[u] /\ mailed[u] <= rows[u]
        /\ \A d \in Runs : \A u \in Users : MailIn(d, u) =>
             /\ rows[u] = 1 /\ \A e \in Runs : MailIn(e, u) => e = d
             /\ run[d].pc = "mail" => mailed[u] = 0
             /\ run[d].pc = "sent" => mailed[u] = 1

StatusInv ==
    event.keyed => \A u \in Users :
        /\ status[u] = "sent" => mailed[u] = 1
        /\ status[u] = "skipped" /\ u \notin unrecorded /\ mailed[u] > 0 =>
             \E d \in Runs : MailIn(d, u) /\ run[d].pc # "mail"

Muting ==
    {"emailNotifications"} \cup
        {CategoryKey[c] : c \in {event.entry.category} \cap DOMAIN CategoryKey}
MayMail(u) == event.entry.category \notin NeverMuted => \A t \in Muting : t \in allowed[u]
MayPush(u) == "pushNotifications" \in allowed[u]

SentAsAllowed ==
    /\ \A d \in Runs : \A u \in Users :
         run[d].pc = "mail" /\ run[d].user = u => MayMail(u)
    /\ \A u \in Users : (pushed[u] > 0 => MayPush(u)) /\ (mailed[u] > 0 => MayMail(u))

QuietInv ==
    event.to # "staff" =>
        /\ \A c \in Callers : caller[c] # "idle" =>
             \A u \in Users : Toggles \ off[u] \subseteq allowed[u]
        /\ \A d \in Runs : \A r \in run[d].todo :
             ("push" \in r[2] => MayPush(r[1])) /\ ("mail" \in r[2] => MayMail(r[1]))
        /\ SentAsAllowed

NoticesInv == NoticesTypeOK /\ UnderwayInv /\ OnceInv /\ StatusInv /\ QuietInv

LEMMA WantedType ==
    ASSUME NEW S
    PROVE  Wanted(S) \subseteq Channels
BY DEF Wanted, Resolve, Channels

\* Init establishes the invariant.
LEMMA NoticesStart == InitNotifications => NoticesInv
<1>. SUFFICES ASSUME InitNotifications PROVE NoticesInv
    OBVIOUS
<1>. USE NotificationConstants DEF InitNotifications
<1>1. Off \in RunRec /\ Off.pc = "off" /\ Off.todo = {}
    BY DEF Off, RunRec
<1>2. NoticesTypeOK
    BY <1>1 DEF NoticesTypeOK
<1>3. UnderwayInv
    BY <1>1 DEF UnderwayInv, Runs
<1>4. \A d \in Runs : run[d] = Off
    OBVIOUS
<1>5. OnceInv
    BY <1>1, <1>4 DEF OnceInv, MailIn, Pending
<1>6. StatusInv
    BY <1>1, <1>4 DEF StatusInv
<1>7. QuietInv
    BY <1>1, <1>4 DEF QuietInv, SentAsAllowed
<1>. QED BY <1>2, <1>3, <1>5, <1>6, <1>7 DEF NoticesInv

\* A record of a dispatch, or a count of a user, replaced by one of the same shape.
LEMMA RunUpdates ==
    ASSUME NEW f \in [Runs -> RunRec], NEW d \in Runs
    PROVE  /\ \A x \in RunRec : [f EXCEPT ![d] = x] \in [Runs -> RunRec]
           /\ \A p \in {"off", "resolve", "next"} \cup Pending :
                [f EXCEPT ![d].pc = p] \in [Runs -> RunRec]
           /\ \A r : [f EXCEPT ![d].todo = @ \ {r}] \in [Runs -> RunRec]
<1>1. \A x \in RunRec : [f EXCEPT ![d] = x] \in [Runs -> RunRec]
    OBVIOUS
<1>2. f[d] \in RunRec
    OBVIOUS
<1>3. \A p \in {"off", "resolve", "next"} \cup Pending : [f[d] EXCEPT !.pc = p] \in RunRec
    BY <1>2 DEF RunRec
<1>4. \A r : [f[d] EXCEPT !.todo = @ \ {r}] \in RunRec
    BY <1>2 DEF RunRec
<1>. HIDE DEF RunRec, Pending
<1>. QED BY <1>1, <1>3, <1>4

\* A dispatch is that of a job or an inline one.
LEMMA RunKinds ==
    /\ \A c \in Callers : <<c, "job">> \in Runs /\ <<c, "inline">> \in Runs
    /\ \A c, d \in Callers : (<<c, "job">> = <<d, "job">> <=> c = d)
         /\ (<<c, "inline">> = <<d, "inline">> <=> c = d) /\ <<c, "job">> # <<d, "inline">>
    /\ \A d \in Runs : \E c \in Callers :
         d[1] = c /\ ((d = <<c, "job">> /\ d[2] = "job") \/ (d = <<c, "inline">> /\ d[2] = "inline"))
<1>1. \A c \in Callers : <<c, "job">> \in Runs /\ <<c, "inline">> \in Runs
    BY DEF Runs
<1>2. \A c, d \in Callers : (<<c, "job">> = <<d, "job">> <=> c = d)
         /\ (<<c, "inline">> = <<d, "inline">> <=> c = d) /\ <<c, "job">> # <<d, "inline">>
    OBVIOUS
<1>3. ASSUME NEW d \in Runs
      PROVE \E c \in Callers :
         d[1] = c /\ ((d = <<c, "job">> /\ d[2] = "job") \/ (d = <<c, "inline">> /\ d[2] = "inline"))
  <2>1. PICK c \in Callers, k \in {"job", "inline"} : d = <<c, k>>
      BY DEF Runs
  <2>2. d[1] = c /\ d[2] = k
      BY <2>1
  <2>3. CASE k = "job"
      BY <2>1, <2>2, <2>3
  <2>4. CASE k = "inline"
      BY <2>1, <2>2, <2>4
  <2>. QED BY <2>3, <2>4
<1>. QED BY <1>1, <1>2, <1>3

LEMMA Moved ==
    ASSUME run \in [Runs -> RunRec], NEW d \in Runs, NEW p,
           run' = [run EXCEPT ![d].pc = p]
    PROVE  /\ \A e \in Runs : e # d => run'[e] = run[e]
           /\ run'[d].pc = p /\ run'[d].user = run[d].user /\ run'[d].todo = run[d].todo
BY DEF RunRec
LEMMA Struck ==
    ASSUME run \in [Runs -> RunRec], NEW d \in Runs, NEW r,
           run' = [run EXCEPT ![d].todo = @ \ {r}]
    PROVE  /\ \A e \in Runs : e # d => run'[e] = run[e]
           /\ run'[d].pc = run[d].pc /\ run'[d].user = run[d].user
           /\ run'[d].todo = run[d].todo \ {r}
BY DEF RunRec
LEMMA Placed ==
    ASSUME run \in [Runs -> RunRec], NEW d \in Runs, NEW x, run' = [run EXCEPT ![d] = x]
    PROVE  run'[d] = x /\ \A e \in Runs : e # d => run'[e] = run[e]
OBVIOUS

LEMMA Counts ==
    ASSUME NEW f \in [Users -> Nat], NEW u
    PROVE  [f EXCEPT ![u] = @ + 1] \in [Users -> Nat]
<1>1. CASE u \in Users
    BY <1>1
<1>2. CASE u \notin Users
    BY <1>2
<1>. QED BY <1>1, <1>2

LEMMA NoticesTypeStep ==
    ASSUME NoticesTypeOK, [NextNotifications]_noticeVars
    PROVE  NoticesTypeOK'
<1>. USE NotificationConstants DEF NoticesTypeOK
<1>. USE DEF told, queue, bounds
<1>0. /\ Off \in RunRec
      /\ \A x \in RunRec, p \in {"off", "resolve", "next"} \cup Pending : [x EXCEPT !.pc = p] \in RunRec
      /\ \A x \in RunRec : \A r : [x EXCEPT !.todo = x.todo \ {r}] \in RunRec
      /\ \A c \in Callers : <<c, "job">> \in Runs /\ <<c, "inline">> \in Runs
      /\ \A d \in Runs : d[1] \in Callers
    BY DEF Off, RunRec, Runs, Pending
<1>1. ASSUME NEW u \in Users, NEW t \in Flips, ChangeSettings(u, t)
      PROVE  NoticesTypeOK'
    BY <1>1 DEF ChangeSettings, Heed
<1>2. ASSUME NEW c \in Callers, Call(c) PROVE NoticesTypeOK'
    BY <1>2 DEF Call, Heed
<1>3. ASSUME NEW c \in Callers, Add(c) PROVE NoticesTypeOK'
    BY <1>3 DEF Add
<1>4. ASSUME NEW c \in Callers, DispatchInline(c) PROVE NoticesTypeOK'
    BY <1>0, <1>4 DEF DispatchInline, Pending
<1>5. ASSUME NEW c \in Callers, Take(c) PROVE NoticesTypeOK'
  <2>1. run' \in [Runs -> RunRec]
      BY <1>0, <1>5 DEF Take
  <2>. QED BY <1>5, <2>1 DEF Take
<1>6. ASSUME NEW c \in Callers, Stall(c) PROVE NoticesTypeOK'
    BY <1>6 DEF Stall
<1>7. ASSUME NEW c \in Callers, Remove(c) PROVE NoticesTypeOK'
    BY <1>7 DEF Remove
<1>8. ASSUME NEW d \in Runs, ReadRecipients(d) PROVE NoticesTypeOK'
  <2> DEFINE todo == {<<u, Wanted(off[u])>> : u \in Recipients}
  <2>1. todo \in SUBSET (Users \X SUBSET Channels)
      BY WantedType DEF Recipients
  <2>. HIDE DEF todo
  <2>2. \A x \in RunRec : [x EXCEPT !.pc = "next", !.todo = todo] \in RunRec
      BY <2>1 DEF RunRec
  <2>3. run' \in [Runs -> RunRec]
      BY <1>8, <2>2 DEF ReadRecipients, todo
  <2>. QED BY <1>8, <2>3 DEF ReadRecipients
<1>9. ASSUME NEW d \in Runs, ReadFails(d) PROVE NoticesTypeOK'
    BY <1>0, <1>9 DEF ReadFails
<1>10. ASSUME NEW d \in Runs, NEW r \in run[d].todo, CreateRow(d, r) PROVE NoticesTypeOK'
  <2>1. r[1] \in Users /\ r[2] \subseteq Channels
      BY DEF RunRec
  <2>2. \A p \in {"mail", "next"} :
          [pc |-> p, todo |-> run[d].todo \ {r}, user |-> r[1]] \in RunRec
      BY <2>1 DEF RunRec, Pending
  <2>3. run' \in [Runs -> RunRec]
    <3>1. \/ run' = [run EXCEPT ![d].todo = @ \ {r}]
          \/ \E p \in {"mail", "next"} :
                run' = [run EXCEPT ![d] = [pc |-> p, todo |-> run[d].todo \ {r}, user |-> r[1]]]
        BY <1>10 DEF CreateRow
    <3>2. run \in [Runs -> RunRec]
        OBVIOUS
    <3>. HIDE DEF NoticesTypeOK
    <3>3. CASE run' = [run EXCEPT ![d].todo = @ \ {r}]
        BY <3>2, <3>3, RunUpdates
    <3>4. ASSUME NEW p \in {"mail", "next"},
                 run' = [run EXCEPT ![d] = [pc |-> p, todo |-> run[d].todo \ {r}, user |-> r[1]]]
          PROVE  run' \in [Runs -> RunRec]
        BY <2>2, <3>2, <3>4, RunUpdates
    <3>. QED BY <3>1, <3>3, <3>4
  <2>4. /\ rows' \in [Users -> Nat] /\ pushed' \in [Users -> Nat]
        /\ status' \in [Users -> {"none", "skipped", "sent", "failed"}]
      BY <1>10, <2>1 DEF CreateRow
  <2>. QED BY <1>10, <2>3, <2>4 DEF CreateRow
<1>11. ASSUME NEW d \in Runs, NEW r \in run[d].todo, CreateFails(d, r) PROVE NoticesTypeOK'
  <2>1. r[1] \in Users
      BY DEF RunRec
  <2>2. run' \in [Runs -> RunRec]
      BY <1>0, <1>11 DEF CreateFails
  <2>. QED BY <1>11, <2>1, <2>2 DEF CreateFails
<1>12. ASSUME NEW d \in Runs, SendMail(d) PROVE NoticesTypeOK'
  <2>1. run' \in [Runs -> RunRec]
      BY <1>12, RunUpdates DEF SendMail, Pending
  <2>2. mailed' \in [Users -> Nat]
      BY <1>12, Counts DEF SendMail
  <2>. QED BY <1>12, <2>1, <2>2 DEF SendMail
<1>13. ASSUME NEW d \in Runs, MailFails(d) PROVE NoticesTypeOK'
  <2>1. run' \in [Runs -> RunRec]
      BY <1>0, <1>13 DEF MailFails, Pending
  <2>. QED BY <1>13, <2>1 DEF MailFails
<1>14. ASSUME NEW d \in Runs, RecordMail(d) PROVE NoticesTypeOK'
    BY <1>0, <1>14 DEF RecordMail, Pending
<1>15. ASSUME NEW d \in Runs, RecordFails(d) PROVE NoticesTypeOK'
  <2>1. PICK pc \in {"failed", "next"} :
          /\ run' = [run EXCEPT ![d].pc = pc]
          /\ unrecorded' = IF pc = "next" THEN unrecorded \cup {run[d].user} ELSE unrecorded
      BY <1>15 DEF RecordFails
  <2>2. run' \in [Runs -> RunRec]
    <3>1. run \in [Runs -> RunRec] /\ pc \in {"off", "resolve", "next"} \cup Pending
        BY DEF NoticesTypeOK, Pending
    <3>. QED BY <2>1, <3>1, RunUpdates
  <2>3. run[d].user \in Users \cup {Off.user}
      BY DEF NoticesTypeOK, RunRec
  <2>. QED BY <1>15, <2>1, <2>2, <2>3 DEF RecordFails
<1>16. ASSUME NEW d \in Runs, EndDispatch(d) PROVE NoticesTypeOK'
    BY <1>0, <1>16 DEF EndDispatch, EndOf
<1>17. ASSUME NEW c \in Callers, NEW J \in SUBSET Callers, Crash(c, J) PROVE NoticesTypeOK'
  <2>1. run' \in [Runs -> RunRec]
      BY <1>0, <1>17 DEF Crash
  <2>2. unrecorded' \subseteq Users \cup {Off.user}
    <3>1. \A e \in Runs : run[e].user \in Users \cup {Off.user}
        BY DEF NoticesTypeOK, RunRec
    <3>2. {<<c, "inline">>} \cup (J \X {"job"}) \subseteq Runs
        BY DEF Runs
    <3>. QED BY <1>17, <3>1, <3>2 DEF Crash
  <2>. QED BY <1>0, <1>17, <2>1, <2>2 DEF Crash
<1>18. CASE UNCHANGED noticeVars
    BY <1>18 DEF noticeVars
<1>. QED BY <1>1, <1>2, <1>3, <1>4, <1>5, <1>6, <1>7, <1>8, <1>9, <1>10, <1>11, <1>12, <1>13,
            <1>14, <1>15, <1>16, <1>17, <1>18 DEF NextNotifications, DispatchStep, Fault

LEMMA UnderwayMove ==
    ASSUME job \in [Callers -> {"none", "waiting", "active", "completed", "failed", "removed"}],
           UnderwayInv, NEW d \in Runs, run[d].pc # "off",
           \A e \in Runs : e # d => run'[e] = run[e],
           caller' = caller, parked' = parked,
           \/ job' = job
           \/ d[2] = "job" /\ run'[d].pc = "off" /\ \E j : j # "none" /\ job' = [job EXCEPT ![d[1]] = j]
    PROVE  UnderwayInv'
<1>1. PICK c \in Callers : d[1] = c /\ ((d = <<c, "job">> /\ d[2] = "job") \/ (d = <<c, "inline">> /\ d[2] = "inline"))
    BY RunKinds
<1>2. CASE d = <<c, "job">> /\ d[2] = "job"
  <2>1. caller[c] = "returned" /\ job[c] = "active"
      BY <1>2 DEF UnderwayInv
  <2>2. \A e \in Callers : e # c => job'[e] = job[e] /\ run'[<<e, "job">>] = run[<<e, "job">>]
    <3>1. \A e \in Callers : e # c => run'[<<e, "job">>] = run[<<e, "job">>]
        BY <1>2, RunKinds
    <3>2. \A e \in Callers : e # c => job'[e] = job[e]
        BY <1>1
    <3>. QED BY <3>1, <3>2
  <2>3. \A e \in Callers : run'[<<e, "inline">>] = run[<<e, "inline">>]
      BY <1>2, RunKinds
  <2>4. job'[c] # "active" => run'[<<c, "job">>].pc = "off"
      BY <1>1, <1>2, <2>1
  <2>. SUFFICES ASSUME NEW e \in Callers
                PROVE  /\ caller[e] # "returned" =>
                            run'[<<e, "inline">>].pc = "off" /\ job'[e] = "none" /\ e \notin parked
                       /\ job'[e] # "active" => run'[<<e, "job">>].pc = "off"
      BY DEF UnderwayInv
  <2>5. CASE e = c
      BY <2>1, <2>3, <2>4, <2>5
  <2>6. CASE e # c
      BY <2>2, <2>3, <2>6 DEF UnderwayInv
  <2>. QED BY <2>5, <2>6
<1>3. CASE d = <<c, "inline">> /\ d[2] = "inline"
  <2>1. caller[c] = "returned" /\ job' = job
      BY <1>3 DEF UnderwayInv
  <2>2. \A e \in Callers : e # c => run'[<<e, "inline">>] = run[<<e, "inline">>]
      BY <1>3, RunKinds
  <2>3. \A e \in Callers : run'[<<e, "job">>] = run[<<e, "job">>]
      BY <1>3, RunKinds
  <2>. SUFFICES ASSUME NEW e \in Callers
                PROVE  /\ caller[e] # "returned" =>
                            run'[<<e, "inline">>].pc = "off" /\ job[e] = "none" /\ e \notin parked
                       /\ job[e] # "active" => run'[<<e, "job">>].pc = "off"
      BY <2>1 DEF UnderwayInv
  <2>. QED BY <2>1, <2>2, <2>3 DEF UnderwayInv
<1>. QED BY <1>1, <1>2, <1>3

LEMMA UnderwayInline ==
  ASSUME caller \in [Callers -> {"idle", "adding", "returned"}], run \in [Runs -> RunRec],
         UnderwayInv, NEW c \in Callers, DispatchInline(c) 
  PROVE UnderwayInv'
  <2> DEFINE d == <<c, "inline">>
  <2>1. d \in Runs /\ run' = [run EXCEPT ![d].pc = "resolve"]
      BY RunKinds DEF DispatchInline
  <2>2. d # <<c, "job">> /\ \A e \in Callers : d # <<e, "job">> /\ (e # c => d # <<e, "inline">>)
      BY RunKinds
  <2>. HIDE DEF d
  <2>3. \A e \in Runs : e # d => run'[e] = run[e]
      BY <2>1, Moved
  <2>4. job' = job /\ caller'[c] = "returned" /\ \A e \in Callers : e # c => caller'[e] = caller[e] /\ (e \in parked' => e \in parked)
     BY DEF DispatchInline
  <2>5. ASSUME NEW e \in Callers PROVE run'[<<e, "job">>] = run[<<e, "job">>] /\ (e # c => run'[<<e, "inline">>] = run[<<e, "inline">>])
      BY <2>2, <2>3, RunKinds
  <2>. QED BY <2>5, <2>4 DEF UnderwayInv

LEMMA UnderwayTake ==
  ASSUME job \in [Callers -> {"none", "waiting", "active", "completed", "failed", "removed"}], run \in [Runs -> RunRec],
         UnderwayInv, NEW c \in Callers, Take(c) 
  PROVE UnderwayInv'
  <2> DEFINE d == <<c, "job">>
  <2>1. d \in Runs /\ run' = [run EXCEPT ![d].pc = "resolve"]
      BY RunKinds DEF Take
  <2>2. d # <<c, "inline">> /\ \A e \in Callers : d # <<e, "inline">> /\ (e # c => d # <<e, "job">>)
      BY RunKinds
  <2>. HIDE DEF d
  <2>3. \A e \in Runs : e # d => run'[e] = run[e]
      BY <2>1, Moved
  <2>4. /\ caller' = caller /\ parked' = parked /\ job[c] = "waiting" /\ job'[c] = "active"
        /\ \A e \in Callers : e # c => job'[e] = job[e]
     BY DEF Take
  <2>5. ASSUME NEW e \in Callers PROVE run'[<<e, "inline">>] = run[<<e, "inline">>] /\ (e # c => run'[<<e, "job">>] = run[<<e, "job">>])
      BY <2>2, <2>3, RunKinds
  <2>. SUFFICES ASSUME NEW e \in Callers
                PROVE  /\ caller[e] # "returned" =>
                            run'[<<e, "inline">>].pc = "off" /\ job'[e] = "none" /\ e \notin parked
                       /\ job'[e] # "active" => run'[<<e, "job">>].pc = "off"
      BY <2>4 DEF UnderwayInv
  <2>6. CASE e = c
      BY <2>4, <2>5, <2>6 DEF UnderwayInv
  <2>7. CASE e # c
      BY <2>4, <2>5, <2>7 DEF UnderwayInv
  <2>. QED BY <2>6, <2>7
LEMMA UnderwayStep ==
    ASSUME NoticesTypeOK, UnderwayInv, [NextNotifications]_noticeVars
    PROVE  UnderwayInv'
<1>0. /\ caller \in [Callers -> {"idle", "adding", "returned"}] /\ parked \subseteq Callers
      /\ job \in [Callers -> {"none", "waiting", "active", "completed", "failed", "removed"}]
      /\ run \in [Runs -> RunRec]
    BY DEF NoticesTypeOK
<1>1. ASSUME caller' = caller, parked' = parked, job' = job, run' = run PROVE UnderwayInv'
    BY <1>1 DEF UnderwayInv
<1>2. ASSUME NEW u \in Users, NEW t \in Flips, ChangeSettings(u, t) PROVE UnderwayInv'
    BY <1>1, <1>2 DEF ChangeSettings, queue
<1>3. ASSUME NEW c \in Callers, Call(c) PROVE UnderwayInv'
  <2>1. /\ parked' = parked /\ job' = job /\ run' = run
        /\ caller[c] = "idle" /\ \A e \in Callers : e # c => caller'[e] = caller[e]
      BY <1>0, <1>3 DEF Call, queue
  <2>. QED BY <2>1 DEF UnderwayInv
<1>4. ASSUME NEW c \in Callers, Add(c) PROVE UnderwayInv'
  <2>1. /\ run' = run /\ caller'[c] = "returned" /\ \A e \in Callers : e # c => caller'[e] = caller[e]
        /\ parked' \subseteq parked /\ \A e \in Callers : e # c => job'[e] = job[e]
        /\ job[c] = "none"
      BY <1>0, <1>4 DEF Add
  <2>. QED BY <2>1 DEF UnderwayInv
<1>5. ASSUME NEW c \in Callers, DispatchInline(c) \/ Take(c) PROVE UnderwayInv'
    BY <1>0, <1>5, UnderwayInline, UnderwayTake
<1>6. ASSUME NEW c \in Callers, Stall(c) \/ Remove(c) PROVE UnderwayInv'
  <2>1. /\ run' = run /\ caller' = caller /\ parked' = parked
        /\ job[c] # "none" /\ (job[c] = "active" => run[<<c, "job">>].pc = "off")
        /\ \A e \in Callers : e # c => job'[e] = job[e]
      BY <1>0, <1>6 DEF Stall, Remove
  <2>. QED BY <2>1 DEF UnderwayInv
<1>7. ASSUME NEW d \in Runs, ReadFails(d) \/ EndDispatch(d) PROVE UnderwayInv'
  <2>1. run' = [run EXCEPT ![d] = Off] /\ run[d].pc # "off"
      BY <1>7 DEF ReadFails, EndDispatch
  <2>2. run'[d].pc = "off" /\ \A e \in Runs : e # d => run'[e] = run[e]
      BY <1>0, <2>1, Placed DEF Off
  <2>3. caller' = caller /\ parked' = parked
      BY <1>7 DEF ReadFails, EndDispatch
  <2>4. job' = job \/ (d[2] = "job" /\ \E j : j # "none" /\ job' = [job EXCEPT ![d[1]] = j])
    <3>1. CASE ReadFails(d)
      <4> DEFINE j == IF taken[d[1]] < Attempts THEN "waiting" ELSE "failed"
      <4>1. CASE d[2] = "job"
        <5>1. job' = [job EXCEPT ![d[1]] = j]
            BY <3>1, <4>1 DEF ReadFails
        <5>2. j # "none"
            OBVIOUS
        <5>. QED BY <4>1, <5>1, <5>2
      <4>2. CASE d[2] # "job"
          BY <3>1, <4>2 DEF ReadFails
      <4>. QED BY <4>1, <4>2
    <3>2. CASE EndDispatch(d)
        BY <3>2 DEF EndDispatch, EndOf
    <3>. QED BY <1>7, <3>1, <3>2
  <2>. QED BY <1>0, <2>1, <2>2, <2>3, <2>4, UnderwayMove
<1>8. ASSUME NEW d \in Runs, DispatchStep(d) \/ Fault(d) PROVE UnderwayInv'
  <2>1. CASE ReadFails(d) \/ EndDispatch(d)
      BY <1>7, <2>1
  <2>2. CASE ~(ReadFails(d) \/ EndDispatch(d))
    <3>1. run[d].pc # "off" /\ caller' = caller /\ parked' = parked /\ job' = job
        BY <1>8, <2>2 DEF DispatchStep, Fault, ReadRecipients, SendMail, RecordMail, CreateRow,
                          MailFails, RecordFails, CreateFails, queue
    <3>2. \A e \in Runs : e # d => run'[e] = run[e]
        BY <1>0, <1>8, <2>2 DEF DispatchStep, Fault, ReadRecipients, SendMail, RecordMail,
                          CreateRow, MailFails, RecordFails, CreateFails
    <3>. QED BY <1>0, <3>1, <3>2, UnderwayMove
  <2>. QED BY <2>1, <2>2
<1>9. ASSUME NEW c \in Callers, NEW J \in SUBSET Callers, Crash(c, J) PROVE UnderwayInv'
  <2>1. \A d \in Runs : run'[d] = run[d] \/ run'[d].pc = "off"
      BY <1>9 DEF Crash, Off
  <2>2. run'[<<c, "inline">>].pc = "off"
      BY <1>9, RunKinds DEF Crash, Off
  <2>3. /\ job' = job /\ parked' \subseteq parked /\ c \notin parked'
        /\ \A e \in Callers : caller'[e] # "returned" => caller[e] # "returned"
      BY <1>0, <1>9 DEF Crash
  <2>. SUFFICES ASSUME NEW e \in Callers
                PROVE  /\ caller'[e] # "returned" =>
                            run'[<<e, "inline">>].pc = "off" /\ job[e] = "none" /\ e \notin parked'
                       /\ job[e] # "active" => run'[<<e, "job">>].pc = "off"
      BY <2>3 DEF UnderwayInv
  <2>4. /\ run'[<<e, "job">>] = run[<<e, "job">>] \/ run'[<<e, "job">>].pc = "off"
        /\ run'[<<e, "inline">>] = run[<<e, "inline">>] \/ run'[<<e, "inline">>].pc = "off"
      BY <2>1, RunKinds
  <2>. QED BY <2>3, <2>4 DEF UnderwayInv
<1>10. CASE UNCHANGED noticeVars
    BY <1>1, <1>10 DEF noticeVars, queue
<1>. QED BY <1>2, <1>3, <1>4, <1>5, <1>6, <1>8, <1>9, <1>10 DEF NextNotifications

\* Most steps touch neither rows nor mails, and leave those at a mail where they are.
Calm ==
    /\ event' = event /\ rows' = rows /\ pushed' = pushed /\ mailed' = mailed /\ status' = status
    /\ \A d \in Runs : run'[d].pc \in Pending =>
         run[d].pc \in Pending /\ run'[d].user = run[d].user /\ run'[d].pc \in {run[d].pc, "failed"}
    /\ unrecorded \subseteq unrecorded'
    /\ \A d \in Runs : run[d].pc \in {"sent", "failed"} =>
         \/ run[d].user \in unrecorded'
         \/ run'[d].pc \in {"sent", "failed"} /\ run'[d].user = run[d].user

\* The outcome of a mail is written to the row.
Noted(d) ==
    /\ event' = event /\ rows' = rows /\ pushed' = pushed /\ mailed' = mailed
    /\ unrecorded' = unrecorded
    /\ run[d].pc \in {"sent", "failed"} /\ status' = [status EXCEPT ![run[d].user] = run[d].pc]
    /\ run'[d].pc = "next" /\ \A e \in Runs : e # d => run'[e] = run[e]

\* A row that is new: the dispatch that made it goes on to the mail or to the next.
Told(d, r) ==
    /\ event' = event /\ mailed' = mailed /\ unrecorded' = unrecorded
    /\ event.keyed => rows[r[1]] = 0
    /\ rows' = [rows EXCEPT ![r[1]] = @ + 1]
    /\ status' = [status EXCEPT ![r[1]] = "skipped"]
    /\ pushed' = IF "push" \in r[2] THEN [pushed EXCEPT ![r[1]] = @ + 1] ELSE pushed
    /\ run[d].pc = "next" /\ run'[d].user = r[1] /\ run'[d].pc \in {"mail", "next"}
    /\ run'[d].pc = "mail" => "mail" \in r[2]
    /\ \A e \in Runs : e # d => run'[e] = run[e]

\* One dispatch d has moved, and neither rows nor mails.
LEMMA KeptCalm ==
    ASSUME NEW d \in Runs, \A e \in Runs : e # d => run'[e] = run[e],
           event' = event, rows' = rows, pushed' = pushed, mailed' = mailed, status' = status,
           unrecorded \subseteq unrecorded',
           \/ run[d].pc \notin Pending /\ run'[d].pc \in {"off", "resolve", "next"}
           \/ run[d].pc \in Pending /\ run'[d].pc = "next" /\ run[d].user \in unrecorded'
           \/ run[d].pc \in Pending /\ run'[d].user = run[d].user /\ run'[d].pc = "failed"
    PROVE  Calm
BY DEF Calm, Pending

LEMMA Effects ==
    ASSUME NoticesTypeOK, UnderwayInv, [NextNotifications]_noticeVars
    PROVE  \/ Calm
           \/ \E d \in Runs : SendMail(d) \/ Noted(d)
           \/ \E d \in Runs : \E r \in run[d].todo : Told(d, r)
<1>0. run \in [Runs -> RunRec]
    BY DEF NoticesTypeOK
<1>1. ASSUME event' = event, rows' = rows, pushed' = pushed, mailed' = mailed, status' = status,
             unrecorded' = unrecorded, run' = run
      PROVE  Calm
    BY <1>0, <1>1 DEF Calm
<1>2. ASSUME NEW u \in Users, NEW t \in Flips, ChangeSettings(u, t) PROVE Calm
    BY <1>1, <1>2 DEF ChangeSettings, told
<1>3. ASSUME NEW c \in Callers, Call(c) \/ Add(c) \/ Stall(c) \/ Remove(c) PROVE Calm
    BY <1>1, <1>3 DEF Call, Add, Stall, Remove, told, bounds
<1>4. ASSUME NEW c \in Callers, DispatchInline(c) \/ Take(c) PROVE Calm
  <2>1. PICK d \in Runs : run' = [run EXCEPT ![d].pc = "resolve"] /\ run[d].pc = "off"
    <3>1. CASE DispatchInline(c)
      <4>1. run[<<c, "inline">>].pc = "off" /\ run' = [run EXCEPT ![<<c, "inline">>].pc = "resolve"]
          BY <3>1 DEF DispatchInline, UnderwayInv
      <4>. QED BY <4>1, RunKinds
    <3>2. CASE Take(c)
      <4>1. run[<<c, "job">>].pc = "off" /\ run' = [run EXCEPT ![<<c, "job">>].pc = "resolve"]
          BY <3>2 DEF Take, UnderwayInv
      <4>. QED BY <4>1, RunKinds
    <3>. QED BY <1>4, <3>1, <3>2
  <2>2. run'[d].pc = "resolve" /\ \A e \in Runs : e # d => run'[e] = run[e]
      BY <1>0, <2>1, Moved
  <2>3. /\ event' = event /\ rows' = rows /\ pushed' = pushed /\ mailed' = mailed
        /\ status' = status /\ unrecorded' = unrecorded
      BY <1>4 DEF DispatchInline, Take, told, bounds
  <2>. QED BY <1>0, <2>1, <2>2, <2>3, KeptCalm DEF Pending
<1>5. ASSUME NEW d \in Runs, ReadRecipients(d) \/ ReadFails(d) \/ EndDispatch(d) PROVE Calm
  <2>1. /\ event' = event /\ rows' = rows /\ pushed' = pushed /\ mailed' = mailed
        /\ status' = status /\ unrecorded' = unrecorded /\ run[d].pc \in {"resolve", "next"}
      BY <1>5 DEF ReadRecipients, ReadFails, EndDispatch, told, bounds
  <2>2. run'[d].pc \in {"off", "next"} /\ \A e \in Runs : e # d => run'[e] = run[e]
    <3>1. CASE ReadRecipients(d)
        BY <1>0, <3>1 DEF ReadRecipients, RunRec
    <3>2. CASE ReadFails(d) \/ EndDispatch(d)
        BY <1>0, <3>2 DEF ReadFails, EndDispatch, Off
    <3>. QED BY <1>5, <3>1, <3>2
  <2>. QED BY <1>0, <2>1, <2>2, KeptCalm DEF Pending
<1>6. ASSUME NEW d \in Runs, NEW r \in run[d].todo, CreateFails(d, r) PROVE Calm
  <2>1. /\ event' = event /\ rows' = rows /\ pushed' = pushed /\ mailed' = mailed
        /\ status' = status /\ unrecorded' = unrecorded /\ run[d].pc = "next"
        /\ run' = [run EXCEPT ![d].todo = @ \ {r}]
      BY <1>6 DEF CreateFails, told
  <2>2. run'[d].pc = "next" /\ \A e \in Runs : e # d => run'[e] = run[e]
      BY <1>0, <2>1, Struck
  <2>. QED BY <1>0, <2>1, <2>2, KeptCalm DEF Pending
<1>7. ASSUME NEW d \in Runs, MailFails(d) \/ RecordFails(d) PROVE Calm
  <2>1. /\ event' = event /\ rows' = rows /\ pushed' = pushed /\ mailed' = mailed
        /\ status' = status /\ run[d].pc \in Pending
      BY <1>7 DEF MailFails, RecordFails, told, Pending
  <2>2. PICK pc \in {"failed", "next"} :
          /\ run' = [run EXCEPT ![d].pc = pc] /\ unrecorded \subseteq unrecorded'
          /\ pc = "next" => run[d].user \in unrecorded'
      BY <1>7 DEF MailFails, RecordFails, told
  <2>3. /\ run'[d].pc = pc /\ run'[d].user = run[d].user
        /\ \A e \in Runs : e # d => run'[e] = run[e]
      BY <1>0, <2>2, Moved
  <2>. QED BY <1>0, <2>1, <2>2, <2>3, KeptCalm
<1>8. ASSUME NEW d \in Runs, RecordMail(d) PROVE Noted(d)
  <2>1. run' = [run EXCEPT ![d].pc = "next"]
      BY <1>8 DEF RecordMail
  <2>2. run'[d].pc = "next" /\ \A e \in Runs : e # d => run'[e] = run[e]
      BY <1>0, <2>1, Moved
  <2>. QED BY <1>8, <2>2 DEF RecordMail, Noted, bounds
<1>9. ASSUME NEW c \in Callers, NEW J \in SUBSET Callers, Crash(c, J) PROVE Calm
  <2>1. PICK dead \in SUBSET Runs :
          /\ run' = [d \in Runs |-> IF d \in dead THEN Off ELSE run[d]]
          /\ unrecorded' = unrecorded \cup
               {run[d].user : d \in {e \in dead : run[e].pc \in {"sent", "failed"}}}
    <3>1. {<<c, "inline">>} \cup (J \X {"job"}) \in SUBSET Runs
        BY DEF Runs
    <3>. QED BY <1>9, <3>1 DEF Crash
  <2>2. /\ event' = event /\ rows' = rows /\ pushed' = pushed /\ mailed' = mailed
        /\ status' = status
      BY <1>9 DEF Crash
  <2>3. \A d \in Runs : run'[d] = run[d] \/ run'[d].pc = "off"
      BY <2>1 DEF Off
  <2>4. \A d \in Runs : run[d].pc \in {"sent", "failed"} =>
          run[d].user \in unrecorded' \/ run'[d] = run[d]
      BY <2>1
  <2>. QED BY <2>1, <2>2, <2>3, <2>4 DEF Calm, Pending
<1>10. ASSUME NEW d \in Runs, NEW r \in run[d].todo, CreateRow(d, r) PROVE Calm \/ Told(d, r)
  <2>1. r[1] \in Users
      BY <1>0 DEF RunRec
  <2> DEFINE skip == r[2] \cap {"inApp", "mail"} = {} \/ (event.keyed /\ rows[r[1]] > 0)
             new == [pc |-> IF "mail" \in r[2] /\ r[1] \notin Synthetic THEN "mail" ELSE "next",
                     todo |-> run[d].todo \ {r}, user |-> r[1]]
  <2>2. event' = event /\ mailed' = mailed /\ unrecorded' = unrecorded /\ run[d].pc = "next"
      BY <1>10 DEF CreateRow
  <2>3. CASE skip
    <3>1. /\ rows' = rows /\ pushed' = pushed /\ status' = status
          /\ run' = [run EXCEPT ![d].todo = @ \ {r}]
        BY <1>10, <2>3 DEF CreateRow
    <3>2. run'[d].pc = "next" /\ \A e \in Runs : e # d => run'[e] = run[e]
        BY <1>0, <2>2, <3>1, Struck
    <3>. QED BY <1>0, <2>2, <3>1, <3>2, KeptCalm DEF Pending
  <2>4. CASE ~skip
    <3>1. /\ run' = [run EXCEPT ![d] = new]
          /\ rows' = [rows EXCEPT ![r[1]] = @ + 1]
          /\ status' = [status EXCEPT ![r[1]] = "skipped"]
          /\ pushed' = IF "push" \in r[2] THEN [pushed EXCEPT ![r[1]] = @ + 1] ELSE pushed
        BY <1>10, <2>4 DEF CreateRow
    <3>2. run'[d] = new /\ \A e \in Runs : e # d => run'[e] = run[e]
        BY <1>0, <3>1, Placed
    <3>3. event.keyed => rows[r[1]] = 0
      <4>1. rows[r[1]] \in Nat
          BY <2>1 DEF NoticesTypeOK
      <4>. QED BY <2>4, <4>1
    <3>4. new.user = r[1] /\ new.pc \in {"mail", "next"} /\ (new.pc = "mail" => "mail" \in r[2])
        OBVIOUS
    <3>. HIDE DEF new
    <3>. QED BY <2>2, <3>1, <3>2, <3>3, <3>4 DEF Told
  <2>. QED BY <2>3, <2>4
<1>11. CASE UNCHANGED noticeVars
    BY <1>1, <1>11 DEF noticeVars, told, bounds
<1>. QED BY <1>2, <1>3, <1>4, <1>5, <1>6, <1>7, <1>8, <1>9, <1>10, <1>11
         DEF NextNotifications, DispatchStep, Fault

\* A mail goes out for the dispatch d, which is at it.
LEMMA MailOut ==
    ASSUME NoticesTypeOK, NEW d \in Runs, SendMail(d)
    PROVE  /\ event' = event /\ rows' = rows /\ pushed' = pushed /\ status' = status
           /\ unrecorded' = unrecorded /\ run[d].pc = "mail"
           /\ run'[d].pc = "sent" /\ run'[d].user = run[d].user
           /\ \A e \in Runs : e # d => run'[e] = run[e]
           /\ \A u \in Users :
                mailed'[u] = IF u = run[d].user THEN mailed[u] + 1 ELSE mailed[u]
<1>1. run' = [run EXCEPT ![d].pc = "sent"] /\ run \in [Runs -> RunRec]
    BY DEF SendMail, NoticesTypeOK
<1>2. /\ run'[d].pc = "sent" /\ run'[d].user = run[d].user
      /\ \A e \in Runs : e # d => run'[e] = run[e]
    BY <1>1, Moved
<1>3. \A u \in Users : mailed'[u] = IF u = run[d].user THEN mailed[u] + 1 ELSE mailed[u]
    BY DEF SendMail, NoticesTypeOK
<1>. QED BY <1>2, <1>3 DEF SendMail

LEMMA OnceStep ==
    ASSUME NoticesTypeOK, UnderwayInv, OnceInv, [NextNotifications]_noticeVars
    PROVE  OnceInv'
<1>0. /\ rows \in [Users -> Nat] /\ pushed \in [Users -> Nat] /\ mailed \in [Users -> Nat]
      /\ run \in [Runs -> RunRec]
    BY DEF NoticesTypeOK
<1>1. CASE Calm
    BY <1>1 DEF Calm, OnceInv, MailIn, Pending
<1>2. ASSUME NEW d \in Runs, Noted(d) PROVE OnceInv'
    BY <1>2 DEF Noted, OnceInv, MailIn, Pending
<1>3. ASSUME NEW d \in Runs, SendMail(d) PROVE OnceInv'
  <2>. SUFFICES ASSUME event.keyed PROVE OnceInv'
      BY <1>3, MailOut DEF OnceInv
  <2>1. /\ event' = event /\ rows' = rows /\ pushed' = pushed /\ run[d].pc = "mail"
        /\ run'[d].pc = "sent" /\ run'[d].user = run[d].user
        /\ \A e \in Runs : e # d => run'[e] = run[e]
        /\ \A u \in Users :
             mailed'[u] = IF u = run[d].user THEN mailed[u] + 1 ELSE mailed[u]
      BY <1>3, MailOut
  <2>2. \A e \in Runs, u \in Users : MailIn(e, u)' <=> MailIn(e, u)
      BY <2>1 DEF MailIn, Pending
  <2>3. \A u \in Users : u = run[d].user =>
          rows[u] = 1 /\ mailed[u] = 0 /\ \A e \in Runs : MailIn(e, u) => e = d
      BY <2>1 DEF OnceInv, MailIn, Pending
  <2>4. \A u \in Users : rows'[u] <= 1 /\ pushed'[u] <= rows'[u] /\ mailed'[u] <= rows'[u]
      BY <1>0, <2>1, <2>3 DEF OnceInv
  <2>5. ASSUME NEW e \in Runs, NEW u \in Users, MailIn(e, u)'
        PROVE  /\ rows'[u] = 1 /\ \A f \in Runs : MailIn(f, u)' => f = e
               /\ run'[e].pc = "mail" => mailed'[u] = 0
               /\ run'[e].pc = "sent" => mailed'[u] = 1
    <3>1. MailIn(e, u) /\ rows[u] = 1 /\ \A f \in Runs : MailIn(f, u) => f = e
        BY <2>2, <2>5 DEF OnceInv
    <3>2. CASE e = d
        BY <2>1, <2>2, <2>3, <3>1, <3>2 DEF MailIn
    <3>3. CASE e # d
      <4>1. u # run[d].user
          BY <2>3, <3>1, <3>3
      <4>. QED BY <2>1, <2>2, <3>1, <3>3, <4>1 DEF OnceInv
    <3>. QED BY <3>2, <3>3
  <2>. QED BY <2>1, <2>4, <2>5 DEF OnceInv
<1>4. ASSUME NEW d \in Runs, NEW r \in run[d].todo, Told(d, r) PROVE OnceInv'
  <2>. SUFFICES ASSUME event.keyed PROVE OnceInv'
      BY <1>4 DEF Told, OnceInv
  <2> DEFINE v == r[1]
  <2>1. v \in Users
      BY <1>0 DEF RunRec
  <2>2. rows[v] = 0 /\ pushed[v] = 0 /\ mailed[v] = 0 /\ \A e \in Runs : ~MailIn(e, v)
    <3>1. rows[v] = 0
        BY <1>4 DEF Told
    <3>. QED BY <1>0, <2>1, <3>1 DEF OnceInv
  <2>3. /\ rows'[v] = 1 /\ pushed'[v] \in {0, 1} /\ mailed' = mailed /\ event' = event
        /\ \A u \in Users : u # v => rows'[u] = rows[u] /\ pushed'[u] = pushed[u]
      BY <1>0, <1>4, <2>1, <2>2 DEF Told
  <2>4. /\ run'[d].pc \in {"mail", "next"} /\ run'[d].user = v /\ run[d].pc = "next"
        /\ \A e \in Runs : e # d => run'[e] = run[e]
      BY <1>4 DEF Told
  <2>. HIDE DEF v
  <2>5. \A e \in Runs, u \in Users : u # v => (MailIn(e, u)' <=> MailIn(e, u))
      BY <2>4 DEF MailIn, Pending
  <2>6. \A e \in Runs : MailIn(e, v)' => e = d /\ run'[e].pc = "mail"
      BY <2>2, <2>4 DEF MailIn, Pending
  <2>7. \A u \in Users : rows'[u] <= 1 /\ pushed'[u] <= rows'[u] /\ mailed'[u] <= rows'[u]
      BY <1>0, <2>1, <2>2, <2>3 DEF OnceInv
  <2>8. ASSUME NEW e \in Runs, NEW u \in Users, MailIn(e, u)'
        PROVE  /\ rows'[u] = 1 /\ \A f \in Runs : MailIn(f, u)' => f = e
               /\ run'[e].pc = "mail" => mailed'[u] = 0
               /\ run'[e].pc = "sent" => mailed'[u] = 1
    <3>1. CASE u = v
        BY <2>2, <2>3, <2>6, <2>8, <3>1
    <3>2. CASE u # v
      <4>1. MailIn(e, u) /\ \A f \in Runs : MailIn(f, u)' => MailIn(f, u)
          BY <2>5, <2>8, <3>2
      <4>2. e # d
          BY <2>4, <4>1 DEF MailIn, Pending
      <4>. QED BY <2>3, <2>4, <3>2, <4>1, <4>2 DEF OnceInv
    <3>. QED BY <3>1, <3>2
  <2>. QED BY <2>3, <2>7, <2>8 DEF OnceInv
<1>. QED BY <1>1, <1>2, <1>3, <1>4, Effects

LEMMA StatusStep ==
    ASSUME NoticesTypeOK, UnderwayInv, OnceInv, StatusInv, [NextNotifications]_noticeVars
    PROVE  StatusInv'
<1>0. /\ rows \in [Users -> Nat] /\ mailed \in [Users -> Nat] /\ run \in [Runs -> RunRec]
      /\ status \in [Users -> {"none", "skipped", "sent", "failed"}]
    BY DEF NoticesTypeOK
<1>1. CASE Calm
  <2>1. /\ event' = event /\ mailed' = mailed /\ status' = status
        /\ unrecorded \subseteq unrecorded'
      BY <1>1 DEF Calm
  <2>2. ASSUME NEW d \in Runs, NEW u \in Users, u \notin unrecorded', MailIn(d, u), run[d].pc # "mail"
        PROVE  MailIn(d, u)' /\ run'[d].pc # "mail"
      BY <1>1, <2>2 DEF Calm, MailIn, Pending
  <2>. QED BY <2>1, <2>2 DEF StatusInv
<1>2. ASSUME NEW d \in Runs, Noted(d) PROVE StatusInv'
  <2>. SUFFICES ASSUME event.keyed, NEW u \in Users
                PROVE  /\ status'[u] = "sent" => mailed'[u] = 1
                       /\ status'[u] = "skipped" /\ u \notin unrecorded' /\ mailed'[u] > 0 =>
                            \E e \in Runs : MailIn(e, u)' /\ run'[e].pc # "mail"
      BY <1>2 DEF StatusInv, Noted
  <2>1. /\ mailed' = mailed /\ unrecorded' = unrecorded /\ run[d].pc \in {"sent", "failed"}
        /\ status'[u] = IF u = run[d].user THEN run[d].pc ELSE status[u]
        /\ \A e \in Runs : e # d => run'[e] = run[e]
      BY <1>0, <1>2 DEF Noted
  <2>2. CASE u = run[d].user
      BY <2>1, <2>2 DEF OnceInv, MailIn, Pending
  <2>3. CASE u # run[d].user
    <3>1. \A e \in Runs : MailIn(e, u) => e # d
        BY <2>3 DEF MailIn
    <3>2. \A e \in Runs : MailIn(e, u) => MailIn(e, u)' /\ run'[e].pc = run[e].pc
        BY <2>1, <3>1 DEF MailIn
    <3>. QED BY <2>1, <2>3, <3>2 DEF StatusInv
  <2>. QED BY <2>2, <2>3
<1>3. ASSUME NEW d \in Runs, SendMail(d) PROVE StatusInv'
  <2>1. /\ event' = event /\ status' = status /\ unrecorded' = unrecorded /\ run[d].pc = "mail"
        /\ run'[d].pc = "sent" /\ run'[d].user = run[d].user
        /\ \A e \in Runs : e # d => run'[e] = run[e]
        /\ \A u \in Users :
             mailed'[u] = IF u = run[d].user THEN mailed[u] + 1 ELSE mailed[u]
      BY <1>3, MailOut
  <2>. SUFFICES ASSUME event.keyed, NEW u \in Users
                PROVE  /\ status[u] = "sent" => mailed'[u] = 1
                       /\ status[u] = "skipped" /\ u \notin unrecorded /\ mailed'[u] > 0 =>
                            \E e \in Runs : MailIn(e, u)' /\ run'[e].pc # "mail"
      BY <2>1 DEF StatusInv
  <2>2. CASE u = run[d].user
    <3>1. mailed[u] = 0
        BY <2>1, <2>2 DEF OnceInv, MailIn, Pending
    <3>2. MailIn(d, u)' /\ run'[d].pc # "mail"
        BY <2>1, <2>2 DEF MailIn, Pending
    <3>. QED BY <3>1, <3>2 DEF StatusInv
  <2>3. CASE u # run[d].user
    <3>1. \A e \in Runs : MailIn(e, u) => e # d
        BY <2>3 DEF MailIn
    <3>2. \A e \in Runs : MailIn(e, u) => MailIn(e, u)' /\ run'[e].pc = run[e].pc
        BY <2>1, <3>1 DEF MailIn
    <3>. QED BY <2>1, <2>3, <3>2 DEF StatusInv
  <2>. QED BY <2>2, <2>3
<1>4. ASSUME NEW d \in Runs, NEW r \in run[d].todo, Told(d, r) PROVE StatusInv'
  <2>1. /\ event' = event /\ mailed' = mailed /\ unrecorded' = unrecorded /\ run[d].pc = "next"
        /\ event.keyed => rows[r[1]] = 0
        /\ \A e \in Runs : e # d => run'[e] = run[e]
        /\ \A u \in Users : status'[u] = IF u = r[1] THEN "skipped" ELSE status[u]
      BY <1>0, <1>4 DEF Told
  <2>. SUFFICES ASSUME event.keyed, NEW u \in Users
                PROVE  /\ status'[u] = "sent" => mailed[u] = 1
                       /\ status'[u] = "skipped" /\ u \notin unrecorded /\ mailed[u] > 0 =>
                            \E e \in Runs : MailIn(e, u)' /\ run'[e].pc # "mail"
      BY <2>1 DEF StatusInv
  <2>2. CASE u = r[1]
      BY <1>0, <2>1, <2>2 DEF OnceInv
  <2>3. CASE u # r[1]
    <3>1. \A e \in Runs : MailIn(e, u) => MailIn(e, u)' /\ run'[e].pc = run[e].pc
        BY <2>1 DEF MailIn, Pending
    <3>. QED BY <2>1, <2>3, <3>1 DEF StatusInv
  <2>. QED BY <2>2, <2>3
<1>. QED BY <1>1, <1>2, <1>3, <1>4, Effects

\* What the settings of a user allow him, a history of them that covers these has allowed.
LEMMA WantedIsHeeded ==
    ASSUME event.to # "staff", NEW u, Toggles \ off[u] \subseteq allowed[u]
    PROVE  /\ "push" \in Wanted(off[u]) => MayPush(u)
           /\ "mail" \in Wanted(off[u]) => MayMail(u)
<1>1. Wanted(off[u]) = Resolve(event.entry, off[u])
    BY DEF Wanted
<1>2. ASSUME "push" \in Wanted(off[u]) PROVE MayPush(u)
  <2>1. "pushNotifications" \notin off[u]
      BY <1>1, <1>2 DEF Resolve
  <2>. QED BY <2>1 DEF MayPush, Toggles
<1>3. ASSUME "mail" \in Wanted(off[u]), event.entry.category \notin NeverMuted PROVE MayMail(u)
  <2>1. /\ "emailNotifications" \notin off[u]
        /\ event.entry.category \in DOMAIN CategoryKey => CategoryKey[event.entry.category] \notin off[u]
      BY <1>1, <1>3 DEF Resolve
  <2>2. \A c \in DOMAIN CategoryKey : CategoryKey[c] \in Toggles
      BY DEF CategoryKey, Toggles
  <2>. QED BY <2>1, <2>2 DEF MayMail, Muting, Toggles
<1>. QED BY <1>2, <1>3 DEF MayMail

\* What every step does to the event, the histories of settings and the resolved channels.
Heard ==
    /\ event' = event /\ \A u \in Users : allowed[u] \subseteq allowed'[u]
    /\ \A c \in Callers : caller'[c] # "idle" => \A u \in Users : Toggles \ off'[u] \subseteq allowed'[u]
    /\ \A d \in Runs : \A r \in run'[d].todo :
         \/ r \in run[d].todo
         \/ \E u \in Users : r = <<u, Wanted(off[u])>> /\ Toggles \ off[u] \subseteq allowed[u]

\* The settings and their history stay, callers at most return, and one dispatch has no new recipient.
LEMMA KeptHeard ==
    ASSUME QuietInv, event.to # "staff", event' = event, off' = off, allowed' = allowed,
           \A c \in Callers : caller'[c] # "idle" => caller[c] # "idle",
           \A d \in Runs : run'[d].todo \subseteq run[d].todo
    PROVE  Heard
BY DEF Heard, QuietInv

LEMMA AllHeard ==
    ASSUME NoticesTypeOK, UnderwayInv, QuietInv, event.to # "staff", [NextNotifications]_noticeVars
    PROVE  Heard
<1>0. /\ run \in [Runs -> RunRec] /\ caller \in [Callers -> {"idle", "adding", "returned"}]
      /\ allowed \in [Users -> SUBSET Toggles] /\ off \in [Users -> SUBSET Toggles]
    BY DEF NoticesTypeOK
<1>1. ASSUME NEW u \in Users, NEW t \in Flips, ChangeSettings(u, t) PROVE Heard
  <2>1. event' = event /\ caller' = caller /\ run' = run
      BY <1>1 DEF ChangeSettings
  <2>2. CASE \A c \in Callers : caller[c] = "idle"
      BY <1>1, <2>1, <2>2 DEF ChangeSettings, Heard
  <2>3. CASE ~\A c \in Callers : caller[c] = "idle"
    <3>1. \A v \in Users : allowed'[v] = allowed[v] \cup (Toggles \ off'[v])
        BY <1>1, <2>3 DEF ChangeSettings, Heed
    <3>. QED BY <2>1, <3>1 DEF Heard
  <2>. QED BY <2>2, <2>3
<1>2. ASSUME NEW c \in Callers, Call(c) PROVE Heard
  <2>1. /\ event' = event /\ run' = run /\ off' = off
        /\ \A v \in Users : allowed'[v] = allowed[v] \cup (Toggles \ off'[v])
      BY <1>2 DEF Call, Heed
  <2>. QED BY <2>1 DEF Heard
<1>3. ASSUME NEW c \in Callers, Add(c) \/ Stall(c) \/ Remove(c) PROVE Heard
  <2>1. /\ event' = event /\ run' = run /\ off' = off /\ allowed' = allowed
        /\ \A e \in Callers : caller'[e] # "idle" => caller[e] # "idle"
    <3>1. CASE Add(c)
      <4>1. c \in parked => caller[c] # "idle"
          BY DEF UnderwayInv
      <4>. QED BY <1>0, <3>1, <4>1 DEF Add
    <3>2. CASE Stall(c) \/ Remove(c)
        BY <3>2 DEF Stall, Remove
    <3>. QED BY <1>3, <3>1, <3>2
  <2>. QED BY <2>1, KeptHeard
<1>4. ASSUME NEW c \in Callers, DispatchInline(c) \/ Take(c) PROVE Heard
  <2>1. PICK d \in Runs : run' = [run EXCEPT ![d].pc = "resolve"]
      BY <1>4, RunKinds DEF DispatchInline, Take
  <2>2. \A e \in Runs : run'[e].todo = run[e].todo
      BY <1>0, <2>1, Moved
  <2>3. /\ event' = event /\ off' = off /\ allowed' = allowed
        /\ \A e \in Callers : caller'[e] # "idle" => caller[e] # "idle"
      BY <1>0, <1>4 DEF DispatchInline, Take
  <2>. QED BY <2>2, <2>3, KeptHeard
<1>5. ASSUME NEW d \in Runs, ReadRecipients(d) PROVE Heard
  <2>1. /\ event' = event /\ off' = off /\ allowed' = allowed /\ caller' = caller
        /\ run[d].pc = "resolve"
      BY <1>5 DEF ReadRecipients
  <2> DEFINE todo == {<<u, Wanted(off[u])>> : u \in Recipients}
  <2>2. run'[d].todo = todo /\ \A e \in Runs : e # d => run'[e] = run[e]
    <3>. HIDE DEF todo
    <3>1. run' = [run EXCEPT ![d] = [@ EXCEPT !.pc = "next", !.todo = todo]]
        BY <1>5 DEF ReadRecipients, todo
    <3>. QED BY <1>0, <3>1 DEF RunRec
  <2>3. \E c \in Callers : caller[c] # "idle"
    <3>1. PICK c \in Callers : d = <<c, "job">> \/ d = <<c, "inline">>
        BY RunKinds
    <3>2. caller[c] = "returned"
        BY <2>1, <3>1 DEF UnderwayInv
    <3>. QED BY <3>2
  <2>4. \A u \in Users : Toggles \ off[u] \subseteq allowed[u]
      BY <2>3 DEF QuietInv
  <2>5. Recipients \subseteq Users
      BY DEF Recipients
  <2>. QED BY <2>1, <2>2, <2>4, <2>5 DEF Heard
<1>6. ASSUME NEW d \in Runs, ReadFails(d) \/ EndDispatch(d) PROVE Heard
  <2>1. run'[d].todo = {} /\ \A e \in Runs : e # d => run'[e] = run[e]
      BY <1>0, <1>6 DEF ReadFails, EndDispatch, Off
  <2>2. event' = event /\ off' = off /\ allowed' = allowed /\ caller' = caller
      BY <1>6 DEF ReadFails, EndDispatch
  <2>. QED BY <2>1, <2>2, KeptHeard
<1>7. ASSUME NEW d \in Runs, SendMail(d) \/ MailFails(d) \/ RecordMail(d) \/ RecordFails(d) PROVE Heard
  <2>1. \E p : run' = [run EXCEPT ![d].pc = p]
      BY <1>7 DEF SendMail, MailFails, RecordMail, RecordFails
  <2>2. \A e \in Runs : run'[e].todo = run[e].todo
      BY <1>0, <2>1, Moved
  <2>3. event' = event /\ off' = off /\ allowed' = allowed /\ caller' = caller
      BY <1>7 DEF SendMail, MailFails, RecordMail, RecordFails
  <2>. QED BY <2>2, <2>3, KeptHeard
<1>8. ASSUME NEW d \in Runs, NEW r \in run[d].todo, CreateRow(d, r) \/ CreateFails(d, r) PROVE Heard
  <2>1. \/ run' = [run EXCEPT ![d].todo = @ \ {r}]
        \/ \E x : run' = [run EXCEPT ![d] = x] /\ x.todo = run[d].todo \ {r}
      BY <1>0, <1>8 DEF CreateRow, CreateFails
  <2>2. \A e \in Runs : run'[e].todo \subseteq run[e].todo
      BY <1>0, <2>1, Struck, Placed
  <2>3. event' = event /\ off' = off /\ allowed' = allowed /\ caller' = caller
      BY <1>8 DEF CreateRow, CreateFails
  <2>. QED BY <2>2, <2>3, KeptHeard
<1>9. ASSUME NEW c \in Callers, NEW J \in SUBSET Callers, Crash(c, J) PROVE Heard
  <2>1. \A d \in Runs : run'[d] = run[d] \/ run'[d].todo = {}
      BY <1>9 DEF Crash, Off
  <2>2. /\ event' = event /\ off' = off /\ allowed' = allowed
        /\ \A e \in Callers : caller'[e] # "idle" => caller[e] # "idle"
      BY <1>0, <1>9 DEF Crash
  <2>. QED BY <2>1, <2>2, KeptHeard
<1>10. CASE UNCHANGED noticeVars
    BY <1>10, KeptHeard DEF noticeVars
<1>. QED BY <1>1, <1>2, <1>3, <1>4, <1>5, <1>6, <1>7, <1>8, <1>9, <1>10
         DEF NextNotifications, DispatchStep, Fault

LEMMA QuietStep ==
    ASSUME NoticesTypeOK, UnderwayInv, QuietInv, [NextNotifications]_noticeVars
    PROVE  QuietInv'
<1>0. /\ rows \in [Users -> Nat] /\ mailed \in [Users -> Nat] /\ pushed \in [Users -> Nat]
      /\ run \in [Runs -> RunRec]
    BY DEF NoticesTypeOK
<1>1. event' = event
    BY Effects, MailOut DEF Calm, Noted, Told
<1>. SUFFICES ASSUME event.to # "staff" PROVE QuietInv'
    BY <1>1 DEF QuietInv
<1>2. Heard
    BY AllHeard
<1>3. \A u \in Users : (MayMail(u) => MayMail(u)') /\ (MayPush(u) => MayPush(u)')
    BY <1>1, <1>2 DEF Heard, MayMail, MayPush, Muting
<1>4. ASSUME NEW d \in Runs, NEW r \in run'[d].todo
      PROVE  ("push" \in r[2] => MayPush(r[1])') /\ ("mail" \in r[2] => MayMail(r[1])')
  <2>1. CASE r \in run[d].todo
    <3>1. r[1] \in Users
        BY <1>0, <2>1 DEF RunRec
    <3>. QED BY <1>3, <2>1, <3>1 DEF QuietInv
  <2>2. CASE r \notin run[d].todo
    <3>1. PICK u \in Users : r = <<u, Wanted(off[u])>> /\ Toggles \ off[u] \subseteq allowed[u]
        BY <1>2, <2>2 DEF Heard
    <3>2. r[1] = u /\ r[2] = Wanted(off[u])
        BY <3>1
    <3>. QED BY <1>3, <3>1, <3>2, WantedIsHeeded
  <2>. QED BY <2>1, <2>2
<1>5. SentAsAllowed'
  <2>1. CASE Calm
    <3>1. \A d \in Runs : run'[d].pc = "mail" => run[d].pc = "mail" /\ run'[d].user = run[d].user
        BY <2>1 DEF Calm, Pending
    <3>2. pushed' = pushed /\ mailed' = mailed
        BY <2>1 DEF Calm
    <3>. QED BY <1>3, <3>1, <3>2 DEF QuietInv, SentAsAllowed
  <2>2. ASSUME NEW d \in Runs, Noted(d) PROVE SentAsAllowed'
      BY <1>3, <2>2 DEF Noted, QuietInv, SentAsAllowed
  <2>3. ASSUME NEW d \in Runs, SendMail(d) PROVE SentAsAllowed'
    <3>1. /\ pushed' = pushed /\ run[d].pc = "mail"
          /\ run'[d].pc = "sent" /\ run'[d].user = run[d].user
          /\ \A e \in Runs : e # d => run'[e] = run[e]
          /\ \A u \in Users :
               mailed'[u] = IF u = run[d].user THEN mailed[u] + 1 ELSE mailed[u]
        BY <2>3, MailOut
    <3>. QED BY <1>0, <1>3, <3>1 DEF QuietInv, SentAsAllowed
  <2>4. ASSUME NEW d \in Runs, NEW r \in run[d].todo, Told(d, r) PROVE SentAsAllowed'
    <3>1. r[1] \in Users /\ ("push" \in r[2] => MayPush(r[1])') /\ ("mail" \in r[2] => MayMail(r[1])')
      <4>1. r[1] \in Users
          BY <1>0 DEF RunRec
      <4>. QED BY <1>3, <4>1 DEF QuietInv
    <3>2. \A u \in Users : pushed'[u] = pushed[u] \/ (u = r[1] /\ "push" \in r[2])
        BY <1>0, <2>4 DEF Told
    <3>3. /\ mailed' = mailed /\ run'[d].user = r[1] /\ (run'[d].pc = "mail" => "mail" \in r[2])
          /\ \A e \in Runs : e # d => run'[e] = run[e]
        BY <2>4 DEF Told
    <3>. QED BY <1>3, <3>1, <3>2, <3>3 DEF QuietInv, SentAsAllowed
  <2>. QED BY <2>1, <2>2, <2>3, <2>4, Effects
<1>6. \A c \in Callers : caller'[c] # "idle" => \A u \in Users : Toggles \ off'[u] \subseteq allowed'[u]
    BY <1>2 DEF Heard
<1>. QED BY <1>4, <1>5, <1>6 DEF QuietInv

LEMMA NoticesStep == NoticesInv /\ [NextNotifications]_noticeVars => NoticesInv'
BY NoticesTypeStep, UnderwayStep, OnceStep, StatusStep, QuietStep DEF NoticesInv

\* The inductive invariant holds in every state that calls, jobs and crashes can reach.
THEOREM NoticesInductive == SpecNotifications => []NoticesInv
BY NoticesStart, NoticesStep, PTL DEF SpecNotifications

\* notify() and the dispatcher keep every variable within its type.
THEOREM NoticesTyped == SpecNotifications => []NoticesTypeOK
BY NoticesInductive, PTL DEF NoticesInv

\* Nobody is told twice, and nobody of what was muted, for any number of calls, jobs,
\* retries, late adds and crashes.
THEOREM NoNoiseHolds == SpecNotifications => []NoNoise
<1>1. NoticesInv => NoNoise
  <2>. SUFFICES ASSUME NoticesInv PROVE NoNoise
      OBVIOUS
  <2>1. rows \in [Users -> Nat] /\ pushed \in [Users -> Nat] /\ mailed \in [Users -> Nat]
      BY DEF NoticesInv, NoticesTypeOK
  <2>2. ToldOnce
      BY <2>1 DEF NoticesInv, OnceInv, ToldOnce
  <2>3. MutedStaysQuiet
      BY DEF NoticesInv, QuietInv, SentAsAllowed, MutedStaysQuiet, MayPush, MayMail, Muting
  <2>. QED BY <2>2, <2>3 DEF NoNoise
<1>. QED BY NoticesInductive, <1>1, PTL

\* Once nothing is under way, the row of a keyed event tells the truth about its mail.
THEOREM StatusHolds == SpecNotifications => []StatusIsTrue
<1>1. NoticesInv => StatusIsTrue
  <2>. SUFFICES ASSUME NoticesInv, event.keyed, \A d \in Runs : run[d].pc = "off", NEW u \in Users
                PROVE  /\ status[u] = "sent" => mailed[u] = 1
                       /\ status[u] = "skipped" /\ u \notin unrecorded => mailed[u] = 0
      BY DEF StatusIsTrue
  <2>1. \A d \in Runs : ~MailIn(d, u)
      BY DEF MailIn, Pending
  <2>2. mailed[u] \in Nat
      BY DEF NoticesInv, NoticesTypeOK
  <2>. QED BY <2>1, <2>2 DEF NoticesInv, StatusInv
<1>. QED BY NoticesInductive, <1>1, PTL

-----------------------------------------------------------------------------
(* Tokens.  LinkInv follows a link from its submission to its row, ViewInv *)
(* says that a sum is that of the rows it was taken of, and BadgeInv that  *)
(* a badge, or a copy of it that a request holds, has been told.           *)

Entry(pc, p, sum, seen, tot, rank) ==
    [pc |-> pc, p |-> p, sum |-> sum, seen |-> seen, total |-> tot, badge |-> rank]
EntriesOf(V) == [pc : ReqPc, p : AllParts, sum : Nat, seen : V, total : Nat, badge : RankCount]
Shift(pc, R, todo, who, sum, seen) ==
    [pc |-> pc, rows |-> R, todo |-> todo, who |-> who, sum |-> sum, seen |-> seen]
ShiftsOf(V, D) == [pc : {"idle", "mark", "users", "save"}, rows : SUBSET D, todo : SUBSET Creators,
                   who : Creators, sum : Nat, seen : V]

LEMMA AnyPartIn == AnyPart \in AllParts /\ AnyPart[1] \in Campaigns /\ AnyPart[2] \in Creators
<1>1. PICK k \in Campaigns, u \in Creators : TRUE
    BY TokenBounds
<1>2. <<k, u>> \in AllParts
    BY DEF AllParts
<1>3. AnyPart \in AllParts
    BY <1>2 DEF AnyPart
<1>. QED BY <1>3 DEF AllParts

\* The badges are counted.
LEMMA Badges ==
    /\ 0 \in RankCount /\ RankCount \subseteq Nat
    /\ \A n : BadgeOf(n) \in RankCount
<1>1. IsFiniteSet(Ranks) /\ Cardinality(Ranks) \in Nat
    BY TokenBounds, FS_CardinalityType
<1>2. ASSUME NEW n PROVE BadgeOf(n) \in RankCount
  <2> DEFINE S == {r \in Ranks : r <= n}
  <2>1. S \subseteq Ranks
      OBVIOUS
  <2>2. IsFiniteSet(S) /\ Cardinality(S) <= Cardinality(Ranks) /\ Cardinality(S) \in Nat
    <3>. HIDE DEF S
    <3>. QED BY <1>1, <2>1, FS_Subset, FS_CardinalityType
  <2>. QED BY <1>1, <2>2 DEF BadgeOf, RankCount
<1>. QED BY <1>1, <1>2 DEF RankCount

LEMMA EmptyView == <<>> \in Views /\ DOMAIN <<>> = {}
<1>1. <<>> \in [{} -> BOOLEAN]
    OBVIOUS
<1>. QED BY <1>1 DEF Views

LEMMA SeenView == TypeOK => \A u : Seen(u) \in Views /\ DOMAIN Seen(u) = RowsOf(u)
<1>. SUFFICES ASSUME TypeOK, NEW u PROVE Seen(u) \in Views /\ DOMAIN Seen(u) = RowsOf(u)
    OBVIOUS
<1>1. RowsOf(u) \in SUBSET DOMAIN grant
    BY DEF RowsOf
<1>2. \A g \in RowsOf(u) : grant[g].live \in BOOLEAN
  <2>1. \A g \in DOMAIN grant : grant[g] \in GrantRec
      BY ElementOfSeq, LenProperties DEF TypeOK
  <2>. QED BY <1>1, <2>1 DEF GrantRec
<1>3. Seen(u) \in [RowsOf(u) -> BOOLEAN]
    BY <1>2 DEF Seen
<1>. QED BY <1>1, <1>3 DEF Views

\* The request q goes on with the record x, and no other moves.
Sets(q, x) ==
    /\ req' = [r \in Requests |-> req'[r]]
    /\ req'[q] = x /\ \A r \in Requests : r # q => req'[r] = req[r]

\* A record that starts anew.
LEMMA IdleEntry ==
    /\ Idle = Entry("idle", AnyPart, 0, <<>>, 0, 0)
    /\ \A pc, p : [Idle EXCEPT !.pc = pc, !.p = p] = Entry(pc, p, 0, <<>>, 0, 0)
<1>1. \A a, c, d, e, f, g, pc : [Entry(a, c, d, e, f, g) EXCEPT !.pc = pc] = Entry(pc, c, d, e, f, g)
    BY DEF Entry
<1>2. \A a, c, d, e, f, g, p : [Entry(a, c, d, e, f, g) EXCEPT !.p = p] = Entry(a, p, d, e, f, g)
    BY DEF Entry
<1>3. Idle = Entry("idle", AnyPart, 0, <<>>, 0, 0)
    BY DEF Idle, Entry
<1>4. ASSUME NEW pc, NEW p PROVE [Idle EXCEPT !.pc = pc, !.p = p] = Entry(pc, p, 0, <<>>, 0, 0)
  <2>1. [Idle EXCEPT !.pc = pc, !.p = p] = [[Idle EXCEPT !.pc = pc] EXCEPT !.p = p]
      OBVIOUS
  <2>2. [Idle EXCEPT !.pc = pc] = Entry(pc, AnyPart, 0, <<>>, 0, 0)
      BY <1>1, <1>3
  <2>3. [Entry(pc, AnyPart, 0, <<>>, 0, 0) EXCEPT !.p = p] = Entry(pc, p, 0, <<>>, 0, 0)
      BY <1>2
  <2>. QED BY <2>1, <2>2, <2>3
<1>. QED BY <1>3, <1>4

\* The record each action leaves its request with.
LEMMA ReqEffects ==
    ASSUME NEW V, req \in [Requests -> EntriesOf(V)], NEW q \in Requests
    PROVE  /\ \A pc : Go(q, pc) => Sets(q, Entry(pc, req[q].p, req[q].sum, req[q].seen,
                                                 req[q].total, req[q].badge))
           /\ \A p, pc : Begin(q, p, pc) => Sets(q, Entry(pc, p, 0, <<>>, 0, 0))
           /\ Finish(q) => Sets(q, Entry("idle", AnyPart, 0, <<>>, 0, 0))
           /\ SumUp(q) => Sets(q, Entry("user", req[q].p, Sum(Who(q)), Seen(Who(q)),
                                        req[q].total, req[q].badge))
           /\ SumOwner(q) => Sets(q, Entry("ownsave", req[q].p, Sum(Who(q)), Seen(Who(q)),
                                           req[q].total, req[q].badge))
           /\ ReadUser(q) => Sets(q, Entry("save", req[q].p, req[q].sum, req[q].seen,
                                           req[q].total, badge[Who(q)]))
           /\ Vouch(q) => Sets(q, Entry("award", req[q].p, req[q].sum, req[q].seen,
                                        total[Who(q)], badge[Who(q)]))
<1>0. req \in [Requests -> [pc : ReqPc, p : AllParts, sum : Nat, seen : V, total : Nat,
                            badge : RankCount]]
    BY DEF EntriesOf
<1>1. ASSUME NEW pc, Go(q, pc)
      PROVE  Sets(q, Entry(pc, req[q].p, req[q].sum, req[q].seen, req[q].total, req[q].badge))
    BY <1>0, <1>1 DEF Go, Sets, Entry
<1>2. ASSUME NEW p, NEW pc, Begin(q, p, pc) PROVE Sets(q, Entry(pc, p, 0, <<>>, 0, 0))
  <2>1. req' = [req EXCEPT ![q] = Entry(pc, p, 0, <<>>, 0, 0)]
      BY <1>2, IdleEntry DEF Begin
  <2>. QED BY <1>0, <2>1 DEF Sets
<1>3. ASSUME Finish(q) PROVE Sets(q, Entry("idle", AnyPart, 0, <<>>, 0, 0))
  <2>1. req' = [req EXCEPT ![q] = Entry("idle", AnyPart, 0, <<>>, 0, 0)]
      BY <1>3, IdleEntry DEF Finish
  <2>. QED BY <1>0, <2>1 DEF Sets
<1>4. ASSUME NEW pc, NEW s, NEW v,
             req' = [req EXCEPT ![q].pc = pc, ![q].sum = s, ![q].seen = v]
      PROVE  Sets(q, Entry(pc, req[q].p, s, v, req[q].total, req[q].badge))
    BY <1>0, <1>4 DEF Sets, Entry
<1>5. ASSUME ReadUser(q)
      PROVE  Sets(q, Entry("save", req[q].p, req[q].sum, req[q].seen, req[q].total, badge[Who(q)]))
  <2>1. req' = [req EXCEPT ![q].pc = "save", ![q].badge = badge[Who(q)]]
      BY <1>5 DEF ReadUser
  <2>. QED BY <1>0, <2>1 DEF Sets, Entry
<1>6. ASSUME Vouch(q)
      PROVE  Sets(q, Entry("award", req[q].p, req[q].sum, req[q].seen, total[Who(q)], badge[Who(q)]))
  <2>1. req' = [req EXCEPT ![q].pc = "award", ![q].total = total[Who(q)],
                           ![q].badge = badge[Who(q)]]
      BY <1>6 DEF Vouch
  <2>. QED BY <1>0, <2>1 DEF Sets, Entry
<1>7. ASSUME SumUp(q)
      PROVE  Sets(q, Entry("user", req[q].p, Sum(Who(q)), Seen(Who(q)), req[q].total, req[q].badge))
    BY <1>4, <1>7 DEF SumUp
<1>8. ASSUME SumOwner(q)
      PROVE  Sets(q, Entry("ownsave", req[q].p, Sum(Who(q)), Seen(Who(q)), req[q].total, req[q].badge))
    BY <1>4, <1>8 DEF SumOwner
<1>. QED BY <1>1, <1>2, <1>3, <1>5, <1>6, <1>7, <1>8

\* The ledger only grows, and a row keeps what it was written with.
LEMMA Appended ==
    ASSUME TypeOK, NEW q \in Requests, NEW by \in {"link", "admin"}, NewRow(q, by)
    PROVE  \E row \in GrantRec :
             /\ row.camp = req[q].p[1] /\ row.who = Who(q) /\ row.by = by
             /\ grant' \in Seq(GrantRec) /\ Len(grant) \in Nat
             /\ DOMAIN grant = 1 .. Len(grant) /\ DOMAIN grant' = 1 .. (Len(grant) + 1)
             /\ \A g \in DOMAIN grant : grant'[g] = grant[g]
             /\ grant'[Len(grant) + 1] = row
<1>1. PICK tokens \in Rewards :
        grant' = Append(grant, [camp |-> req[q].p[1], who |-> Who(q), by |-> by,
                                tokens |-> tokens, live |-> TRUE])
    BY DEF NewRow
<1> DEFINE row == [camp |-> req[q].p[1], who |-> Who(q), by |-> by,
                   tokens |-> tokens, live |-> TRUE]
<1>2. req[q].p \in AllParts
    BY DEF TypeOK
<1>3. req[q].p[1] \in Campaigns /\ req[q].p[2] \in Creators
    BY <1>2 DEF AllParts
<1>4. row \in GrantRec
    BY <1>3 DEF GrantRec, Who
<1>5. grant \in Seq(GrantRec)
    BY DEF TypeOK
<1>6. row.camp = req[q].p[1] /\ row.who = Who(q) /\ row.by = by
    OBVIOUS
<1>7. grant' = Append(grant, row)
    BY <1>1
<1>. HIDE DEF row
<1>8. /\ grant' \in Seq(GrantRec) /\ Len(grant) \in Nat /\ Len(grant') = Len(grant) + 1
      /\ DOMAIN grant = 1 .. Len(grant) /\ DOMAIN grant' = 1 .. Len(grant')
      /\ \A g \in 1 .. Len(grant) : grant'[g] = grant[g]
      /\ grant'[Len(grant) + 1] = row
    BY <1>4, <1>5, <1>7, AppendProperties, LenProperties
<1>. QED BY <1>4, <1>6, <1>8

\* The cron e goes on with the record x, and no other moves.
Shifts(e, x) ==
    /\ expirer' = [f \in Expirers |-> expirer'[f]]
    /\ expirer'[e] = x /\ \A f \in Expirers : f # e => expirer'[f] = expirer[f]

LEMMA CronEffects ==
    ASSUME NEW V, NEW D, expirer \in [Expirers -> ShiftsOf(V, D)], NEW e \in Expirers
    PROVE  /\ ListExpired(e) => Shifts(e, Shift("mark", {g \in due : grant[g].live}, {}, AnyPart[2], 0, <<>>))
           /\ Mark(e) => Shifts(e, Shift("users", expirer[e].rows, Affected(e), expirer[e].who,
                                         expirer[e].sum, expirer[e].seen))
           /\ \A u : SumExpired(e, u) => Shifts(e, Shift("save", expirer[e].rows, expirer[e].todo, u,
                                                         Sum(u), Seen(u)))
           /\ SaveExpired(e) => \E todo : /\ todo = expirer[e].todo \ {expirer[e].who}
                /\ \/ todo = {} /\ Shifts(e, Shift("idle", {}, {}, AnyPart[2], 0, <<>>))
                   \/ todo # {} /\ Shifts(e, Shift("users", expirer[e].rows, todo, expirer[e].who,
                                                   expirer[e].sum, expirer[e].seen))
<1>0. expirer \in [Expirers -> [pc : {"idle", "mark", "users", "save"}, rows : SUBSET D,
                                todo : SUBSET Creators, who : Creators, sum : Nat, seen : V]]
    BY DEF ShiftsOf
<1>1. IdleExpirer = Shift("idle", {}, {}, AnyPart[2], 0, <<>>)
    BY DEF IdleExpirer, Shift
<1>2. \A a, b, c, d, f, g, x :
        /\ [Shift(a, b, c, d, f, g) EXCEPT !.pc = x] = Shift(x, b, c, d, f, g)
        /\ [Shift(a, b, c, d, f, g) EXCEPT !.rows = x] = Shift(a, x, c, d, f, g)
    BY DEF Shift
<1>3. ASSUME ListExpired(e)
      PROVE  Shifts(e, Shift("mark", {g \in due : grant[g].live}, {}, AnyPart[2], 0, <<>>))
  <2> DEFINE R == {g \in due : grant[g].live}
  <2>1. expirer' = [expirer EXCEPT ![e] = [IdleExpirer EXCEPT !.pc = "mark", !.rows = R]]
      BY <1>3 DEF ListExpired
  <2>. HIDE DEF R
  <2>2. [IdleExpirer EXCEPT !.pc = "mark", !.rows = R] =
          [[IdleExpirer EXCEPT !.pc = "mark"] EXCEPT !.rows = R]
      OBVIOUS
  <2>3. [IdleExpirer EXCEPT !.pc = "mark"] = Shift("mark", {}, {}, AnyPart[2], 0, <<>>)
      BY <1>1, <1>2
  <2>4. [Shift("mark", {}, {}, AnyPart[2], 0, <<>>) EXCEPT !.rows = R] =
          Shift("mark", R, {}, AnyPart[2], 0, <<>>)
      BY <1>2
  <2>5. expirer' = [expirer EXCEPT ![e] = Shift("mark", R, {}, AnyPart[2], 0, <<>>)]
      BY <2>1, <2>2, <2>3, <2>4
  <2>6. Shifts(e, Shift("mark", R, {}, AnyPart[2], 0, <<>>))
      BY <1>0, <2>5 DEF Shifts
  <2>. QED BY <2>6 DEF R
<1>4. ASSUME Mark(e)
      PROVE  Shifts(e, Shift("users", expirer[e].rows, Affected(e), expirer[e].who,
                             expirer[e].sum, expirer[e].seen))
  <2>1. expirer' = [expirer EXCEPT ![e].pc = "users", ![e].todo = Affected(e)]
      BY <1>4 DEF Mark
  <2>. QED BY <1>0, <2>1 DEF Shifts, Shift
<1>5. ASSUME NEW u, SumExpired(e, u)
      PROVE  Shifts(e, Shift("save", expirer[e].rows, expirer[e].todo, u, Sum(u), Seen(u)))
  <2>1. expirer' = [expirer EXCEPT ![e].pc = "save", ![e].who = u, ![e].sum = Sum(u),
                                   ![e].seen = Seen(u)]
      BY <1>5 DEF SumExpired
  <2>. QED BY <1>0, <2>1 DEF Shifts, Shift
<1>6. ASSUME SaveExpired(e)
      PROVE  \E todo : /\ todo = expirer[e].todo \ {expirer[e].who}
                /\ \/ todo = {} /\ Shifts(e, Shift("idle", {}, {}, AnyPart[2], 0, <<>>))
                   \/ todo # {} /\ Shifts(e, Shift("users", expirer[e].rows, todo, expirer[e].who,
                                                   expirer[e].sum, expirer[e].seen))
  <2>1. PICK todo : todo = expirer[e].todo \ {expirer[e].who}
      OBVIOUS
  <2>2. expirer' = [expirer EXCEPT ![e] = IF todo = {} THEN IdleExpirer
                                          ELSE [@ EXCEPT !.pc = "users", !.todo = todo]]
      BY <1>6, <2>1 DEF SaveExpired
  <2>3. CASE todo = {}
    <3>1. expirer' = [expirer EXCEPT ![e] = Shift("idle", {}, {}, AnyPart[2], 0, <<>>)]
        BY <1>1, <2>2, <2>3
    <3>2. Shifts(e, Shift("idle", {}, {}, AnyPart[2], 0, <<>>))
        BY <1>0, <3>1 DEF Shifts
    <3>. QED BY <2>1, <2>3, <3>2
  <2>4. CASE todo # {}
    <3>1. expirer' = [expirer EXCEPT ![e] = [expirer[e] EXCEPT !.pc = "users", !.todo = todo]]
        BY <2>2, <2>4
    <3>2. Shifts(e, Shift("users", expirer[e].rows, todo, expirer[e].who,
                          expirer[e].sum, expirer[e].seen))
        BY <1>0, <3>1 DEF Shifts, Shift
    <3>. QED BY <2>1, <2>4, <3>2
  <2>. QED BY <2>3, <2>4
<1>. QED BY <1>3, <1>4, <1>5, <1>6

\* What every step does to the ledger: it keeps it, adds a row of a request, or marks rows.
Booked(q, by, pc) ==
    /\ \E row \in GrantRec :
         /\ row.camp = req[q].p[1] /\ row.who = Who(q) /\ row.by = by
         /\ grant' \in Seq(GrantRec) /\ Len(grant) \in Nat
         /\ DOMAIN grant = 1 .. Len(grant) /\ DOMAIN grant' = 1 .. (Len(grant) + 1)
         /\ \A g \in DOMAIN grant : grant'[g] = grant[g]
         /\ grant'[Len(grant) + 1] = row
    /\ Sets(q, Entry(pc, req[q].p, req[q].sum, req[q].seen, req[q].total, req[q].badge))

LEMMA LedgerSteps ==
    ASSUME TypeOK, [NextTokens]_tokenVars
    PROVE  \/ grant' = grant
           \/ \E q \in Requests : Grant(q) /\ Booked(q, "link", "sum")
           \/ \E q \in Requests : Award(q) /\ Booked(q, "admin", "ownsum")
           \/ \E e \in Expirers : Mark(e)
<1>0. req \in [Requests -> EntriesOf(Views)]
    BY DEF TypeOK, EntriesOf
<1>1. ASSUME NEW q \in Requests, Requested(q) \/ GoOn(q)
      PROVE  grant' = grant \/ Grant(q) \/ Award(q)
    BY <1>1 DEF Requested, GoOn, LookUp, Accept, Submit, SumUp, ReadUser, SaveTotal, Tell, Vouch,
                SumOwner, SaveOwner, ledger
<1>2. ASSUME NEW q \in Requests, Grant(q) PROVE Booked(q, "link", "sum")
    BY <1>0, <1>2, Appended, ReqEffects DEF Grant, Booked
<1>3. ASSUME NEW q \in Requests, Award(q) PROVE Booked(q, "admin", "ownsum")
    BY <1>0, <1>3, Appended, ReqEffects DEF Award, Booked
<1>4. ASSUME NEW e \in Expirers, ExpirerStep(e) PROVE grant' = grant \/ Mark(e)
    BY <1>4 DEF ExpirerStep, ListExpired, SumExpired, SaveExpired, ledger
<1>5. ASSUME \/ \E p \in AllParts : Participate(p) \/ Reject(p)
             \/ \E k \in Campaigns : TogglePause(k)
             \/ \E g \in DOMAIN grant : RowExpires(g)
             \/ CrashTokens \/ UNCHANGED tokenVars
      PROVE  grant' = grant
    BY <1>5 DEF Participate, Reject, TogglePause, RowExpires, CrashTokens, tokenVars, ledger
<1>. QED BY <1>1, <1>2, <1>3, <1>4, <1>5 DEF NextTokens

LEMMA LedgerGrows ==
    ASSUME TypeOK, [NextTokens]_tokenVars
    PROVE  /\ grant' \in Seq(GrantRec) /\ DOMAIN grant \subseteq DOMAIN grant'
           /\ \A g \in DOMAIN grant :
                /\ grant'[g].camp = grant[g].camp /\ grant'[g].who = grant[g].who
                /\ grant'[g].by = grant[g].by /\ grant'[g].tokens = grant[g].tokens
<1>1. grant \in Seq(GrantRec) /\ \A g \in DOMAIN grant : grant[g] \in GrantRec
    BY ElementOfSeq, LenProperties DEF TypeOK
<1>2. CASE grant' = grant
    BY <1>1, <1>2
<1>3. ASSUME NEW q \in Requests, NEW by, NEW pc, Booked(q, by, pc)
      PROVE  /\ grant' \in Seq(GrantRec) /\ DOMAIN grant \subseteq DOMAIN grant'
             /\ \A g \in DOMAIN grant : grant'[g] = grant[g]
    BY <1>3 DEF Booked
<1>4. ASSUME NEW e \in Expirers, Mark(e)
      PROVE  /\ grant' \in Seq(GrantRec) /\ DOMAIN grant' = DOMAIN grant
             /\ \A g \in DOMAIN grant :
                  /\ grant'[g].camp = grant[g].camp /\ grant'[g].who = grant[g].who
                  /\ grant'[g].by = grant[g].by /\ grant'[g].tokens = grant[g].tokens
  <2>1. /\ DOMAIN grant' = DOMAIN grant /\ grant' = [g \in DOMAIN grant |-> grant'[g]]
        /\ \A g \in DOMAIN grant :
            grant'[g] = IF g \in expirer[e].rows THEN [grant[g] EXCEPT !.live = FALSE] ELSE grant[g]
      BY <1>4 DEF Mark
  <2>2. \A x \in GrantRec : LET y == [x EXCEPT !.live = FALSE]
                            IN  /\ y \in GrantRec /\ y.camp = x.camp /\ y.who = x.who
                                /\ y.by = x.by /\ y.tokens = x.tokens
      BY DEF GrantRec
  <2>3. \A g \in DOMAIN grant :
          /\ grant'[g] \in GrantRec
          /\ grant'[g].camp = grant[g].camp /\ grant'[g].who = grant[g].who
          /\ grant'[g].by = grant[g].by /\ grant'[g].tokens = grant[g].tokens
      BY <1>1, <2>1, <2>2
  <2>4. Len(grant) \in Nat /\ DOMAIN grant = 1 .. Len(grant)
      BY <1>1, LenProperties
  <2>5. grant' \in Seq(GrantRec)
      BY <2>1, <2>3, <2>4
  <2>. QED BY <2>1, <2>3, <2>5
<1>. QED BY <1>2, <1>3, <1>4, LedgerSteps

LEMMA TokensTypeStart == InitTokens => TypeOK
<1>. SUFFICES ASSUME InitTokens PROVE TypeOK
    OBVIOUS
<1>1. Idle \in EntriesOf(Views)
    BY AnyPartIn, Badges, EmptyView DEF Idle, EntriesOf, ReqPc
<1>2. IdleExpirer \in ShiftsOf(Views, DOMAIN grant)
    BY AnyPartIn, EmptyView DEF IdleExpirer, ShiftsOf
<1>3. req \in [Requests -> EntriesOf(Views)] /\ expirer \in [Expirers -> ShiftsOf(Views, DOMAIN grant)]
    BY <1>1, <1>2 DEF InitTokens
<1>4. grant \in Seq(GrantRec)
    BY EmptySeq DEF InitTokens
<1>5. /\ shut \subseteq Campaigns /\ parts \subseteq AllParts /\ link \in [AllParts -> LinkStatus]
      /\ due \subseteq DOMAIN grant /\ total \in [Creators -> Nat]
      /\ badge \in [Creators -> RankCount] /\ badgeTold \in [Creators -> SUBSET RankCount]
      /\ doubled \subseteq AllParts /\ spoilt \subseteq Creators /\ silent \subseteq Creators
      /\ killed \in Nat
    BY Badges DEF InitTokens, LinkStatus
<1>. QED BY <1>3, <1>4, <1>5 DEF TypeOK, EntriesOf, ShiftsOf

\* A total is the sum of the tokens of its rows.
LEMMA Amounts ==
    ASSUME TypeOK, NEW S, S \subseteq DOMAIN grant
    PROVE  Total(S) \in Nat /\ Total(S) = SumOf([g \in DOMAIN grant |-> grant[g].tokens], S)
           /\ IsFiniteSet(S) /\ \A g \in S : grant[g].tokens \in Nat
<1>1. grant \in Seq(GrantRec)
    BY DEF TypeOK
<1>2. Len(grant) \in Nat /\ DOMAIN grant = 1 .. Len(grant)
    BY <1>1, LenProperties
<1>3. \A g \in DOMAIN grant : grant[g].tokens \in Nat
  <2>1. \A g \in DOMAIN grant : grant[g] \in GrantRec
      BY <1>1, <1>2, ElementOfSeq
  <2>. QED BY <2>1, TokenBounds DEF GrantRec
<1>4. IsFiniteSet(S)
  <2>1. IsFiniteSet(1 .. Len(grant))
      BY <1>2, FS_Interval
  <2>. QED BY <1>2, <2>1, FS_Subset
<1> DEFINE f == [g \in DOMAIN grant |-> grant[g].tokens]
<1>5. \A g \in S : f[g] \in Nat
    BY <1>3
<1>6. Total(S) = SumOf(f, S)
    BY DEF Total, SumOf
<1>. HIDE DEF f
<1>7. SumOf(f, S) \in Nat
    BY <1>4, <1>5, SumType
<1>. QED BY <1>3, <1>4, <1>6, <1>7 DEF f

LEMMA SumIsNat == TypeOK => \A u : Sum(u) \in Nat
<1>. SUFFICES ASSUME TypeOK, NEW u PROVE Sum(u) \in Nat
    OBVIOUS
<1>1. {g \in RowsOf(u) : grant[g].live} \subseteq DOMAIN grant
    BY DEF RowsOf
<1>. QED BY <1>1, Amounts DEF Sum

\* The history of the ledger keeps what is in it.
LEMMA ViewsGrow ==
    ASSUME TypeOK, [NextTokens]_tokenVars
    PROVE  Views \subseteq Views' /\ DOMAIN grant \subseteq DOMAIN grant'
BY LedgerGrows DEF Views

LEMMA ReqTypeStep ==
    ASSUME TypeOK, [NextTokens]_tokenVars
    PROVE  req' \in [Requests -> EntriesOf(Views')]
<1>0. req \in [Requests -> EntriesOf(Views)]
    BY DEF TypeOK, EntriesOf
<1>1. Views \subseteq Views' /\ <<>> \in Views
    BY ViewsGrow, EmptyView
<1>2. ASSUME req' = req PROVE req' \in [Requests -> EntriesOf(Views')]
    BY <1>0, <1>1, <1>2 DEF EntriesOf
<1>3. ASSUME NEW q \in Requests, NEW pc \in ReqPc, NEW p \in AllParts, NEW s \in Nat, NEW v \in Views,
             NEW t \in Nat, NEW b \in RankCount, Sets(q, Entry(pc, p, s, v, t, b))
      PROVE  req' \in [Requests -> EntriesOf(Views')]
  <2>1. Entry(pc, p, s, v, t, b) \in EntriesOf(Views')
      BY <1>1 DEF Entry, EntriesOf
  <2>2. \A r \in Requests : req[r] \in EntriesOf(Views')
      BY <1>0, <1>1 DEF EntriesOf
  <2>3. \A r \in Requests : req'[r] \in EntriesOf(Views')
      BY <1>3, <2>1, <2>2 DEF Sets
  <2>. QED BY <1>3, <2>3 DEF Sets
<1>4. AnyPart \in AllParts /\ 0 \in RankCount
    BY AnyPartIn, Badges
<1>5. ASSUME NEW q \in Requests, Requested(q) \/ GoOn(q) PROVE req' \in [Requests -> EntriesOf(Views')]
  <2>1. /\ req[q].p \in AllParts /\ req[q].sum \in Nat /\ req[q].seen \in Views
        /\ req[q].total \in Nat /\ req[q].badge \in RankCount
      BY <1>0 DEF EntriesOf
  <2>2. Who(q) \in Creators
      BY <2>1 DEF Who, AllParts
  <2>3. total[Who(q)] \in Nat /\ badge[Who(q)] \in RankCount
      BY <2>2 DEF TypeOK
  <2>4. Sum(Who(q)) \in Nat /\ Seen(Who(q)) \in Views
      BY SumIsNat, SeenView
  <2>5. \/ \E pc \in ReqPc : Go(q, pc)
        \/ \E p \in AllParts, pc \in ReqPc : Begin(q, p, pc)
        \/ Finish(q) \/ SumUp(q) \/ SumOwner(q) \/ ReadUser(q) \/ Vouch(q)
      BY <1>5 DEF Requested, GoOn, LookUp, Accept, Submit, Grant, SaveTotal, Tell, Award, SaveOwner,
                  ReqPc
  <2>6. /\ "idle" \in ReqPc /\ "user" \in ReqPc /\ "ownsave" \in ReqPc /\ "save" \in ReqPc
        /\ "award" \in ReqPc
      BY DEF ReqPc
  <2>7. ASSUME NEW pc \in ReqPc, Go(q, pc) PROVE req' \in [Requests -> EntriesOf(Views')]
    <3>1. Sets(q, Entry(pc, req[q].p, req[q].sum, req[q].seen, req[q].total, req[q].badge))
        BY <1>0, <2>7, ReqEffects
    <3>. QED BY <1>3, <2>1, <3>1
  <2>8. ASSUME NEW p \in AllParts, NEW pc \in ReqPc, Begin(q, p, pc)
        PROVE  req' \in [Requests -> EntriesOf(Views')]
    <3>1. Sets(q, Entry(pc, p, 0, <<>>, 0, 0))
        BY <1>0, <2>8, ReqEffects
    <3>. QED BY <1>1, <1>3, <1>4, <3>1
  <2>9. CASE Finish(q)
    <3>1. Sets(q, Entry("idle", AnyPart, 0, <<>>, 0, 0))
        BY <1>0, <2>9, ReqEffects
    <3>. QED BY <1>1, <1>3, <1>4, <2>6, <3>1
  <2>10. CASE SumUp(q)
    <3>1. Sets(q, Entry("user", req[q].p, Sum(Who(q)), Seen(Who(q)), req[q].total, req[q].badge))
        BY <1>0, <2>10, ReqEffects
    <3>. QED BY <1>3, <2>1, <2>4, <2>6, <3>1
  <2>11. CASE SumOwner(q)
    <3>1. Sets(q, Entry("ownsave", req[q].p, Sum(Who(q)), Seen(Who(q)), req[q].total, req[q].badge))
        BY <1>0, <2>11, ReqEffects
    <3>. QED BY <1>3, <2>1, <2>4, <2>6, <3>1
  <2>12. CASE ReadUser(q)
    <3>1. Sets(q, Entry("save", req[q].p, req[q].sum, req[q].seen, req[q].total, badge[Who(q)]))
        BY <1>0, <2>12, ReqEffects
    <3>. QED BY <1>3, <2>1, <2>3, <2>6, <3>1
  <2>13. CASE Vouch(q)
    <3>1. Sets(q, Entry("award", req[q].p, req[q].sum, req[q].seen, total[Who(q)], badge[Who(q)]))
        BY <1>0, <2>13, ReqEffects
    <3>. QED BY <1>3, <2>1, <2>3, <2>6, <3>1
  <2>. QED BY <2>5, <2>7, <2>8, <2>9, <2>10, <2>11, <2>12, <2>13
<1>6. ASSUME \/ \E e \in Expirers : ExpirerStep(e)
             \/ \E p \in AllParts : Participate(p) \/ Reject(p)
             \/ \E k \in Campaigns : TogglePause(k)
             \/ \E g \in DOMAIN grant : RowExpires(g)
             \/ UNCHANGED tokenVars
      PROVE  req' = req
    BY <1>6 DEF ExpirerStep, ListExpired, Mark, SumExpired, SaveExpired, Participate, Reject,
                TogglePause, RowExpires, expirerOnly, tokenVars
<1>7. ASSUME CrashTokens PROVE req' \in [Requests -> EntriesOf(Views')]
  <2>1. req' = req \/ \E q \in Requests : Finish(q)
      BY <1>7 DEF CrashTokens
  <2>2. ASSUME NEW q \in Requests, Finish(q) PROVE req' \in [Requests -> EntriesOf(Views')]
    <3>1. Sets(q, Entry("idle", AnyPart, 0, <<>>, 0, 0))
        BY <1>0, <2>2, ReqEffects
    <3>. QED BY <1>1, <1>3, <1>4, <3>1 DEF ReqPc
  <2>. QED BY <1>2, <2>1, <2>2
<1>. QED BY <1>2, <1>5, <1>6, <1>7 DEF NextTokens

LEMMA CronTypeStep ==
    ASSUME TypeOK, [NextTokens]_tokenVars
    PROVE  expirer' \in [Expirers -> ShiftsOf(Views', DOMAIN grant')]
<1> DEFINE X == ShiftsOf(Views', DOMAIN grant')
<1>0. expirer \in [Expirers -> ShiftsOf(Views, DOMAIN grant)]
    BY DEF TypeOK, ShiftsOf
<1>1. Views \subseteq Views' /\ <<>> \in Views /\ DOMAIN grant \subseteq DOMAIN grant'
    BY ViewsGrow, EmptyView
<1>2. \A e \in Expirers : expirer[e] \in X
    BY <1>0, <1>1 DEF ShiftsOf
<1>3. ASSUME expirer' = expirer PROVE expirer' \in [Expirers -> X]
    BY <1>0, <1>2, <1>3
<1>4. ASSUME NEW e \in Expirers, NEW pc \in {"idle", "mark", "users", "save"},
             NEW R, R \subseteq DOMAIN grant, NEW todo, todo \subseteq Creators, NEW u \in Creators,
             NEW s \in Nat, NEW v \in Views, Shifts(e, Shift(pc, R, todo, u, s, v))
      PROVE  expirer' \in [Expirers -> X]
  <2>1. Shift(pc, R, todo, u, s, v) \in X
      BY <1>1, <1>4 DEF Shift, ShiftsOf
  <2>. HIDE DEF X
  <2>2. \A f \in Expirers : expirer'[f] \in X
      BY <1>2, <1>4, <2>1 DEF Shifts
  <2>. QED BY <1>4, <2>2 DEF Shifts
<1>. HIDE DEF X
<1>5. AnyPart[2] \in Creators /\ {} \subseteq DOMAIN grant /\ {} \subseteq Creators
    BY AnyPartIn
<1>6. ASSUME NEW e \in Expirers, ExpirerStep(e) PROVE expirer' \in [Expirers -> X]
  <2>1. /\ expirer[e].rows \subseteq DOMAIN grant /\ expirer[e].todo \subseteq Creators
        /\ expirer[e].who \in Creators /\ expirer[e].sum \in Nat /\ expirer[e].seen \in Views
      BY <1>0 DEF ShiftsOf
  <2>2. CASE ListExpired(e)
    <3>1. Shifts(e, Shift("mark", {g \in due : grant[g].live}, {}, AnyPart[2], 0, <<>>))
        BY <1>0, <2>2, CronEffects
    <3>2. {g \in due : grant[g].live} \subseteq DOMAIN grant
        BY DEF TypeOK
    <3>. QED BY <1>1, <1>4, <1>5, <3>1, <3>2
  <2>3. CASE Mark(e)
    <3>1. Shifts(e, Shift("users", expirer[e].rows, Affected(e), expirer[e].who,
                          expirer[e].sum, expirer[e].seen))
        BY <1>0, <2>3, CronEffects
    <3>2. Affected(e) \subseteq Creators
      <4>1. \A g \in DOMAIN grant : grant[g] \in GrantRec
          BY ElementOfSeq, LenProperties DEF TypeOK
      <4>. QED BY <2>1, <4>1 DEF Affected, GrantRec
    <3>. QED BY <1>4, <2>1, <3>1, <3>2
  <2>4. ASSUME NEW u \in Creators, SumExpired(e, u) PROVE expirer' \in [Expirers -> X]
    <3>1. Shifts(e, Shift("save", expirer[e].rows, expirer[e].todo, u, Sum(u), Seen(u)))
        BY <1>0, <2>4, CronEffects
    <3>. QED BY <1>4, <2>1, <3>1, SumIsNat, SeenView
  <2>5. CASE SaveExpired(e)
    <3>1. PICK todo : /\ todo = expirer[e].todo \ {expirer[e].who}
                /\ \/ todo = {} /\ Shifts(e, Shift("idle", {}, {}, AnyPart[2], 0, <<>>))
                   \/ todo # {} /\ Shifts(e, Shift("users", expirer[e].rows, todo, expirer[e].who,
                                                   expirer[e].sum, expirer[e].seen))
        BY <1>0, <2>5, CronEffects
    <3>2. todo \subseteq Creators
        BY <2>1, <3>1
    <3>. QED BY <1>1, <1>4, <1>5, <2>1, <3>1, <3>2
  <2>. QED BY <1>6, <2>2, <2>3, <2>4, <2>5 DEF ExpirerStep
<1>7. ASSUME \/ \E q \in Requests : Requested(q) \/ GoOn(q)
             \/ \E p \in AllParts : Participate(p) \/ Reject(p)
             \/ \E k \in Campaigns : TogglePause(k)
             \/ \E g \in DOMAIN grant : RowExpires(g)
             \/ UNCHANGED tokenVars
      PROVE  expirer' = expirer
    BY <1>7 DEF Requested, GoOn, LookUp, Accept, Submit, Grant, SumUp, ReadUser, SaveTotal, Tell,
                Vouch, Award, SumOwner, SaveOwner, Participate, Reject, TogglePause, RowExpires,
                crons, expirerOnly, tokenVars
<1>8. ASSUME CrashTokens PROVE expirer' \in [Expirers -> X]
  <2>1. expirer' = expirer \/ \E e \in Expirers : expirer' = [expirer EXCEPT ![e] = IdleExpirer]
      BY <1>8 DEF CrashTokens
  <2>2. IdleExpirer \in X
      BY <1>1, AnyPartIn DEF IdleExpirer, ShiftsOf, X
  <2>3. ASSUME NEW e \in Expirers, expirer' = [expirer EXCEPT ![e] = IdleExpirer]
        PROVE  expirer' \in [Expirers -> X]
      BY <1>0, <1>2, <2>2, <2>3
  <2>. QED BY <1>3, <2>1, <2>3
<1>9. expirer' \in [Expirers -> X]
    BY <1>3, <1>6, <1>7, <1>8 DEF NextTokens
<1>. QED BY <1>9 DEF X

LEMMA TokensTypeStep ==
    ASSUME TypeOK, [NextTokens]_tokenVars
    PROVE  TypeOK'
<1>1. /\ grant' \in Seq(GrantRec) /\ DOMAIN grant \subseteq DOMAIN grant'
      /\ req' \in [Requests -> EntriesOf(Views')]
      /\ expirer' \in [Expirers -> ShiftsOf(Views', DOMAIN grant')]
    BY LedgerGrows, ReqTypeStep, CronTypeStep
<1> DEFINE
    A == /\ shut \subseteq Campaigns /\ parts \subseteq AllParts
         /\ link \in [AllParts -> LinkStatus]
    B == /\ due \subseteq DOMAIN grant
         /\ total \in [Creators -> Nat]
         /\ badge \in [Creators -> RankCount]
         /\ badgeTold \in [Creators -> SUBSET RankCount]
         /\ doubled \subseteq AllParts
         /\ spoilt \subseteq Creators /\ silent \subseteq Creators
         /\ killed \in Nat
<1>2. A /\ B
    BY DEF TypeOK
<1>3. /\ \A q \in Requests : req[q].p \in AllParts /\ req[q].sum \in Nat /\ Who(q) \in Creators
      /\ \A e \in Expirers : expirer[e].todo \subseteq Creators /\ expirer[e].who \in Creators
                             /\ expirer[e].sum \in Nat
    BY DEF TypeOK, Who, AllParts
<1>4. \A n : BadgeOf(n) \in RankCount
    BY Badges
<1>5. ASSUME NEW q \in Requests, Requested(q) PROVE A' /\ B'
    BY <1>1, <1>2, <1>5 DEF Requested, LookUp, Accept, ledger, crons
<1>6. ASSUME NEW q \in Requests, GoOn(q) PROVE A'
    BY <1>2, <1>6 DEF GoOn, Submit, Grant, SumUp, ReadUser, SaveTotal, Tell, Vouch, Award, SumOwner,
                      SaveOwner, LinkStatus
<1>7. ASSUME NEW q \in Requests, Submit(q) \/ Grant(q) \/ Award(q) PROVE B'
    BY <1>1, <1>2, <1>3, <1>7 DEF Submit, Grant, Award, crons
<1>8. ASSUME NEW q \in Requests, SumUp(q) \/ ReadUser(q) \/ Vouch(q) \/ SumOwner(q) PROVE B'
    BY <1>2, <1>8 DEF SumUp, ReadUser, Vouch, SumOwner, ledger, crons
<1>9. ASSUME NEW q \in Requests, SaveTotal(q) PROVE B'
    BY <1>2, <1>3, <1>4, <1>9 DEF SaveTotal, SaveUser, Spoils, crons
<1>10. ASSUME NEW q \in Requests, Tell(q) PROVE B'
    BY <1>2, <1>3, <1>4, <1>10 DEF Tell, crons
<1>11. ASSUME NEW q \in Requests, SaveOwner(q) PROVE B'
    BY <1>2, <1>3, <1>4, <1>11 DEF SaveOwner, Spoils, crons
<1>12. ASSUME NEW e \in Expirers, ExpirerStep(e) PROVE A'
    BY <1>2, <1>12 DEF ExpirerStep, ListExpired, Mark, SumExpired, SaveExpired, expirerOnly
<1>13. ASSUME NEW e \in Expirers, ListExpired(e) \/ Mark(e) \/ \E u \in Creators : SumExpired(e, u)
       PROVE  B'
    BY <1>1, <1>2, <1>13 DEF ListExpired, Mark, SumExpired, ledger, expirerOnly
<1>14. ASSUME NEW e \in Expirers, SaveExpired(e) PROVE B'
    BY <1>2, <1>3, <1>4, <1>14 DEF SaveExpired, SaveUser, Spoils, expirerOnly
<1>15. ASSUME \/ \E p \in AllParts : Participate(p) \/ Reject(p)
              \/ \E k \in Campaigns : TogglePause(k)
       PROVE  A' /\ B'
    BY <1>2, <1>15 DEF Participate, Reject, TogglePause, LinkStatus, ledger, crons
<1>16. ASSUME NEW g \in DOMAIN grant, RowExpires(g) PROVE A' /\ B'
    BY <1>2, <1>16 DEF RowExpires, expirerOnly
<1>17. ASSUME CrashTokens PROVE A' /\ B'
  <2>1. spoilt' \subseteq Creators
      BY <1>2, <1>3, <1>17 DEF CrashTokens
  <2>. QED BY <1>2, <1>17, <2>1 DEF CrashTokens
<1>18. ASSUME UNCHANGED tokenVars PROVE A' /\ B'
    BY <1>2, <1>18 DEF tokenVars, ledger
<1>. HIDE DEF A, B
<1>19. A' /\ B'
    BY <1>5, <1>6, <1>7, <1>8, <1>9, <1>10, <1>11, <1>12, <1>13, <1>14, <1>15, <1>16, <1>17, <1>18
       DEF NextTokens, GoOn, ExpirerStep
<1>. QED BY <1>1, <1>19 DEF TypeOK, EntriesOf, ShiftsOf, A, B

\* A request at p: about to create its submission, or the row for its link.
Granting(q, p) == req[q].pc = "grant" /\ req[q].p = p

LinkInv ==
    \A p \in AllParts \ doubled :
        /\ link[p] = "none" => LinkRows(p) = {} /\ \A q \in Requests : ~Granting(q, p)
        /\ link[p] # "none" => \A q \in Requests : ~Submitting(q, p)
        /\ \A q \in Requests : Granting(q, p) =>
             LinkRows(p) = {} /\ \A r \in Requests : Granting(r, p) => r = q
        /\ \A g, h \in LinkRows(p) : g = h

\* Steps that neither submit a link nor pay one.
LinksAsWere ==
    /\ doubled' = doubled
    /\ \A p \in AllParts :
         /\ link'[p] = "none" <=> link[p] = "none"
         /\ LinkRows(p)' = LinkRows(p)
         /\ \A q \in Requests : (Submitting(q, p)' => Submitting(q, p))
                                /\ (Granting(q, p)' => Granting(q, p))

\* A row for a link is added by Grant alone.
LEMMA LinkRowsKept ==
    ASSUME TypeOK, [NextTokens]_tokenVars
    PROVE  \/ \A p : LinkRows(p)' = LinkRows(p)
           \/ \E q \in Requests : Grant(q) /\ Booked(q, "link", "sum")
<1>1. CASE grant' = grant
    BY <1>1 DEF LinkRows
<1>2. ASSUME NEW q \in Requests, Booked(q, "admin", "ownsum") PROVE \A p : LinkRows(p)' = LinkRows(p)
    BY <1>2 DEF Booked, LinkRows
<1>3. ASSUME NEW e \in Expirers, Mark(e) PROVE \A p : LinkRows(p)' = LinkRows(p)
  <2>1. DOMAIN grant' = DOMAIN grant
      BY <1>3 DEF Mark
  <2>. QED BY <2>1, LedgerGrows DEF LinkRows
<1>. QED BY <1>1, <1>2, <1>3, LedgerSteps

\* A request that moves on to pc, or starts again, and is neither submitting nor granting then.
LEMMA LinksSet ==
    ASSUME TypeOK, NEW q \in Requests, NEW pc, NEW p, NEW s, NEW v, NEW t, NEW b,
           pc \notin {"submit", "grant"}, Sets(q, Entry(pc, p, s, v, t, b))
    PROVE  \A k \in AllParts, r \in Requests :
             (Submitting(r, k)' => Submitting(r, k)) /\ (Granting(r, k)' => Granting(r, k))
BY DEF Sets, Entry, Submitting, Granting

LEMMA LinkSteps ==
    ASSUME TypeOK, [NextTokens]_tokenVars
    PROVE  \/ LinksAsWere
           \/ \E q \in Requests : Grant(q) /\ Booked(q, "link", "sum")
           \/ \E q \in Requests : Submit(q) \/ \E p \in AllParts : LookUp(q, p)
<1>0. req \in [Requests -> EntriesOf(Views)] /\ link \in [AllParts -> LinkStatus]
    BY DEF TypeOK, EntriesOf
<1>1. ASSUME ~\E q \in Requests : Grant(q) PROVE \A p : LinkRows(p)' = LinkRows(p)
    BY <1>1, LinkRowsKept
<1>2. ASSUME doubled' = doubled, \A p \in AllParts : link'[p] = "none" <=> link[p] = "none",
             \A k \in AllParts, r \in Requests :
                (Submitting(r, k)' => Submitting(r, k)) /\ (Granting(r, k)' => Granting(r, k)),
             ~\E q \in Requests : Grant(q)
      PROVE  LinksAsWere
    BY <1>1, <1>2 DEF LinksAsWere
<1>3. ASSUME NEW q \in Requests, ~\E r \in Requests : Grant(r),
             (\E p \in AllParts : Accept(q, p)) \/ GoOn(q), ~Submit(q)
      PROVE  LinksAsWere
  <2>1. /\ doubled' = doubled /\ \A p \in AllParts : link'[p] = "none" <=> link[p] = "none"
      BY <1>0, <1>3 DEF Accept, GoOn, SumUp, ReadUser, SaveTotal, Tell, Vouch, Award, SumOwner,
                        SaveOwner, ledger
  <2>2. \E pc, p, s, v, t, b :
          pc \notin {"submit", "grant"} /\ Sets(q, Entry(pc, p, s, v, t, b))
    <3>1. \/ \E pc : pc \notin {"submit", "grant"} /\ Go(q, pc)
          \/ \E p : Begin(q, p, "vouch")
          \/ Finish(q) \/ SumUp(q) \/ SumOwner(q) \/ ReadUser(q) \/ Vouch(q)
        BY <1>3 DEF GoOn, Accept, SaveTotal, Tell, Award, SaveOwner
    <3>2. ASSUME NEW pc, pc \notin {"submit", "grant"}, Go(q, pc)
          PROVE  <2>2
        BY <1>0, <3>2, ReqEffects
    <3>3. ASSUME NEW p, Begin(q, p, "vouch") PROVE <2>2
        BY <1>0, <3>3, ReqEffects
    <3>4. CASE Finish(q) \/ SumUp(q) \/ SumOwner(q) \/ ReadUser(q) \/ Vouch(q)
        BY <1>0, <3>4, ReqEffects
    <3>. QED BY <3>1, <3>2, <3>3, <3>4
  <2>3. \A k \in AllParts, r \in Requests :
          (Submitting(r, k)' => Submitting(r, k)) /\ (Granting(r, k)' => Granting(r, k))
      BY <2>2, LinksSet
  <2>. QED BY <1>2, <1>3, <2>1, <2>3
<1>4. ASSUME ~\E q \in Requests : Grant(q),
             \/ \E e \in Expirers : ExpirerStep(e)
             \/ \E p \in AllParts : Participate(p) \/ Reject(p)
             \/ \E k \in Campaigns : TogglePause(k)
             \/ \E g \in DOMAIN grant : RowExpires(g)
             \/ UNCHANGED tokenVars
      PROVE  LinksAsWere
  <2>1. req' = req /\ doubled' = doubled /\ \A p \in AllParts : link'[p] = "none" <=> link[p] = "none"
      BY <1>0, <1>4 DEF ExpirerStep, ListExpired, Mark, SumExpired, SaveExpired, Participate, Reject,
                        TogglePause, RowExpires, expirerOnly, tokenVars, ledger
  <2>. QED BY <1>2, <1>4, <2>1 DEF Submitting, Granting
<1>5. ASSUME ~\E q \in Requests : Grant(q), CrashTokens PROVE LinksAsWere
  <2>1. doubled' = doubled /\ link' = link
      BY <1>5 DEF CrashTokens
  <2>2. req' = req \/ \E q \in Requests : Finish(q)
      BY <1>5 DEF CrashTokens
  <2>3. ASSUME NEW q \in Requests, Finish(q)
        PROVE  \A k \in AllParts, r \in Requests :
                (Submitting(r, k)' => Submitting(r, k)) /\ (Granting(r, k)' => Granting(r, k))
      BY <1>0, <2>3, ReqEffects, LinksSet
  <2>4. ASSUME req' = req
        PROVE  \A k \in AllParts, r \in Requests :
                (Submitting(r, k)' => Submitting(r, k)) /\ (Granting(r, k)' => Granting(r, k))
      BY <2>4 DEF Submitting, Granting
  <2>. QED BY <1>2, <1>5, <2>1, <2>2, <2>3, <2>4
<1>6. ASSUME NEW q \in Requests, Grant(q)
      PROVE  Grant(q) /\ Booked(q, "link", "sum")
    BY <1>0, <1>6, Appended, ReqEffects DEF Grant, Booked
<1>. QED BY <1>3, <1>4, <1>5, <1>6 DEF NextTokens, Requested

LEMMA LinkStep ==
    ASSUME TypeOK, LinkInv, [NextTokens]_tokenVars
    PROVE  LinkInv'
<1>0. req \in [Requests -> EntriesOf(Views)] /\ link \in [AllParts -> LinkStatus]
    BY DEF TypeOK, EntriesOf
<1>1. CASE LinksAsWere
  <2>. SUFFICES ASSUME NEW p \in AllParts, p \notin doubled
                PROVE  /\ link'[p] = "none" => LinkRows(p)' = {} /\ \A q \in Requests : ~Granting(q, p)'
                       /\ link'[p] # "none" => \A q \in Requests : ~Submitting(q, p)'
                       /\ \A q \in Requests : Granting(q, p)' =>
                            LinkRows(p)' = {} /\ \A r \in Requests : Granting(r, p)' => r = q
                       /\ \A g, h \in LinkRows(p)' : g = h
      BY <1>1 DEF LinkInv, LinksAsWere
  <2>. QED BY <1>1 DEF LinkInv, LinksAsWere
<1>2. ASSUME NEW q \in Requests, Grant(q), Booked(q, "link", "sum") PROVE LinkInv'
  <2>1. /\ link' = link /\ doubled' = doubled /\ Granting(q, req[q].p) /\ req[q].p \in AllParts
        /\ req'[q].pc = "sum" /\ \A r \in Requests : r # q => req'[r] = req[r]
      BY <1>0, <1>2 DEF Grant, Booked, Sets, Entry, Granting, EntriesOf
  <2>2. ASSUME NEW p \in AllParts
        PROVE  LinkRows(p)' = LinkRows(p) \cup (IF p = req[q].p THEN {Len(grant) + 1} ELSE {})
    <3>1. PICK row \in GrantRec :
            /\ row.camp = req[q].p[1] /\ row.who = Who(q) /\ row.by = "link"
            /\ Len(grant) \in Nat
            /\ DOMAIN grant = 1 .. Len(grant) /\ DOMAIN grant' = 1 .. (Len(grant) + 1)
            /\ \A g \in DOMAIN grant : grant'[g] = grant[g]
            /\ grant'[Len(grant) + 1] = row
        BY <1>2 DEF Booked
    <3>2. <<row.camp, row.who>> = p <=> p = req[q].p
        BY <2>1, <3>1 DEF AllParts, Who
    <3>3. DOMAIN grant' = DOMAIN grant \cup {Len(grant) + 1}
        BY <3>1
    <3>. QED BY <3>1, <3>2, <3>3 DEF LinkRows
  <2>3. \A p \in AllParts, r \in Requests :
          /\ Submitting(r, p)' => Submitting(r, p)
          /\ Granting(r, p)' => Granting(r, p) /\ r # q
      BY <2>1 DEF Submitting, Granting
  <2>. SUFFICES ASSUME NEW p \in AllParts, p \notin doubled
                PROVE  /\ link[p] = "none" => LinkRows(p)' = {} /\ \A r \in Requests : ~Granting(r, p)'
                       /\ link[p] # "none" => \A r \in Requests : ~Submitting(r, p)'
                       /\ \A r \in Requests : Granting(r, p)' =>
                            LinkRows(p)' = {} /\ \A t \in Requests : Granting(t, p)' => t = r
                       /\ \A g, h \in LinkRows(p)' : g = h
      BY <2>1 DEF LinkInv
  <2>4. CASE p = req[q].p
    <3>1. LinkRows(p) = {} /\ link[p] # "none" /\ \A r \in Requests : ~Granting(r, p)'
        BY <2>1, <2>3, <2>4 DEF LinkInv
    <3>. QED BY <2>2, <2>3, <2>4, <3>1 DEF LinkInv
  <2>5. CASE p # req[q].p
    <3>1. LinkRows(p)' = LinkRows(p)
        BY <2>2, <2>5
    <3>. QED BY <2>3, <3>1 DEF LinkInv
  <2>. QED BY <2>4, <2>5
<1>3. ASSUME NEW q \in Requests, Submit(q) PROVE LinkInv'
  <2> DEFINE k == req[q].p
  <2>1. Go(q, "grant") /\ grant' = grant /\ k \in AllParts /\ Submitting(q, k)
      BY <1>0, <1>3 DEF Submit, EntriesOf, Submitting
  <2>2. \A p \in AllParts : link'[p] = IF p = k THEN "approved" ELSE link[p]
      BY <1>0, <1>3 DEF Submit
  <2>3. doubled \subseteq doubled' /\ (k \notin doubled' => ~\E r \in Requests : r # q /\ Submitting(r, k))
      BY <1>3 DEF Submit
  <2>4. Sets(q, Entry("grant", req[q].p, req[q].sum, req[q].seen, req[q].total, req[q].badge))
      BY <1>0, <2>1, ReqEffects
  <2>. HIDE DEF k
  <2>5. /\ req'[q].pc = "grant" /\ req'[q].p = k /\ \A r \in Requests : r # q => req'[r] = req[r]
      BY <2>4 DEF Sets, Entry, k
  <2>6. \A p : LinkRows(p)' = LinkRows(p)
      BY <2>1 DEF LinkRows
  <2>7. \A p \in AllParts, r \in Requests :
          /\ Submitting(r, p)' => Submitting(r, p) /\ r # q
          /\ Granting(r, p)' => Granting(r, p) \/ (r = q /\ p = k)
      BY <2>5 DEF Submitting, Granting
  <2>. SUFFICES ASSUME NEW p \in AllParts, p \notin doubled'
                PROVE  /\ link'[p] = "none" => LinkRows(p) = {} /\ \A r \in Requests : ~Granting(r, p)'
                       /\ link'[p] # "none" => \A r \in Requests : ~Submitting(r, p)'
                       /\ \A r \in Requests : Granting(r, p)' =>
                            LinkRows(p) = {} /\ \A t \in Requests : Granting(t, p)' => t = r
                       /\ \A g, h \in LinkRows(p) : g = h
      BY <2>6 DEF LinkInv
  <2>8. p \notin doubled
      BY <2>3
  <2>9. CASE p = k
    <3>1. link[k] = "none" /\ LinkRows(k) = {} /\ \A r \in Requests : ~Granting(r, k)
        BY <2>1, <2>8, <2>9 DEF LinkInv
    <3>. QED BY <2>2, <2>3, <2>7, <2>9, <3>1
  <2>10. CASE p # k
      BY <2>2, <2>7, <2>8, <2>10 DEF LinkInv
  <2>. QED BY <2>9, <2>10
<1>4. ASSUME NEW q \in Requests, NEW k \in AllParts, LookUp(q, k) PROVE LinkInv'
  <2>1. Begin(q, k, "submit") /\ grant' = grant /\ link' = link /\ doubled' = doubled /\ link[k] = "none"
      BY <1>4 DEF LookUp, ledger
  <2>2. Sets(q, Entry("submit", k, 0, <<>>, 0, 0))
      BY <1>0, <2>1, ReqEffects
  <2>3. \A p \in AllParts, r \in Requests :
          /\ Submitting(r, p)' => Submitting(r, p) \/ p = k
          /\ Granting(r, p)' => Granting(r, p)
      BY <2>2 DEF Sets, Entry, Submitting, Granting
  <2>4. \A p : LinkRows(p)' = LinkRows(p)
      BY <2>1 DEF LinkRows
  <2>. SUFFICES ASSUME NEW p \in AllParts, p \notin doubled
                PROVE  /\ link[p] = "none" => LinkRows(p) = {} /\ \A r \in Requests : ~Granting(r, p)'
                       /\ link[p] # "none" => \A r \in Requests : ~Submitting(r, p)'
                       /\ \A r \in Requests : Granting(r, p)' =>
                            LinkRows(p) = {} /\ \A t \in Requests : Granting(t, p)' => t = r
                       /\ \A g, h \in LinkRows(p) : g = h
      BY <2>1, <2>4 DEF LinkInv
  <2>. QED BY <2>1, <2>3 DEF LinkInv
<1>. QED BY <1>1, <1>2, <1>3, <1>4, LinkSteps

-----------------------------------------------------------------------------
(* The columns of a creator.                                               *)

\* What a view of the ledger adds up to.
Amount == [g \in DOMAIN grant |-> grant[g].tokens]
LiveIn(seen) == {g \in DOMAIN seen : seen[g]}
SeenTotal(seen) == SumOf(Amount, LiveIn(seen))

ViewInv ==
    /\ \A q \in Requests : req[q].pc \in {"user", "save", "ownsave"} =>
         DOMAIN req[q].seen \subseteq DOMAIN grant /\ req[q].sum = SeenTotal(req[q].seen)
    /\ \A e \in Expirers : expirer[e].pc = "save" =>
         DOMAIN expirer[e].seen \subseteq DOMAIN grant /\ expirer[e].sum = SeenTotal(expirer[e].seen)

LEMMA SumIs ==
    /\ \A S : Total(S) = SumOf(Amount, S)
    /\ \A u : Sum(u) = SumOf(Amount, {g \in RowsOf(u) : grant[g].live})
BY DEF Sum, Total, SumOf, Amount

\* Rows keep their tokens, so sets of them add up to the same.
LEMMA AmountsStay ==
    ASSUME TypeOK, [NextTokens]_tokenVars, NEW S, S \subseteq DOMAIN grant
    PROVE  SumOf(Amount', S) = SumOf(Amount, S)
<1>1. DOMAIN grant \subseteq DOMAIN grant' /\ \A g \in DOMAIN grant : grant'[g].tokens = grant[g].tokens
    BY LedgerGrows
<1>2. IsFiniteSet(S) /\ \A g \in S : grant[g].tokens \in Nat
    BY Amounts
<1>3. \A g \in S : Amount[g] \in Int /\ Amount'[g] = Amount[g]
    BY <1>1, <1>2 DEF Amount
<1>. QED BY <1>2, <1>3, SumCongruent

\* The rows a view has seen keep their tokens.
LEMMA SeenStays ==
    ASSUME TypeOK, [NextTokens]_tokenVars, NEW v, DOMAIN v \subseteq DOMAIN grant
    PROVE  DOMAIN v \subseteq DOMAIN grant' /\ SumOf(Amount', LiveIn(v)) = SeenTotal(v)
<1>1. LiveIn(v) \subseteq DOMAIN grant /\ DOMAIN grant \subseteq DOMAIN grant'
    BY LedgerGrows DEF LiveIn
<1>2. SumOf(Amount', LiveIn(v)) = SumOf(Amount, LiveIn(v))
    BY <1>1, AmountsStay
<1>. QED BY <1>1, <1>2 DEF SeenTotal

\* A creator's rows, seen now, add up to what he has.
LEMMA SeenNow ==
    \A u : /\ DOMAIN Seen(u) \subseteq DOMAIN grant /\ SeenTotal(Seen(u)) = Sum(u)
          /\ LiveIn(Seen(u)) = {g \in RowsOf(u) : grant[g].live}
<1>. SUFFICES ASSUME NEW u
              PROVE  /\ DOMAIN Seen(u) \subseteq DOMAIN grant /\ SeenTotal(Seen(u)) = Sum(u)
                     /\ LiveIn(Seen(u)) = {g \in RowsOf(u) : grant[g].live}
    OBVIOUS
<1>1. DOMAIN Seen(u) = RowsOf(u) /\ \A g \in RowsOf(u) : Seen(u)[g] = grant[g].live
    BY DEF Seen
<1>2. LiveIn(Seen(u)) = {g \in RowsOf(u) : grant[g].live}
    BY <1>1 DEF LiveIn
<1>. QED BY <1>1, <1>2, SumIs DEF SeenTotal, RowsOf

\* What a request or a cron that is about to save has summed, it has seen.
Summed(pc, sum, seen) ==
    pc \in {"user", "save", "ownsave"} =>
        DOMAIN seen \subseteq DOMAIN grant /\ sum = SeenTotal(seen)

LEMMA ReqSums ==
    ASSUME TypeOK, ViewInv, [NextTokens]_tokenVars, NEW q \in Requests
    PROVE  Summed(req'[q].pc, req'[q].sum, req'[q].seen)
<1> DEFINE Goal == Summed(req'[q].pc, req'[q].sum, req'[q].seen)
<1>0. req \in [Requests -> EntriesOf(Views)]
    BY DEF TypeOK, EntriesOf
<1>1. \A r \in Requests : Summed(req[r].pc, req[r].sum, req[r].seen)
    BY DEF ViewInv, Summed
<1>2. ASSUME NEW r \in Requests, NEW pc, NEW p, NEW s, NEW v, NEW t, NEW b,
             Sets(r, Entry(pc, p, s, v, t, b)), Summed(pc, s, v)
      PROVE  Goal
    BY <1>1, <1>2 DEF Sets, Entry
<1>3. CASE req' = req
    BY <1>1, <1>3
<1>4. ASSUME NEW r \in Requests, Requested(r) \/ GoOn(r)
      PROVE  Goal
  <2>1. \/ \E pc \in ReqPc \ {"user", "save", "ownsave"} : Go(r, pc)
        \/ \E p \in AllParts, pc \in ReqPc \ {"user", "save", "ownsave"} : Begin(r, p, pc)
        \/ Finish(r) \/ SumUp(r) \/ SumOwner(r) \/ ReadUser(r) \/ Vouch(r)
      BY <1>4 DEF Requested, GoOn, LookUp, Accept, Submit, Grant, SaveTotal, Tell, Award, SaveOwner,
                  ReqPc
  <2>2. ASSUME NEW pc \in ReqPc \ {"user", "save", "ownsave"}, Go(r, pc) PROVE Goal
      BY <1>0, <1>2, <2>2, ReqEffects DEF Summed
  <2>3. ASSUME NEW p \in AllParts, NEW pc \in ReqPc \ {"user", "save", "ownsave"}, Begin(r, p, pc)
        PROVE  Goal
      BY <1>0, <1>2, <2>3, ReqEffects DEF Summed
  <2>4. CASE Finish(r) \/ Vouch(r)
      BY <1>0, <1>2, <2>4, ReqEffects DEF Summed
  <2>5. CASE SumUp(r) \/ SumOwner(r)
      BY <1>0, <1>2, <2>5, ReqEffects, SeenNow DEF Summed
  <2>6. CASE ReadUser(r)
    <3>1. Summed("save", req[r].sum, req[r].seen)
        BY <1>1, <2>6 DEF ReadUser, Summed
    <3>. QED BY <1>0, <1>2, <2>6, <3>1, ReqEffects
  <2>. QED BY <2>1, <2>2, <2>3, <2>4, <2>5, <2>6
<1>5. ASSUME \/ \E e \in Expirers : ExpirerStep(e)
             \/ \E p \in AllParts : Participate(p) \/ Reject(p)
             \/ \E k \in Campaigns : TogglePause(k)
             \/ \E g \in DOMAIN grant : RowExpires(g)
             \/ UNCHANGED tokenVars
      PROVE  req' = req
    BY <1>5 DEF ExpirerStep, ListExpired, Mark, SumExpired, SaveExpired, Participate, Reject,
                TogglePause, RowExpires, expirerOnly, tokenVars
<1>6. CASE CrashTokens
  <2>1. req' = req \/ \E r \in Requests : Finish(r)
      BY <1>6 DEF CrashTokens
  <2>2. ASSUME NEW r \in Requests, Finish(r) PROVE Goal
      BY <1>0, <1>2, <2>2, ReqEffects DEF Summed
  <2>. QED BY <1>3, <2>1, <2>2
<1>. QED BY <1>3, <1>4, <1>5, <1>6 DEF NextTokens

LEMMA CronSums ==
    ASSUME TypeOK, ViewInv, [NextTokens]_tokenVars, NEW e \in Expirers
    PROVE  Summed(expirer'[e].pc, expirer'[e].sum, expirer'[e].seen)
<1> DEFINE Goal == Summed(expirer'[e].pc, expirer'[e].sum, expirer'[e].seen)
<1>0. expirer \in [Expirers -> ShiftsOf(Views, DOMAIN grant)]
    BY DEF TypeOK, ShiftsOf
<1>1. \A f \in Expirers : Summed(expirer[f].pc, expirer[f].sum, expirer[f].seen)
  <2>1. \A f \in Expirers : expirer[f].pc \in {"idle", "mark", "users", "save"}
      BY <1>0 DEF ShiftsOf
  <2>. QED BY <2>1 DEF ViewInv, Summed
<1>2. ASSUME NEW f \in Expirers, NEW pc, NEW R, NEW todo, NEW u, NEW s, NEW v,
             Shifts(f, Shift(pc, R, todo, u, s, v)), Summed(pc, s, v)
      PROVE  Goal
    BY <1>1, <1>2 DEF Shifts, Shift
<1>3. CASE expirer' = expirer
    BY <1>1, <1>3
<1>4. ASSUME NEW f \in Expirers, ExpirerStep(f)
      PROVE  Goal
  <2>1. \A s, v, pc : pc \in {"idle", "mark"} => Summed(pc, s, v)
      BY DEF Summed
  <2>2. Summed("users", expirer[f].sum, expirer[f].seen)
      BY DEF Summed
  <2>3. CASE ListExpired(f)
      BY <1>0, <1>2, <2>1, <2>3, CronEffects
  <2>4. CASE Mark(f)
      BY <1>0, <1>2, <2>2, <2>4, CronEffects
  <2>5. ASSUME NEW u \in Creators, SumExpired(f, u) PROVE Goal
    <3>1. Shifts(f, Shift("save", expirer[f].rows, expirer[f].todo, u, Sum(u), Seen(u)))
        BY <1>0, <2>5, CronEffects
    <3>2. Summed("save", Sum(u), Seen(u))
        BY SeenNow DEF Summed
    <3>. QED BY <1>2, <3>1, <3>2
  <2>6. CASE SaveExpired(f)
      BY <1>0, <1>2, <2>1, <2>2, <2>6, CronEffects
  <2>. QED BY <1>4, <2>3, <2>4, <2>5, <2>6 DEF ExpirerStep
<1>5. ASSUME \/ \E q \in Requests : Requested(q) \/ GoOn(q)
             \/ \E p \in AllParts : Participate(p) \/ Reject(p)
             \/ \E k \in Campaigns : TogglePause(k)
             \/ \E g \in DOMAIN grant : RowExpires(g)
             \/ UNCHANGED tokenVars
      PROVE  expirer' = expirer
    BY <1>5 DEF Requested, GoOn, LookUp, Accept, Submit, Grant, SumUp, ReadUser, SaveTotal, Tell,
                Vouch, Award, SumOwner, SaveOwner, Participate, Reject, TogglePause, RowExpires,
                crons, expirerOnly, tokenVars
<1>6. CASE CrashTokens
  <2>1. expirer' = expirer \/ \E f \in Expirers : expirer' = [expirer EXCEPT ![f] = IdleExpirer]
      BY <1>6 DEF CrashTokens
  <2>2. ASSUME NEW f \in Expirers, expirer' = [expirer EXCEPT ![f] = IdleExpirer]
        PROVE  Goal
      BY <1>0, <1>1, <2>2 DEF IdleExpirer, Summed
  <2>. QED BY <1>3, <2>1, <2>2
<1>. QED BY <1>3, <1>4, <1>5, <1>6 DEF NextTokens

LEMMA ViewStep ==
    ASSUME TypeOK, ViewInv, [NextTokens]_tokenVars
    PROVE  ViewInv'
<1>1. ASSUME NEW pc, NEW s, NEW v, Summed(pc, s, v), pc \in {"user", "save", "ownsave"}
      PROVE  DOMAIN v \subseteq DOMAIN grant' /\ s = SumOf(Amount', LiveIn(v))
  <2>1. DOMAIN v \subseteq DOMAIN grant /\ s = SeenTotal(v)
      BY <1>1 DEF Summed
  <2>. QED BY <2>1, SeenStays
<1>2. \A q \in Requests : Summed(req'[q].pc, req'[q].sum, req'[q].seen)
    BY ReqSums
<1>3. \A e \in Expirers : Summed(expirer'[e].pc, expirer'[e].sum, expirer'[e].seen)
    BY CronSums
<1>4. \A q \in Requests : req'[q].pc \in {"user", "save", "ownsave"} =>
         DOMAIN req'[q].seen \subseteq DOMAIN grant' /\ req'[q].sum = SumOf(Amount', LiveIn(req'[q].seen))
    BY <1>1, <1>2
<1>5. \A e \in Expirers : expirer'[e].pc = "save" =>
         /\ DOMAIN expirer'[e].seen \subseteq DOMAIN grant'
         /\ expirer'[e].sum = SumOf(Amount', LiveIn(expirer'[e].seen))
    BY <1>1, <1>3
<1>. QED BY <1>4, <1>5 DEF ViewInv, SeenTotal

\* What a step does to the columns of u, to what they should be and to whether they
\* are being seen to: nothing, or they are being seen to, or they have been saved.
Keeps(u) ==
    /\ total'[u] = total[u] /\ badge'[u] = badge[u] /\ Sum(u)' = Sum(u)
    /\ u \notin spoilt' => /\ u \notin spoilt
                           /\ Settling(u) => Settling(u)'
Saves(u) ==
    u \notin spoilt' => total'[u] = Sum(u)' /\ badge'[u] = BadgeOf(Sum(u)')

InHand == {"sum", "user", "save", "ownsum", "ownsave"}

LEMMA SumIsNext == \A u : Sum(u)' = SumOf(Amount', {g \in RowsOf(u)' : grant'[g].live})
<1>1. (\A u : Sum(u) = SumOf(Amount, {g \in RowsOf(u) : grant[g].live}))'
    BY SumIs, PTL
<1>. QED BY <1>1

LEMMA RowsStay ==
    ASSUME TypeOK, [NextTokens]_tokenVars, NEW u,
           {g \in RowsOf(u)' : grant'[g].live} = {g \in RowsOf(u) : grant[g].live}
    PROVE  Sum(u)' = Sum(u)
<1> DEFINE S == {g \in RowsOf(u) : grant[g].live}
           T == {g \in RowsOf(u)' : grant'[g].live}
<1>1. S \subseteq DOMAIN grant
    BY DEF RowsOf
<1>2. Sum(u) = SumOf(Amount, S)
    BY SumIs
<1>3. Sum(u)' = SumOf(Amount', T)
    BY SumIsNext
<1>4. T = S
    OBVIOUS
<1>. HIDE DEF S, T
<1>5. SumOf(Amount', S) = SumOf(Amount, S)
    BY <1>1, AmountsStay
<1>. QED BY <1>2, <1>3, <1>4, <1>5

LEMMA LedgerStays ==
    ASSUME grant' = grant, NEW u
    PROVE  Sum(u)' = Sum(u) /\ Seen(u)' = Seen(u)
<1>1. Amount' = Amount /\ RowsOf(u)' = RowsOf(u) /\ Seen(u)' = Seen(u)
    BY DEF Amount, RowsOf, Seen
<1>2. {g \in RowsOf(u)' : grant'[g].live} = {g \in RowsOf(u) : grant[g].live}
    BY <1>1
<1>. QED BY <1>1, <1>2, SumIs, SumIsNext

\* Who is being seen to, when one request or one cron moves.
LEMMA ReqSettles ==
    ASSUME NEW q \in Requests, NEW x, Sets(q, x), expirer' = expirer, NEW u
    PROVE  /\ (Updating(q) /\ Who(q) = u => x.pc \in InHand /\ x.p[2] = u) =>
                (Settling(u) => Settling(u)')
           /\ x.pc \in InHand /\ x.p[2] = u => Settling(u)'
<1>1. \A r \in Requests : r # q => (Updating(r)' <=> Updating(r)) /\ Who(r)' = Who(r)
    BY DEF Sets, Updating, Who
<1>2. (Updating(q)' <=> x.pc \in InHand) /\ Who(q)' = x.p[2]
    BY DEF Sets, Updating, Who, InHand
<1>3. \A e \in Expirers : (Recomputing(e)' <=> Recomputing(e)) /\ expirer'[e].todo = expirer[e].todo
    BY DEF Recomputing
<1>. QED BY <1>1, <1>2, <1>3 DEF Settling

LEMMA CronSettles ==
    ASSUME NEW e \in Expirers, NEW x, Shifts(e, x), req' = req, NEW u
    PROVE  /\ (Recomputing(e) /\ u \in expirer[e].todo => x.pc \in {"users", "save"} /\ u \in x.todo) =>
                (Settling(u) => Settling(u)')
           /\ x.pc \in {"users", "save"} /\ u \in x.todo => Settling(u)'
<1>1. \A f \in Expirers : f # e => (Recomputing(f)' <=> Recomputing(f)) /\ expirer'[f].todo = expirer[f].todo
    BY DEF Shifts, Recomputing
<1>2. (Recomputing(e)' <=> x.pc \in {"users", "save"}) /\ expirer'[e].todo = x.todo
    BY DEF Shifts, Recomputing
<1>3. \A r \in Requests : (Updating(r)' <=> Updating(r)) /\ Who(r)' = Who(r)
    BY DEF Updating, Who
<1>. QED BY <1>1, <1>2, <1>3 DEF Settling

\* A request that adds a row sees to its creator next.
LEMMA RowSettles ==
    ASSUME TypeOK, [NextTokens]_tokenVars, NEW q \in Requests, NEW by, NEW pc \in InHand,
           Booked(q, by, pc), req[q].pc \notin InHand, expirer' = expirer,
           total' = total, badge' = badge, spoilt' = spoilt, NEW u
    PROVE  Settling(u)' \/ Keeps(u)
<1> DEFINE x == Entry(pc, req[q].p, req[q].sum, req[q].seen, req[q].total, req[q].badge)
<1>1. Sets(q, x) /\ x.pc = pc /\ x.p[2] = Who(q)
    BY DEF Booked, Entry, Who
<1>2. ~Updating(q)
    BY DEF Updating, InHand
<1>. HIDE DEF x
<1>3. CASE u = Who(q)
    BY <1>1, <1>3, ReqSettles
<1>4. CASE u # Who(q)
  <2>1. Settling(u) => Settling(u)'
      BY <1>1, <1>2, ReqSettles
  <2>2. PICK row \in GrantRec :
          /\ row.who = Who(q) /\ Len(grant) \in Nat
          /\ DOMAIN grant = 1 .. Len(grant) /\ DOMAIN grant' = 1 .. (Len(grant) + 1)
          /\ \A g \in DOMAIN grant : grant'[g] = grant[g]
          /\ grant'[Len(grant) + 1] = row
      BY DEF Booked
  <2>3. DOMAIN grant' = DOMAIN grant \cup {Len(grant) + 1}
      BY <2>2
  <2>4. {g \in RowsOf(u)' : grant'[g].live} = {g \in RowsOf(u) : grant[g].live}
      BY <1>4, <2>2, <2>3 DEF RowsOf
  <2>5. Sum(u)' = Sum(u)
      BY <2>4, RowsStay
  <2>. QED BY <2>1, <2>5 DEF Keeps
<1>. QED BY <1>3, <1>4

\* A cron that marks rows sees to their creators next.
LEMMA MarkSettles ==
    ASSUME TypeOK, [NextTokens]_tokenVars, NEW e \in Expirers, Mark(e), NEW u
    PROVE  Settling(u)' \/ Keeps(u)
<1> DEFINE x == Shift("users", expirer[e].rows, Affected(e), expirer[e].who,
                      expirer[e].sum, expirer[e].seen)
<1>0. expirer \in [Expirers -> ShiftsOf(Views, DOMAIN grant)]
    BY DEF TypeOK, ShiftsOf
<1>1. Shifts(e, x)
    BY <1>0, CronEffects
<1>2. x.pc = "users" /\ x.todo = Affected(e)
    BY DEF Shift
<1>3. ~Recomputing(e) /\ req' = req /\ total' = total /\ badge' = badge /\ spoilt' = spoilt
    BY DEF Mark, Recomputing, expirerOnly
<1>. HIDE DEF x
<1>4. CASE u \in Affected(e)
    BY <1>1, <1>2, <1>3, <1>4, CronSettles
<1>5. CASE u \notin Affected(e)
  <2>1. Settling(u) => Settling(u)'
      BY <1>1, <1>3, CronSettles
  <2>2. /\ DOMAIN grant' = DOMAIN grant
        /\ \A g \in DOMAIN grant : g \notin expirer[e].rows => grant'[g] = grant[g]
      BY DEF Mark
  <2>3. \A g \in DOMAIN grant : grant'[g].who = grant[g].who
      BY LedgerGrows
  <2>4. \A g \in expirer[e].rows : grant[g].who # u
      BY <1>5 DEF Affected
  <2>5. {g \in RowsOf(u)' : grant'[g].live} = {g \in RowsOf(u) : grant[g].live}
      BY <2>2, <2>3, <2>4 DEF RowsOf
  <2>6. Sum(u)' = Sum(u)
      BY <2>5, RowsStay
  <2>. QED BY <1>3, <2>1, <2>6 DEF Keeps
<1>. QED BY <1>4, <1>5

\* A request that saves.
LEMMA ReqSaves ==
    ASSUME TypeOK, ViewInv, NEW q \in Requests, SaveTotal(q) \/ SaveOwner(q), NEW u \in Creators
    PROVE  Saves(u) \/ Keeps(u)
<1>0. req \in [Requests -> EntriesOf(Views)]
    BY DEF TypeOK, EntriesOf
<1>1. grant' = grant /\ expirer' = expirer
    BY DEF SaveTotal, SaveOwner, crons
<1>2. Who(q) \in Creators /\ total \in [Creators -> Nat] /\ badge \in [Creators -> RankCount]
    BY <1>0 DEF TypeOK, Who, EntriesOf, AllParts
<1>3. Sum(u)' = Sum(u)
    BY <1>1, LedgerStays
<1>4. req[q].sum = SeenTotal(req[q].seen)
    BY DEF ViewInv, SaveTotal, SaveOwner
<1>5. CASE u = Who(q)
  <2>1. ASSUME u \notin spoilt' PROVE total'[u] = Sum(u) /\ badge'[u] = BadgeOf(Sum(u))
    <3>1. req[q].seen = Seen(u)
        BY <1>5, <2>1 DEF SaveTotal, SaveOwner, Spoils
    <3>2. req[q].sum = Sum(u)
        BY <1>4, <3>1, SeenNow
    <3>3. CASE SaveTotal(q)
        BY <1>2, <1>5, <3>2, <3>3 DEF SaveTotal, SaveUser
    <3>4. CASE SaveOwner(q)
      <4>1. req[q].total = total[u] /\ req[q].badge = badge[u]
          BY <1>5, <2>1, <3>4 DEF SaveOwner, Spoils
      <4>2. /\ total' = IF req[q].sum = req[q].total THEN total ELSE [total EXCEPT ![u] = req[q].sum]
            /\ badge' = IF BadgeOf(req[q].sum) = req[q].badge THEN badge
                        ELSE [badge EXCEPT ![u] = BadgeOf(req[q].sum)]
          BY <1>5, <3>4 DEF SaveOwner
      <4>. QED BY <1>2, <3>2, <4>1, <4>2
    <3>. QED BY <3>3, <3>4
  <2>. QED BY <1>3, <2>1 DEF Saves
<1>6. CASE u # Who(q)
  <2>1. total'[u] = total[u] /\ badge'[u] = badge[u]
      BY <1>2, <1>6 DEF SaveTotal, SaveOwner, SaveUser
  <2>2. u \notin spoilt' => u \notin spoilt
      BY <1>6 DEF SaveTotal, SaveOwner, Spoils
  <2>3. \E x : Sets(q, x)
    <3>1. Go(q, "tell") \/ Finish(q)
        BY DEF SaveTotal, SaveOwner
    <3>. QED BY <1>0, <3>1, ReqEffects
  <2>4. Settling(u) => Settling(u)'
      BY <1>1, <1>6, <2>3, ReqSettles
  <2>. QED BY <1>3, <2>1, <2>2, <2>4 DEF Keeps
<1>. QED BY <1>5, <1>6

\* A cron that saves.
LEMMA CronSaves ==
    ASSUME TypeOK, ViewInv, NEW e \in Expirers, SaveExpired(e), NEW u \in Creators
    PROVE  Saves(u) \/ Keeps(u)
<1> DEFINE w == expirer[e].who
<1>0. expirer \in [Expirers -> ShiftsOf(Views, DOMAIN grant)]
    BY DEF TypeOK, ShiftsOf
<1>1. grant' = grant /\ req' = req
    BY DEF SaveExpired, expirerOnly
<1>2. w \in Creators /\ total \in [Creators -> Nat] /\ badge \in [Creators -> RankCount]
    BY <1>0 DEF TypeOK, ShiftsOf
<1>3. Sum(u)' = Sum(u)
    BY <1>1, LedgerStays
<1>4. expirer[e].sum = SeenTotal(expirer[e].seen)
    BY DEF ViewInv, SaveExpired
<1>5. /\ total' = [total EXCEPT ![w] = expirer[e].sum]
      /\ badge' = [badge EXCEPT ![w] = BadgeOf(expirer[e].sum)]
      /\ Spoils(w, expirer[e].seen # Seen(w))
    BY DEF SaveExpired, SaveUser
<1>6. PICK todo : /\ todo = expirer[e].todo \ {w}
                  /\ \/ todo = {} /\ Shifts(e, Shift("idle", {}, {}, AnyPart[2], 0, <<>>))
                     \/ todo # {} /\ Shifts(e, Shift("users", expirer[e].rows, todo, w,
                                                     expirer[e].sum, expirer[e].seen))
    BY <1>0, CronEffects
<1>. HIDE DEF w
<1>7. CASE u = w
  <2>1. ASSUME u \notin spoilt' PROVE total'[u] = Sum(u) /\ badge'[u] = BadgeOf(Sum(u))
    <3>1. expirer[e].seen = Seen(u)
        BY <1>5, <1>7, <2>1 DEF Spoils
    <3>2. expirer[e].sum = Sum(u)
        BY <1>4, <3>1, SeenNow
    <3>. QED BY <1>2, <1>5, <1>7, <3>2
  <2>. QED BY <1>3, <2>1 DEF Saves
<1>8. CASE u # w
  <2>1. total'[u] = total[u] /\ badge'[u] = badge[u] /\ (u \notin spoilt' => u \notin spoilt)
      BY <1>2, <1>5, <1>8 DEF Spoils
  <2>2. \E x : /\ Shifts(e, x)
               /\ Recomputing(e) /\ u \in expirer[e].todo => x.pc \in {"users", "save"} /\ u \in x.todo
      BY <1>6, <1>8 DEF Shift
  <2>3. Settling(u) => Settling(u)'
      BY <1>1, <2>2, CronSettles
  <2>. QED BY <1>3, <2>1, <2>3 DEF Keeps
<1>. QED BY <1>7, <1>8
\* A crash spoils the columns it leaves behind.
LEMMA CrashSpoils ==
    ASSUME TypeOK, CrashTokens, NEW u \in Creators
    PROVE  Keeps(u)
<1>0. /\ req \in [Requests -> EntriesOf(Views)]
      /\ expirer \in [Expirers -> ShiftsOf(Views, DOMAIN grant)]
    BY DEF TypeOK, EntriesOf, ShiftsOf
<1>1. grant' = grant /\ total' = total /\ badge' = badge
    BY DEF CrashTokens
<1>2. Sum(u)' = Sum(u)
    BY <1>1, LedgerStays
<1>3. ASSUME NEW q \in Requests, Finish(q), expirer' = expirer,
             spoilt' = IF Updating(q) THEN spoilt \cup {Who(q)} ELSE spoilt, u \notin spoilt'
      PROVE  u \notin spoilt /\ (Settling(u) => Settling(u)')
  <2>1. Sets(q, Entry("idle", AnyPart, 0, <<>>, 0, 0))
      BY <1>0, <1>3, ReqEffects
  <2>2. ~(Updating(q) /\ Who(q) = u) /\ u \notin spoilt
      BY <1>3
  <2>. QED BY <1>3, <2>1, <2>2, ReqSettles
<1>4. ASSUME NEW e \in Expirers, expirer' = [expirer EXCEPT ![e] = IdleExpirer], req' = req,
             spoilt' = IF Recomputing(e) THEN spoilt \cup expirer[e].todo ELSE spoilt, u \notin spoilt'
      PROVE  u \notin spoilt /\ (Settling(u) => Settling(u)')
  <2>1. Shifts(e, IdleExpirer)
      BY <1>0, <1>4 DEF Shifts
  <2>2. ~(Recomputing(e) /\ u \in expirer[e].todo) /\ u \notin spoilt
      BY <1>4
  <2>. QED BY <1>4, <2>1, <2>2, CronSettles
<1>5. u \notin spoilt' => u \notin spoilt /\ (Settling(u) => Settling(u)')
    BY <1>3, <1>4 DEF CrashTokens
<1>. QED BY <1>1, <1>2, <1>5 DEF Keeps

\* Every other step of a request leaves what it has in hand in hand.
LEMMA ReqGoesOn ==
    ASSUME TypeOK, NEW q \in Requests, NEW u \in Creators,
           Requested(q) \/ Submit(q) \/ SumUp(q) \/ ReadUser(q) \/ Tell(q) \/ Vouch(q) \/ SumOwner(q)
    PROVE  Keeps(u)
<1>0. req \in [Requests -> EntriesOf(Views)]
    BY DEF TypeOK, EntriesOf
<1>1. grant' = grant /\ total' = total /\ badge' = badge /\ spoilt' = spoilt /\ expirer' = expirer
    BY DEF Requested, LookUp, Accept, Submit, SumUp, ReadUser, Tell, Vouch, SumOwner, ledger, crons
<1>2. Sum(u)' = Sum(u)
    BY <1>1, LedgerStays
<1>3. CASE ~Updating(q)
  <2>1. \/ \E pc : Go(q, pc)
        \/ \E p, pc : Begin(q, p, pc)
        \/ Finish(q) \/ SumUp(q) \/ SumOwner(q) \/ ReadUser(q) \/ Vouch(q)
      BY DEF Requested, LookUp, Accept, Submit, Tell
  <2>2. \E x : Sets(q, x)
    <3>1. CASE \E pc : Go(q, pc)
        BY <1>0, <3>1, ReqEffects
    <3>2. CASE \E p, pc : Begin(q, p, pc)
        BY <1>0, <3>2, ReqEffects
    <3>3. CASE Finish(q) \/ SumUp(q) \/ SumOwner(q) \/ ReadUser(q) \/ Vouch(q)
        BY <1>0, <3>3, ReqEffects
    <3>. QED BY <2>1, <3>1, <3>2, <3>3
  <2>3. Settling(u) => Settling(u)'
      BY <1>1, <1>3, <2>2, ReqSettles
  <2>. QED BY <1>1, <1>2, <2>3 DEF Keeps
<1>4. CASE Updating(q)
  <2>1. SumUp(q) \/ ReadUser(q) \/ SumOwner(q)
      BY <1>4 DEF Requested, LookUp, Accept, Submit, Tell, Vouch, Updating
  <2>2. \E x : Sets(q, x) /\ x.pc \in InHand /\ x.p[2] = Who(q)
    <3>1. CASE SumUp(q)
      <4> DEFINE x == Entry("user", req[q].p, Sum(Who(q)), Seen(Who(q)), req[q].total, req[q].badge)
      <4>1. Sets(q, x)
          BY <1>0, <3>1, ReqEffects
      <4>2. x.pc \in InHand /\ x.p[2] = Who(q)
          BY DEF Entry, InHand, Who
      <4>. QED BY <4>1, <4>2
    <3>2. CASE ReadUser(q)
      <4> DEFINE x == Entry("save", req[q].p, req[q].sum, req[q].seen, req[q].total, badge[Who(q)])
      <4>1. Sets(q, x)
          BY <1>0, <3>2, ReqEffects
      <4>2. x.pc \in InHand /\ x.p[2] = Who(q)
          BY DEF Entry, InHand, Who
      <4>. QED BY <4>1, <4>2
    <3>3. CASE SumOwner(q)
      <4> DEFINE x == Entry("ownsave", req[q].p, Sum(Who(q)), Seen(Who(q)), req[q].total, req[q].badge)
      <4>1. Sets(q, x)
          BY <1>0, <3>3, ReqEffects
      <4>2. x.pc \in InHand /\ x.p[2] = Who(q)
          BY DEF Entry, InHand, Who
      <4>. QED BY <4>1, <4>2
    <3>. QED BY <2>1, <3>1, <3>2, <3>3
  <2>3. Settling(u) => Settling(u)'
      BY <1>1, <2>2, ReqSettles
  <2>. QED BY <1>1, <1>2, <2>3 DEF Keeps
<1>. QED BY <1>3, <1>4

\* So do the listing and the summing of a cron, and the steps of everybody else.
LEMMA CronGoesOn ==
    ASSUME TypeOK, NEW e \in Expirers, NEW u \in Creators,
           ListExpired(e) \/ \E w \in Creators : SumExpired(e, w)
    PROVE  Keeps(u)
<1>0. expirer \in [Expirers -> ShiftsOf(Views, DOMAIN grant)]
    BY DEF TypeOK, ShiftsOf
<1>1. grant' = grant /\ total' = total /\ badge' = badge /\ spoilt' = spoilt /\ req' = req
    BY DEF ListExpired, SumExpired, ledger, expirerOnly
<1>2. Sum(u)' = Sum(u)
    BY <1>1, LedgerStays
<1>3. \E x : /\ Shifts(e, x)
             /\ Recomputing(e) /\ u \in expirer[e].todo => x.pc \in {"users", "save"} /\ u \in x.todo
  <2>1. CASE ListExpired(e)
    <3>1. ~Recomputing(e)
        BY <2>1 DEF ListExpired, Recomputing
    <3>. QED BY <1>0, <2>1, <3>1, CronEffects
  <2>2. ASSUME NEW w \in Creators, SumExpired(e, w)
        PROVE  \E x : /\ Shifts(e, x)
                      /\ Recomputing(e) /\ u \in expirer[e].todo => x.pc \in {"users", "save"} /\ u \in x.todo
    <3> DEFINE x == Shift("save", expirer[e].rows, expirer[e].todo, w, Sum(w), Seen(w))
    <3>1. Shifts(e, x)
        BY <1>0, <2>2, CronEffects
    <3>2. x.pc = "save" /\ x.todo = expirer[e].todo
        BY DEF Shift
    <3>. QED BY <3>1, <3>2
  <2>. QED BY <2>1, <2>2
<1>4. Settling(u) => Settling(u)'
    BY <1>1, <1>3, CronSettles
<1>. QED BY <1>1, <1>2, <1>4 DEF Keeps

LEMMA OthersGoOn ==
    ASSUME NEW u \in Creators,
           \/ \E p \in AllParts : Participate(p) \/ Reject(p)
           \/ \E k \in Campaigns : TogglePause(k)
           \/ \E g \in DOMAIN grant : RowExpires(g)
           \/ UNCHANGED tokenVars
    PROVE  Keeps(u)
<1>1. /\ grant' = grant /\ total' = total /\ badge' = badge /\ spoilt' = spoilt
      /\ req' = req /\ expirer' = expirer
    BY DEF Participate, Reject, TogglePause, RowExpires, ledger, crons, expirerOnly, tokenVars
<1>2. Sum(u)' = Sum(u)
    BY <1>1, LedgerStays
<1>3. Settling(u)' <=> Settling(u)
    BY <1>1 DEF Settling, Updating, Recomputing, Who
<1>. QED BY <1>1, <1>2, <1>3 DEF Keeps

LEMMA ColumnSteps ==
    ASSUME TypeOK, ViewInv, [NextTokens]_tokenVars, NEW u \in Creators
    PROVE  Settling(u)' \/ Keeps(u) \/ Saves(u)
<1>1. ASSUME NEW q \in Requests, Grant(q) PROVE Settling(u)' \/ Keeps(u)
  <2>0. req \in [Requests -> EntriesOf(Views)]
      BY DEF TypeOK, EntriesOf
  <2>1. Booked(q, "link", "sum")
      BY <1>1, <2>0, Appended, ReqEffects DEF Grant, Booked
  <2>2. /\ req[q].pc \notin InHand /\ "sum" \in InHand /\ expirer' = expirer /\ total' = total
        /\ badge' = badge /\ spoilt' = spoilt
      BY <1>1 DEF Grant, InHand, crons
  <2>. QED BY <2>1, <2>2, RowSettles
<1>2. ASSUME NEW q \in Requests, Award(q) PROVE Settling(u)' \/ Keeps(u)
  <2>0. req \in [Requests -> EntriesOf(Views)]
      BY DEF TypeOK, EntriesOf
  <2>1. Booked(q, "admin", "ownsum")
      BY <1>2, <2>0, Appended, ReqEffects DEF Award, Booked
  <2>2. /\ req[q].pc \notin InHand /\ "ownsum" \in InHand /\ expirer' = expirer /\ total' = total
        /\ badge' = badge /\ spoilt' = spoilt
      BY <1>2 DEF Award, InHand, crons
  <2>. QED BY <2>1, <2>2, RowSettles
<1>3. ASSUME NEW q \in Requests, Requested(q) \/ GoOn(q) PROVE Settling(u)' \/ Keeps(u) \/ Saves(u)
    BY <1>1, <1>2, <1>3, ReqGoesOn, ReqSaves DEF GoOn
<1>4. ASSUME NEW e \in Expirers, ExpirerStep(e) PROVE Settling(u)' \/ Keeps(u) \/ Saves(u)
    BY <1>4, MarkSettles, CronGoesOn, CronSaves DEF ExpirerStep
<1>. QED BY <1>3, <1>4, OthersGoOn, CrashSpoils DEF NextTokens

LEMMA TotalsStep ==
    ASSUME TypeOK, ViewInv, TotalsAddUp, [NextTokens]_tokenVars
    PROVE  TotalsAddUp'
<1>1. ASSUME NEW u \in Creators, u \notin spoilt', ~Settling(u)'
      PROVE  total'[u] = Sum(u)' /\ badge'[u] = BadgeOf(Sum(u)')
  <2>1. CASE Keeps(u)
    <3>1. u \notin spoilt /\ ~Settling(u)
        BY <1>1, <2>1 DEF Keeps
    <3>2. total[u] = Sum(u) /\ badge[u] = BadgeOf(Sum(u))
        BY <3>1 DEF TotalsAddUp
    <3>. QED BY <2>1, <3>2 DEF Keeps
  <2>2. CASE Saves(u)
      BY <1>1, <2>2 DEF Saves
  <2>. QED BY <1>1, <2>1, <2>2, ColumnSteps
<1>. QED BY <1>1 DEF TotalsAddUp

-----------------------------------------------------------------------------
(* The badges.                                                             *)

\* The creator u has been told of the badge b or of a higher one, or is about to be.
Announced(u, b) ==
    \/ killed > 0
    \/ \E c \in badgeTold[u] : c >= b
    \/ \E q \in Requests : req[q].pc = "tell" /\ Who(q) = u /\ BadgeOf(req[q].sum) >= b

\* A creator's badge has been announced, and so has the copy of it that a request took.
BadgeInv ==
    /\ \A u \in Creators \ silent : badge[u] > 0 => Announced(u, badge[u])
    /\ \A q \in Requests : req[q].pc = "save" /\ Who(q) \notin silent /\ req[q].badge > 0 =>
         Announced(Who(q), req[q].badge)

\* The same after the step.
Announcing(u, b) ==
    \/ killed' > 0
    \/ \E c \in badgeTold'[u] : c >= b
    \/ \E q \in Requests : req'[q].pc = "tell" /\ Who(q)' = u /\ BadgeOf(req'[q].sum) >= b

\* One request moves at a time.
LEMMA OneMoves ==
    ASSUME TypeOK, [NextTokens]_tokenVars, NEW q \in Requests, req'[q] # req[q], ~CrashTokens
    PROVE  Requested(q) \/ GoOn(q)
<1>0. req \in [Requests -> EntriesOf(Views)]
    BY DEF TypeOK, EntriesOf
<1>1. ASSUME NEW r \in Requests, Requested(r) \/ GoOn(r) PROVE q = r
  <2>1. \E x : Sets(r, x)
    <3>1. \/ \E pc : Go(r, pc)
          \/ \E p, pc : Begin(r, p, pc)
          \/ Finish(r) \/ SumUp(r) \/ SumOwner(r) \/ ReadUser(r) \/ Vouch(r)
        BY <1>1 DEF Requested, GoOn, LookUp, Accept, Submit, Grant, SaveTotal, Tell, Award, SaveOwner
    <3>2. CASE \E pc : Go(r, pc)
        BY <1>0, <3>2, ReqEffects
    <3>3. CASE \E p, pc : Begin(r, p, pc)
        BY <1>0, <3>3, ReqEffects
    <3>4. CASE Finish(r) \/ SumUp(r) \/ SumOwner(r) \/ ReadUser(r) \/ Vouch(r)
        BY <1>0, <3>4, ReqEffects
    <3>. QED BY <3>1, <3>2, <3>3, <3>4
  <2>. QED BY <2>1 DEF Sets
<1>2. ASSUME \/ \E e \in Expirers : ExpirerStep(e)
             \/ \E p \in AllParts : Participate(p) \/ Reject(p)
             \/ \E k \in Campaigns : TogglePause(k)
             \/ \E g \in DOMAIN grant : RowExpires(g)
             \/ UNCHANGED tokenVars
      PROVE  req' = req
    BY <1>2 DEF ExpirerStep, ListExpired, Mark, SumExpired, SaveExpired, Participate, Reject,
                TogglePause, RowExpires, expirerOnly, tokenVars
<1>3. \E r \in Requests : Requested(r) \/ GoOn(r)
    BY <1>2 DEF NextTokens
<1>. QED BY <1>1, <1>3

\* What has been said is never taken back.
LEMMA TellingGrows ==
    ASSUME TypeOK, [NextTokens]_tokenVars
    PROVE  /\ killed' >= killed /\ silent \subseteq silent'
           /\ \A u \in Creators : badgeTold[u] \subseteq badgeTold'[u]
           /\ CrashTokens => killed' > 0
<1>0. /\ killed \in Nat /\ badgeTold \in [Creators -> SUBSET RankCount]
      /\ \A q \in Requests : Who(q) \in Creators
    BY DEF TypeOK, Who, AllParts
<1>1. CASE CrashTokens
    BY <1>0, <1>1 DEF CrashTokens
<1>2. ASSUME NEW q \in Requests, Requested(q) \/ GoOn(q)
      PROVE  killed' = killed /\ silent \subseteq silent'
    BY <1>2 DEF Requested, GoOn, LookUp, Accept, Submit, Grant, SumUp, ReadUser, SaveTotal, Tell,
                Vouch, Award, SumOwner, SaveOwner, ledger, crons
<1>3. ASSUME NEW q \in Requests, Requested(q) \/ GoOn(q), ~Tell(q)
      PROVE  badgeTold' = badgeTold
    BY <1>3 DEF Requested, GoOn, LookUp, Accept, Submit, Grant, SumUp, ReadUser, SaveTotal,
                Vouch, Award, SumOwner, SaveOwner, ledger, crons
<1>4. ASSUME NEW q \in Requests, Tell(q)
      PROVE  \A u \in Creators : badgeTold[u] \subseteq badgeTold'[u]
    BY <1>0, <1>4 DEF Tell
<1>5. ASSUME NEW e \in Expirers, ExpirerStep(e)
      PROVE  killed' = killed /\ silent \subseteq silent' /\ badgeTold' = badgeTold
    BY <1>5 DEF ExpirerStep, ListExpired, Mark, SumExpired, SaveExpired, ledger, expirerOnly
<1>6. ASSUME \/ \E p \in AllParts : Participate(p) \/ Reject(p)
             \/ \E k \in Campaigns : TogglePause(k)
             \/ \E g \in DOMAIN grant : RowExpires(g)
             \/ UNCHANGED tokenVars
      PROVE  killed' = killed /\ silent' = silent /\ badgeTold' = badgeTold
    BY <1>6 DEF Participate, Reject, TogglePause, RowExpires, ledger, crons, expirerOnly, tokenVars
<1>7. CASE ~CrashTokens
  <2>1. killed' = killed /\ silent \subseteq silent'
      BY <1>2, <1>5, <1>6, <1>7 DEF NextTokens
  <2>2. \A u \in Creators : badgeTold[u] \subseteq badgeTold'[u]
      BY <1>3, <1>4, <1>5, <1>6, <1>7 DEF NextTokens
  <2>. QED BY <1>0, <1>7, <2>1, <2>2
<1>. QED BY <1>1, <1>7

LEMMA AnnouncedStays ==
    ASSUME TypeOK, [NextTokens]_tokenVars, NEW u \in Creators, NEW b, Announced(u, b)
    PROVE  Announcing(u, b)
<1>0. /\ killed \in Nat /\ req \in [Requests -> EntriesOf(Views)]
      /\ badgeTold \in [Creators -> SUBSET RankCount]
    BY DEF TypeOK, EntriesOf
<1>1. /\ killed' >= killed /\ badgeTold[u] \subseteq badgeTold'[u] /\ (CrashTokens => killed' > 0)
    BY TellingGrows
<1>2. CASE killed > 0
  <2>1. killed' > 0
      BY <1>0, <1>1, <1>2, TokensTypeStep DEF TypeOK
  <2>. QED BY <2>1 DEF Announcing
<1>3. CASE \E c \in badgeTold[u] : c >= b
    BY <1>1, <1>3 DEF Announcing
<1>4. ASSUME NEW q \in Requests, req[q].pc = "tell", Who(q) = u, BadgeOf(req[q].sum) >= b
      PROVE  Announcing(u, b)
  <2>1. CASE req'[q] = req[q]
    <3>1. Who(q)' = u
        BY <1>4, <2>1 DEF Who
    <3>. QED BY <1>4, <2>1, <3>1 DEF Announcing
  <2>2. CASE CrashTokens
      BY <1>1, <2>2 DEF Announcing
  <2>3. CASE req'[q] # req[q] /\ ~CrashTokens
    <3>1. Requested(q) \/ GoOn(q)
        BY <2>3, OneMoves
    <3>2. Tell(q)
        BY <1>4, <3>1 DEF Requested, GoOn, LookUp, Accept, Submit, Grant, SumUp, ReadUser, SaveTotal,
                          Vouch, Award, SumOwner, SaveOwner
    <3>3. BadgeOf(req[q].sum) \in badgeTold'[u]
        BY <1>0, <1>4, <3>2 DEF Tell
    <3>. QED BY <1>4, <3>3 DEF Announcing
  <2>. QED BY <2>1, <2>2, <2>3
<1>. QED BY <1>2, <1>3, <1>4 DEF Announced

\* Who has been told of a badge has been told of a lower one.
LEMMA LowerToo ==
    ASSUME TypeOK, NEW u \in Creators, NEW a \in Nat, NEW b \in Nat, a <= b, Announced(u, b)
    PROVE  Announced(u, a)
<1>1. badgeTold[u] \subseteq Nat /\ \A n : BadgeOf(n) \in Nat
    BY Badges DEF TypeOK
<1>. QED BY <1>1 DEF Announced

\* How a badge comes about.
LEMMA BadgeSteps ==
    ASSUME TypeOK, [NextTokens]_tokenVars, NEW u \in Creators
    PROVE  \/ badge'[u] = badge[u]
           \/ u \in silent'
           \/ badge'[u] < badge[u]
           \/ \E q \in Requests : SaveTotal(q) /\ Who(q) = u /\ badge'[u] = BadgeOf(req[q].sum)
<1> DEFINE Goal == \/ badge'[u] = badge[u]
                   \/ u \in silent'
                   \/ badge'[u] < badge[u]
                   \/ \E q \in Requests : SaveTotal(q) /\ Who(q) = u /\ badge'[u] = BadgeOf(req[q].sum)
<1>0. badge \in [Creators -> RankCount] /\ badge' \in [Creators -> RankCount]
    BY TokensTypeStep DEF TypeOK
<1>1. badge[u] \in Nat /\ badge'[u] \in Nat
    BY <1>0, Badges
<1>2. ASSUME NEW q \in Requests, SaveTotal(q) PROVE Goal
  <2>1. badge' = [badge EXCEPT ![Who(q)] = BadgeOf(req[q].sum)]
      BY <1>2 DEF SaveTotal, SaveUser
  <2>. QED BY <1>0, <1>2, <2>1
<1>3. ASSUME NEW q \in Requests, SaveOwner(q) PROVE Goal
  <2>1. /\ badge' = IF BadgeOf(req[q].sum) = req[q].badge THEN badge
                    ELSE [badge EXCEPT ![Who(q)] = BadgeOf(req[q].sum)]
        /\ silent' = IF badge'[Who(q)] > badge[Who(q)] THEN silent \cup {Who(q)} ELSE silent
      BY <1>3 DEF SaveOwner
  <2>. QED BY <1>0, <1>1, <2>1
<1>4. ASSUME NEW e \in Expirers, SaveExpired(e) PROVE Goal
  <2> DEFINE w == expirer[e].who
  <2>1. /\ badge' = [badge EXCEPT ![w] = BadgeOf(expirer[e].sum)]
        /\ silent' = IF badge'[w] > badge[w] THEN silent \cup {w} ELSE silent
      BY <1>4 DEF SaveExpired, SaveUser
  <2>. HIDE DEF w
  <2>. QED BY <1>0, <1>1, <2>1
<1>5. ASSUME NEW q \in Requests, Requested(q) \/ GoOn(q), ~SaveTotal(q), ~SaveOwner(q)
      PROVE  badge' = badge
    BY <1>5 DEF Requested, GoOn, LookUp, Accept, Submit, Grant, SumUp, ReadUser, Tell, Vouch, Award,
                SumOwner, ledger
<1>6. ASSUME NEW e \in Expirers, ExpirerStep(e), ~SaveExpired(e) PROVE badge' = badge
    BY <1>6 DEF ExpirerStep, ListExpired, Mark, SumExpired, ledger
<1>7. ASSUME \/ \E p \in AllParts : Participate(p) \/ Reject(p)
             \/ \E k \in Campaigns : TogglePause(k)
             \/ \E g \in DOMAIN grant : RowExpires(g)
             \/ CrashTokens \/ UNCHANGED tokenVars
      PROVE  badge' = badge
    BY <1>7 DEF Participate, Reject, TogglePause, RowExpires, CrashTokens, ledger, tokenVars
<1>. QED BY <1>2, <1>3, <1>4, <1>5, <1>6, <1>7 DEF NextTokens

LEMMA BadgeStep ==
    ASSUME TypeOK, BadgeInv, [NextTokens]_tokenVars
    PROVE  BadgeInv'
<1>0. /\ req \in [Requests -> EntriesOf(Views)] /\ silent \subseteq silent'
      /\ \A q \in Requests : Who(q) \in Creators
    BY TellingGrows DEF TypeOK, EntriesOf, Who, AllParts
<1>1. /\ \A u \in Creators : badge[u] \in Nat /\ badge'[u] \in Nat
      /\ \A q \in Requests : req[q].badge \in Nat
      /\ \A n : BadgeOf(n) \in Nat
    BY Badges, TokensTypeStep DEF TypeOK
<1>2. ASSUME NEW u \in Creators, u \notin silent', badge'[u] > 0
      PROVE  Announcing(u, badge'[u])
  <2> DEFINE b == badge'[u]
  <2>0. b \in Nat /\ b > 0 /\ u \notin silent
      BY <1>0, <1>1, <1>2
  <2>1. CASE b = badge[u]
    <3>1. Announced(u, badge[u])
        BY <2>0, <2>1 DEF BadgeInv
    <3>. PICK c : c = badge[u]
        OBVIOUS
    <3>2. Announcing(u, c)
        BY <3>1, AnnouncedStays
    <3>. QED BY <2>1, <3>2
  <2>2. CASE b < badge[u]
    <3>. PICK c \in Nat : c = badge'[u]
        BY <1>1
    <3>1. Announced(u, badge[u])
        BY <1>1, <2>0, <2>2 DEF BadgeInv
    <3>2. c <= badge[u]
        BY <1>1, <2>2
    <3>3. Announced(u, c)
        BY <1>1, <3>1, <3>2, LowerToo
    <3>4. Announcing(u, c)
        BY <3>3, AnnouncedStays
    <3>. QED BY <3>4
  <2>3. ASSUME NEW q \in Requests, SaveTotal(q), Who(q) = u, b = BadgeOf(req[q].sum)
        PROVE  Announcing(u, badge'[u])
    <3>. PICK c \in Nat : c = badge'[u]
        BY <1>1
    <3>1. CASE b = req[q].badge
      <4>1. Announced(u, req[q].badge)
          BY <2>0, <2>3, <3>1 DEF BadgeInv, SaveTotal
      <4>2. Announced(u, c)
          BY <3>1, <4>1
      <4>3. Announcing(u, c)
          BY <4>2, AnnouncedStays
      <4>. QED BY <4>3
    <3>2. CASE b # req[q].badge
      <4>1. Go(q, "tell")
          BY <2>0, <2>3, <3>2 DEF SaveTotal
      <4>2. Sets(q, Entry("tell", req[q].p, req[q].sum, req[q].seen, req[q].total, req[q].badge))
          BY <1>0, <4>1, ReqEffects
      <4>3. req'[q].pc = "tell" /\ req'[q].sum = req[q].sum /\ req'[q].p = req[q].p
          BY <4>2 DEF Sets, Entry
      <4>4. Who(q)' = u
          BY <2>3, <4>3 DEF Who
      <4>5. c = BadgeOf(req'[q].sum) /\ c >= c
          BY <2>3, <4>3
      <4>6. Announcing(u, c)
          BY <4>3, <4>4, <4>5 DEF Announcing
      <4>. QED BY <4>6
    <3>. QED BY <3>1, <3>2
  <2>. QED BY <1>2, <2>1, <2>2, <2>3, BadgeSteps
<1>3. ASSUME NEW q \in Requests, req'[q].pc = "save", Who(q)' \notin silent', req'[q].badge > 0
      PROVE  Announcing(Who(q)', req'[q].badge)
  <2>1. CASE req'[q] = req[q]
    <3>1. Who(q)' = Who(q)
        BY <2>1 DEF Who
    <3>2. Announced(Who(q), req[q].badge)
        BY <1>0, <1>3, <2>1, <3>1 DEF BadgeInv
    <3>. PICK u \in Creators : u = Who(q)
        BY <1>0
    <3>. PICK c : c = req[q].badge
        OBVIOUS
    <3>3. Announcing(u, c)
        BY <3>2, AnnouncedStays
    <3>. QED BY <2>1, <3>1, <3>3
  <2>2. CASE CrashTokens /\ req'[q] # req[q]
    <3>1. killed' > 0
        BY <2>2, TellingGrows
    <3>. QED BY <3>1 DEF Announcing
  <2>3. CASE req'[q] # req[q] /\ ~CrashTokens
    <3>1. Requested(q) \/ GoOn(q)
        BY <2>3, OneMoves
    <3>2. ReadUser(q)
      <4>1. ASSUME NEW x, Sets(q, x) PROVE x.pc = "save"
          BY <1>3, <4>1 DEF Sets
      <4>2. \A pc \in ReqPc \ {"save"} : ~Go(q, pc)
        <5>1. ASSUME NEW pc \in ReqPc \ {"save"}, Go(q, pc) PROVE FALSE
          <6>1. Sets(q, Entry(pc, req[q].p, req[q].sum, req[q].seen, req[q].total, req[q].badge))
              BY <1>0, <5>1, ReqEffects
          <6>. QED BY <4>1, <6>1 DEF Entry
        <5>. QED BY <5>1
      <4>3. \A p \in AllParts, pc \in ReqPc \ {"save"} : ~Begin(q, p, pc)
        <5>1. ASSUME NEW p \in AllParts, NEW pc \in ReqPc \ {"save"}, Begin(q, p, pc) PROVE FALSE
          <6>1. Sets(q, Entry(pc, p, 0, <<>>, 0, 0))
              BY <1>0, <5>1, ReqEffects
          <6>. QED BY <4>1, <6>1 DEF Entry
        <5>. QED BY <5>1
      <4>4. ~Finish(q) /\ ~SumUp(q) /\ ~SumOwner(q) /\ ~Vouch(q)
        <5>1. ASSUME Finish(q) PROVE FALSE
          <6>1. Sets(q, Entry("idle", AnyPart, 0, <<>>, 0, 0))
              BY <1>0, <5>1, ReqEffects
          <6>. QED BY <4>1, <6>1 DEF Entry
        <5>2. ASSUME SumUp(q) PROVE FALSE
          <6>1. Sets(q, Entry("user", req[q].p, Sum(Who(q)), Seen(Who(q)), req[q].total, req[q].badge))
              BY <1>0, <5>2, ReqEffects
          <6>. QED BY <4>1, <6>1 DEF Entry
        <5>3. ASSUME SumOwner(q) PROVE FALSE
          <6>1. Sets(q, Entry("ownsave", req[q].p, Sum(Who(q)), Seen(Who(q)), req[q].total, req[q].badge))
              BY <1>0, <5>3, ReqEffects
          <6>. QED BY <4>1, <6>1 DEF Entry
        <5>4. ASSUME Vouch(q) PROVE FALSE
          <6>1. Sets(q, Entry("award", req[q].p, req[q].sum, req[q].seen, total[Who(q)], badge[Who(q)]))
              BY <1>0, <5>4, ReqEffects
          <6>. QED BY <4>1, <6>1 DEF Entry
        <5>. QED BY <5>1, <5>2, <5>3, <5>4
      <4>5. \/ \E pc \in ReqPc \ {"save"} : Go(q, pc)
            \/ \E p \in AllParts, pc \in ReqPc \ {"save"} : Begin(q, p, pc)
            \/ Finish(q) \/ SumUp(q) \/ SumOwner(q) \/ ReadUser(q) \/ Vouch(q)
          BY <3>1 DEF Requested, GoOn, LookUp, Accept, Submit, Grant, SaveTotal, Tell, Award, SaveOwner,
                      ReqPc
      <4>. QED BY <4>2, <4>3, <4>4, <4>5
    <3>3. Sets(q, Entry("save", req[q].p, req[q].sum, req[q].seen, req[q].total, badge[Who(q)]))
        BY <1>0, <3>2, ReqEffects
    <3>4. req'[q].p = req[q].p /\ req'[q].badge = badge[Who(q)]
        BY <3>3 DEF Sets, Entry
    <3>5. Who(q)' = Who(q)
        BY <3>4 DEF Who
    <3>6. Announced(Who(q), badge[Who(q)])
        BY <1>0, <1>3, <3>4, <3>5 DEF BadgeInv
    <3>. PICK u \in Creators : u = Who(q)
        BY <1>0
    <3>. PICK c : c = badge[Who(q)]
        OBVIOUS
    <3>7. Announcing(u, c)
        BY <3>6, AnnouncedStays
    <3>. QED BY <3>4, <3>5, <3>7
  <2>. QED BY <2>1, <2>2, <2>3
<1>. QED BY <1>2, <1>3 DEF BadgeInv, Announced, Announcing

-----------------------------------------------------------------------------
(* What holds in every reachable state.                                    *)

TokensInv == TypeOK /\ LinkInv /\ ViewInv /\ TotalsAddUp /\ BadgeInv

LEMMA TokensStart == InitTokens => TokensInv
<1>. SUFFICES ASSUME InitTokens PROVE TokensInv
    OBVIOUS
<1>1. TypeOK
    BY TokensTypeStart
<1>2. \A q \in Requests : req[q].pc = "idle" /\ req[q].badge = 0
    BY DEF InitTokens, Idle
<1>3. \A e \in Expirers : expirer[e].pc = "idle"
    BY DEF InitTokens, IdleExpirer
<1>4. DOMAIN grant = {}
    BY EmptySeq, LenProperties DEF InitTokens
<1>5. LinkInv
    BY <1>2, <1>4 DEF LinkInv, InitTokens, LinkRows, Granting, Submitting
<1>6. ViewInv
    BY <1>2, <1>3 DEF ViewInv
<1>7. TotalsAddUp
  <2>. SUFFICES ASSUME NEW u \in Creators PROVE total[u] = Sum(u) /\ badge[u] = BadgeOf(Sum(u))
      BY DEF TotalsAddUp
  <2>1. {g \in RowsOf(u) : grant[g].live} = {}
      BY <1>4 DEF RowsOf
  <2>2. Sum(u) = 0
      BY <2>1, SumIs, SumEmpty
  <2>3. {r \in Ranks : r <= 0} = {}
    <3>1. \A r \in Ranks : r \in Nat /\ r # 0
        BY TokenBounds
    <3>2. \A r \in Nat : r # 0 => ~(r <= 0)
        OBVIOUS
    <3>. QED BY <3>1, <3>2
  <2>4. BadgeOf(0) = 0
      BY <2>3, FS_EmptySet DEF BadgeOf
  <2>. QED BY <2>2, <2>4 DEF InitTokens
<1>8. BadgeInv
    BY <1>2 DEF BadgeInv, InitTokens
<1>. QED BY <1>1, <1>5, <1>6, <1>7, <1>8 DEF TokensInv

LEMMA TokensStep == TokensInv /\ [NextTokens]_tokenVars => TokensInv'
BY TokensTypeStep, LinkStep, ViewStep, TotalsStep, BadgeStep DEF TokensInv

\* The inductive invariant holds in every state that requests, crons and crashes can reach.
THEOREM TokensInductive == SpecTokens => []TokensInv
BY TokensStart, TokensStep, PTL DEF SpecTokens

\* The token service keeps every variable within its type, for any ledger.
THEOREM TokensTyped == SpecTokens => []TypeOK
BY TokensInductive, PTL DEF TokensInv

\* A live link is paid once, for any number of requests of creators and staff, unless two
\* of them were submitting it at the same time.
THEOREM LinkPaysOnceHolds == SpecTokens => []LinkPaysOnce
<1>1. TokensInv => LinkPaysOnce
  <2>. SUFFICES ASSUME TokensInv, NEW p \in AllParts, p \notin doubled
                PROVE  Cardinality(LinkRows(p)) <= 1
      BY DEF LinkPaysOnce
  <2>1. \A g, h \in LinkRows(p) : g = h
      BY DEF TokensInv, LinkInv
  <2>2. CASE LinkRows(p) = {}
      BY <2>2, FS_EmptySet
  <2>3. ASSUME NEW g \in LinkRows(p) PROVE Cardinality(LinkRows(p)) <= 1
    <3>1. LinkRows(p) = {g}
        BY <2>1
    <3>2. Cardinality({g}) = 1
        BY FS_Singleton
    <3>. QED BY <3>1, <3>2
  <2>. QED BY <2>2, <2>3
<1>. QED BY TokensInductive, <1>1, PTL

\* The columns of a creator whom nobody is working on are those his live rows earn, for
\* any interleaving of requests and crons, save where a writer was outdated or killed.
THEOREM TotalsHold == SpecTokens => []TotalsAddUp
BY TokensInductive, PTL DEF TokensInv

\* A badge that a link earned is announced, for any interleaving of requests and crons.
THEOREM BadgeHolds == SpecTokens => []BadgeWasTold
<1>1. TokensInv => BadgeWasTold
    BY DEF TokensInv, BadgeInv, Announced, BadgeWasTold
<1>. QED BY TokensInductive, <1>1, PTL
=============================================================================
