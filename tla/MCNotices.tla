----------------------------- MODULE MCNotices -----------------------------
(* Small instances of Tokens, whose badges are told, and of Notifications, for TLC.  They  *)
(* share no variable, so one run explores the two after each other.                        *)
EXTENDS Tokens, Notifications

CONSTANTS k1, u1, u2, q1, q2, e1, c1, c2

OneCampaign == {k1}
OneCreator == {u1}
TwoRequests == {q1, q2}
OneExpirer == {e1}
OneReward == {1}
OneRank == {2}

TwoCallers == {c1, c2}
TwoUsers == {u1, u2}

Of(entry, to, keyed, actor) == [entry |-> entry, to |-> to, keyed |-> keyed, actor |-> actor]
E(category, priority, mail) == [category |-> category, priority |-> priority, mail |-> mail]

\* A failed payout, which carries a dedupe key, and an event of a campaign, which carries none
\* and is told to all but who caused it.
SomeEvents == {
    Of(E("payments", "critical", TRUE), "users", TRUE, {}),
    Of(E("campaigns", "medium", TRUE), "users", FALSE, {u2})}

SomeSettings == {[u \in TwoUsers |-> IF u = u1 THEN {} ELSE {"emailNotifications", "pushNotifications"}]}

VARIABLE part       \* which of the two moves

Init ==
    /\ part \in {"tokens", "notifications"}
    /\ InitTokens /\ InitNotifications
    /\ part = "tokens" => event = CHOOSE e \in Events : TRUE

\* Bounds: a campaign is paused or a process killed, not both; the event without a key meets
\* no fault and no crash.
Next ==
    /\ UNCHANGED part
    /\ \/ part = "tokens" /\ NextTokens /\ (killed' > 0 => shut' = {})
          /\ UNCHANGED noticeVars
       \/ part = "notifications" /\ NextNotifications /\ (faults' + crashes' > 0 => event.keyed)
          /\ UNCHANGED tokenVars

\* Where a part does not move, no step of its crons, queue or dispatches is enabled.
FairSpec == Init /\ [][Next]_<<part, tokenVars, noticeVars>> /\ CronFires /\ CallsGoOn
=============================================================================
