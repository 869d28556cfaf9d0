------------------------------ MODULE MCPeople ------------------------------
(* Parts of the system that share no row with each other: accounts,        *)
(* connections, the figures of posts, profiles, commission tiers, lists    *)
(* that are read by pages, and dashboards.  One of them moves, so that     *)
(* their states add up where they would multiply.                          *)
EXTENDS Accounts, Socials, Metrics, Profiles, Settings, Books, Reports

CONSTANTS a1, a2, q1, q2, u1, u2, c1, c2, w1, f1

OfRows == {a1, a2}
OfRequests == {q1, q2}
OfProviders == {"google", "tiktok", "instagram", "facebook", "apple"}
OfUsers == {u1, u2}
OfCalls == {c1, c2}
OfPlatforms == {"facebook", "tiktok"}
OfCounts == {1500, 12000}
OfHandles == {"h1"}
OfPosts == {<<"s1", "instagram">>}
OfWorkers == {w1}
OfStaff == {f1}
OfInstants == <<0, 20, 24, 900>>
OfPeople == {u1, u2}
OfFullNames == {"Ada Obi", "Ada -"}
OfNamesAtFirst == [u \in OfPeople |-> IF u = u1 THEN "Ada Obi" ELSE "Ada -"]
OfHoldersNames == {"ADA OBI", "OTHER"}
OfContaining == [n \in OfFullNames |-> IF n = "Ada Obi" THEN {"ADA OBI"} ELSE OfHoldersNames]
OfNames == {"n1"}
OfCodes == {"b1", "b2"}
OfNumbers == {"m1", "m2"}
OfHolders == [account \in OfCodes \X OfNumbers |->
                IF account \in {<<"b1", "m1">>, <<"b2", "m2">>} THEN "ADA OBI" ELSE "OTHER"]
OfReviewed == {"k1", "k2"}
OfTeams == [k \in OfReviewed |-> {u1}]
OfStars == {1, 4}
OfEdits == {c1, c2}
OfTiers == {"t1", "t2"}
OfAdvertisers == {u1}
OfRates == {10, 20}
OfCalendar == <<<<2025, 12, 31>>, <<2026, 1, 31>>, <<2026, 2, 8>>>>
OfReaches == {<<0, 0>>, <<6000, 6000>>, <<150000, 0>>}
OfEntries == {
    [role |-> "creator", created |-> 1, updated |-> 3, login |-> 3, reach |-> <<6000, 6000>>,
     tier |-> 1, done |-> 4, country |-> "none"],
    [role |-> "creator", created |-> 1, updated |-> 1, login |-> 0, reach |-> <<0, 0>>,
     tier |-> 0, done |-> 1, country |-> "Ghana"],
    [role |-> "creator", created |-> 2, updated |-> 2, login |-> 2, reach |-> <<150000, 0>>,
     tier |-> 2, done |-> 5, country |-> "Nigeria"],
    [role |-> "brand", created |-> 2, updated |-> 2, login |-> 0, reach |-> <<0, 0>>,
     tier |-> 0, done |-> 2, country |-> "none"]}
OfBudgets == [k \in OfReviewed |-> IF k = "k1" THEN 10 ELSE 20]
OfCharges == [k \in OfReviewed |-> IF k = "k1" THEN 12 ELSE 23]
OfShares == [k \in OfReviewed |-> IF k = "k1" THEN 7 ELSE 20]
OfCreators == [k \in OfReviewed |-> IF k = "k1" THEN u1 ELSE u2]

VARIABLE part

Init ==
    /\ part \in {"names", "logins", "socials", "metrics", "profiles", "settings", "books",
                "reports"}
    /\ InitAccounts
    /\ InitSocials /\ minimum = 1500 /\ identity[u2] = NoHandle
    /\ part # "socials" => identity[u1] = NoHandle
    /\ InitMetrics /\ InitProfiles /\ InitSettings
    /\ InitBooks
    /\ part # "books" => view = View(CHOOSE l \in findAuditLogs : TRUE) /\ OnList = {}
    /\ InitReports
    /\ part # "reports" => desk = "users" /\ entry = <<>>
    /\ entry # <<>> => u1 \in DOMAIN entry
    /\ DOMAIN entry = OfPeople => entry[u1].done = 4
    /\ desk = "money" =>
         booked["k2"].status = "active" /\ dues["k2"].status \in {"none", "released"}

\* Three requests of a creator with Apple and Google, the third with Apple and after the others
\* have ended, or two of a brand with the others.  In "socials" and "profiles" the
\* third, too, comes after the others.
InPart ==
    \/ /\ part = "names"
       /\ \A q \in Requests : requests'[q].via \in {"none", "google", "apple"}
       /\ \A r \in Rows : users'[r].role # "brand"
       /\ calls' > calls /\ calls' = MaxCalls =>
            /\ requests = [q \in Requests |-> NoRequest]
            /\ \E q \in Requests : requests'[q].via = "apple"
    \/ /\ part = "logins" /\ calls' < MaxCalls
       /\ \A q \in Requests : requests'[q].via # "apple"
       /\ \A r \in Rows : users'[r].role # "creator"

Next ==
    \/ /\ part \in {"names", "logins"} /\ NextAccounts /\ InPart
       /\ UNCHANGED <<part, socialVars, metricsVars, profileVars, settingsVars, bookVars,
                      reportVars>>
    \/ /\ part = "socials" /\ NextSocials
       /\ begun' > begun /\ begun' = MaxRequests => request = [c \in Calls |-> NoCall]
       /\ UNCHANGED <<part, acctVars, metricsVars, profileVars, settingsVars, bookVars,
                      reportVars>>
    \/ /\ part = "metrics" /\ NextMetrics
       /\ UNCHANGED <<part, acctVars, socialVars, profileVars, settingsVars, bookVars,
                      reportVars>>
    \/ /\ part = "profiles" /\ NextProfiles
       /\ edits' > edits /\ edits' = MaxEdits => edit = [c \in Edits |-> NoEdit]
       /\ UNCHANGED <<part, acctVars, socialVars, metricsVars, settingsVars, bookVars,
                      reportVars>>
    \/ /\ part = "settings" /\ NextSettings
       /\ UNCHANGED <<part, acctVars, socialVars, metricsVars, profileVars, bookVars, reportVars>>
    \/ /\ part = "books" /\ NextBooks
       /\ UNCHANGED <<part, acctVars, socialVars, metricsVars, profileVars, settingsVars,
                      reportVars>>
    \/ /\ part = "reports" /\ NextReports
       /\ UNCHANGED <<part, acctVars, socialVars, metricsVars, profileVars, settingsVars, bookVars>>

Spec == Init /\ [][Next]_<<part, acctVars, socialVars, metricsVars, profileVars, settingsVars,
                          bookVars, reportVars>>
=============================================================================
