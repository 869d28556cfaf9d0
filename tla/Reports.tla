------------------------------- MODULE Reports -------------------------------
(***************************************************************************)
(* The figures on the dashboards and the wallets.  Several requests count  *)
(* or sum the same rows in their own way, and rows change between two of   *)
(* them; what is checked is that no two of them tell different stories.    *)
(*                                                                         *)
(* A request answers with figures: of what, for which key (a range of      *)
(* dates, a user, or all), and how many or how much.  It changes nothing,  *)
(* so the module reads two figures, one after the other.  Only one table   *)
(* is on the desk at a time: users, or campaigns with their payments and   *)
(* releases.  Rows of one year, one brand and ordinary campaigns.          *)
(***************************************************************************)
EXTENDS Integers, Sequences, FiniteSets, SequencesExt

CONSTANTS
    Calendar,     \* the dates on which users sign up and log in, <<year, month, day>>
    Registered,   \* bound: users
    Entries,      \* bound: the rows that users have at first
    Reaches,      \* followers of a creator on each of two platforms
    Budget,       \* of each campaign
    Charge,       \* what the brand pays for it: the budget, the commission, its VAT
    Share,        \* what the creator of each campaign is owed
    CreatorOf,
    MaxChanges    \* bound: changes between two figures

\* Who has no tier has no followers either, since they are written together; a budget is at
\* least 1.
ASSUME ReportsConstants ==
    /\ Calendar \in Seq(Nat \X (1..12) \X (1..31)) /\ Calendar # <<>> /\ MaxChanges \in Nat
    /\ IsFiniteSet(Registered) /\ Reaches \subseteq Nat \X Nat
    /\ Entries \subseteq [role : {"creator", "brand"}, created : DOMAIN Calendar,
                          updated : DOMAIN Calendar, login : {0} \cup DOMAIN Calendar,
                          reach : Nat \X Nat, tier : 0..4, done : 0..5, country : STRING]
    /\ \A e \in Entries : (e.role = "brand" => e.done <= 4) /\ (e.tier = 0 => e.reach = <<0, 0>>)
    /\ Budget \in [DOMAIN Budget -> Nat \ {0}] /\ IsFiniteSet(DOMAIN Budget)
    /\ Share \in [DOMAIN Budget -> Nat] /\ Charge \in [DOMAIN Budget -> Nat]
    /\ DOMAIN CreatorOf = DOMAIN Budget
    /\ \A k \in DOMAIN Budget : Share[k] <= Budget[k] /\ Budget[k] <= Charge[k]

VARIABLES
    desk,      \* "users" or "money"
    entry,     \* users: role, created, updated, login (0 if never), reach, tier, done, country
    booked,    \* campaigns: status, paid (payment_status), payment (of the latest payment)
    dues,      \* the release of each campaign: status, and whether its date has passed
    shown,     \* the figures read so far
    changes,
    drift      \* by how much the changes since the first figure may have moved any figure

reportVars == <<desk, entry, booked, dues, shown, changes, drift>>

Campaigned == DOMAIN Budget
\* Most figures are told in one way; some requests tell theirs in a way of their own.
Figure(of, key, n) == [of |-> of, key |-> key, way |-> "one", n |-> n]
FigureBy(way, of, key, n) == [of |-> of, key |-> key, way |-> way, n |-> n]
Total(value, S) == MapThenSumSet(LAMBDA k : value[k], S)

-----------------------------------------------------------------------------
(* Users.                                                                  *)

\* computeTier: the ladder by which a tier is assigned.  The reports have another one.
Ladder(steps, reach) == CHOOSE t \in 1..4 : /\ t = 1 \/ reach >= steps[t]
                                            /\ t = 4 \/ reach < steps[t + 1]
AssignedTier(reach) == Ladder(<<0, 10000, 200000, 1000000>>, Max({reach[1], reach[2]}))
ReportTier(reach) == Ladder(<<0, 10000, 100000, 1000000>>, reach)

\* A range is nothing, a year, or a year and a month.
Ranges == UNION {{SubSeq(date, 1, k) : k \in 0..2} : date \in ToSet(Calendar)}
Within(i, range) == IsPrefix(range, Calendar[i])

WithRole(role) == {u \in DOMAIN entry : entry[u].role = role}
CreatedIn(role, range) == {u \in WithRole(role) : Within(entry[u].created, range)}
LoggedIn(role, range) ==
    {u \in WithRole(role) : IF entry[u].login # 0 THEN Within(entry[u].login, range)
                       ELSE Within(entry[u].updated, range) \/ Within(entry[u].created, range)}

\* The date a point of a series is put at; one who never logged in is at the last update.
TargetDate(u, field) ==
    LET row == entry[u]
    IN  Calendar[IF field = "createdAt" THEN row.created
                 ELSE IF row.login # 0 THEN row.login ELSE row.updated]

Points == [monthly |-> 1..12, weekly |-> 0..3, daily |-> 0..29]
PointOf(date, period) == CASE period = "monthly" -> date[2]
                           [] period = "weekly" -> Min({(date[3] - 1) \div 7, 3})
                           [] OTHER -> Min({date[3] - 1, 29})

\* The points of a series that anyone is at; the others are 0.
generateTimeSeries(us, period, field) ==
    LET Point(u) == PointOf(TargetDate(u, field), period)
    IN  [p \in {Point(u) : u \in us} \cap Points[period] |->
            Cardinality({u \in us : Point(u) = p})]
SeriesTotal(series) == FoldFunction(+, 0, series)


\* The series, and in that of a year how many joined in each month.
getSignupGrowth(role, range) ==
    LET Series(period) == generateTimeSeries(CreatedIn(role, range), period, "createdAt")
    IN  {Figure(<<role>>, range, SeriesTotal(Series(period))) : period \in DOMAIN Points}
          \cup {Figure(<<role>>, range \o <<m>>, Series("monthly")[m]) :
                  m \in IF Len(range) = 1 THEN DOMAIN Series("monthly") ELSE {}}

\* Without dates every user is in the series.
getActiveUsers(role, range) ==
    {Figure(IF range = <<>> THEN <<role>> ELSE <<role, "active">>, range,
            SeriesTotal(generateTimeSeries(LoggedIn(role, range), period, "lastLoginAt"))) :
       period \in DOMAIN Points}

getCountryBreakdown(role, range) ==
    LET us == CreatedIn(role, range)
        Name(u) == IF entry[u].country = "none" THEN "Nigeria" ELSE entry[u].country
        count == [c \in {Name(u) : u \in us} |-> Cardinality({u \in us : Name(u) = c})]
    IN  {Figure(<<role>>, range, SeriesTotal(count))}

\* The number of creators in each tier.  An assigned tier is looked for by a name that none
\* has ('nano' for 'Nano Creator'), so it is the followers that count.
TierCounts(us) ==
    LET Reached(u) == ReportTier(Max({entry[u].reach[1], entry[u].reach[2]}))
    IN  [t \in 1..4 |-> Cardinality({u \in us : Reached(u) = t})]

getTierDistribution(range) ==
    LET count == TierCounts(CreatedIn("creator", range))
    IN  {Figure(<<"creator">>, range, SeriesTotal(count))}
          \cup {Figure(<<"creator", "in a tier">>, range \o <<t>>, count[t]) : t \in 1..4}

\* Four steps of 25 for a brand, five of 20 for a creator.
OnboardingPercentage(u) == (IF entry[u].role = "brand" THEN 25 ELSE 20) * entry[u].done
\* The bands in which the distribution of the completed profiles is told.
Bands(role) == IF role = "brand" THEN <<0, 35, 55, 75, 90>> ELSE <<0, 35, 75, 90>>
InBand(u, k) ==
    LET from == Bands(entry[u].role)
    IN  /\ k = 1 \/ OnboardingPercentage(u) >= from[k]
        /\ k = Len(from) \/ OnboardingPercentage(u) < from[k + 1]

getSummary(role) ==
    LET us == WithRole(role)
        band == [k \in DOMAIN Bands(role) |-> Cardinality({u \in us : InBand(u, k)})]
    IN  {Figure(<<role>>, <<>>, Cardinality(us)), Figure(<<role>>, <<>>, SeriesTotal(band)),
         Figure(<<role, "complete">>, <<>>,
                Cardinality({u \in us : OnboardingPercentage(u) = 100})),
         Figure(<<role, "complete">>, <<>>, band[Len(band)])}

\* The tier shown beside a name: the one assigned, or the one that the followers give.
ShownByFollowers(u, followers) ==
    Figure(<<"creator", "tier">>, <<u>>, ReportTier(followers))
ShownTier(u, followers) ==
    Figure(<<"creator", "tier">>, <<u>>,
           IF entry[u].tier # 0 THEN entry[u].tier ELSE ReportTier(followers))
tierInList(u) == ShownTier(u, Max({entry[u].reach[1], entry[u].reach[2]}))
tierInProfile(u) == ShownTier(u, entry[u].reach[1] + entry[u].reach[2])

getOverviewOfUsers ==
    LET count == TierCounts(WithRole("creator"))
    IN  {Figure(<<role>>, <<>>, Cardinality(WithRole(role))) : role \in {"creator", "brand"}}
          \cup {Figure(<<"creator", "in a tier">>, <<t>>, count[t]) : t \in 1..4}
          \cup {tierInList(u) : u \in WithRole("creator")}

FiguresOfUsers ==
    getOverviewOfUsers
      \cup {tierInProfile(u) : u \in WithRole("creator")}
      \cup (UNION {getTierDistribution(range) : range \in Ranges})
      \cup (UNION {getSummary(role) : role \in {"creator", "brand"}})
      \cup UNION {getSignupGrowth(role, range) \cup getActiveUsers(role, range)
                    \cup getCountryBreakdown(role, range) :
                    role \in {"creator", "brand"}, range \in Ranges}

-----------------------------------------------------------------------------
(* Money.                                                                  *)


PaidAs(statuses) == {k \in Campaigned : booked[k].payment \in statuses}
OwedTo(c) == {k \in Campaigned : CreatorOf[k] = c}
Dues(statuses) == {k \in Campaigned : dues[k].status \in statuses}
In(statuses) == {k \in Campaigned : booked[k].status \in statuses}
Creators == {CreatorOf[k] : k \in Campaigned}

\* What is in escrow is told by all payments, or by a brand's items.
InEscrow(way, S) == FigureBy(way, <<"in escrow">>, <<>>, Total(Charge, S))

\* What a creator earned, and at how many campaigns, is told by the releases or by the
\* applications.
WhatEarned(way, c, S) ==
    {FigureBy(way, <<"earned">>, <<c>>, Total(Share, S)),
     FigureBy(way, <<"done">>, <<c>>, Cardinality(S))}

\* A payment is 'funded' from the moment it is paid, for ever.
getGlobalSummary ==
    {Figure(<<"spent">>, <<>>, Total(Charge, PaidAs({"paid", "escrowed", "completed"}))),
     Figure(<<"paid out">>, <<>>, Total(Share, Dues({"released"}))),
     InEscrow("payments",
        {k \in PaidAs({"paid", "escrowed"}) : booked[k].escrow \notin {"null", "released"}})}

\* The charts of the year, whose months add up to it.
getEscrowOverview ==
    {Figure(<<"spent">>, <<>>, Total(Charge, PaidAs({"paid", "escrowed", "completed"}))),
     InEscrow("payments", PaidAs({"paid", "escrowed"})),
     Figure(<<"paid out">>, <<>>, Total(Share, Dues({"released"})))}

getCreatorPayoutSummary(c) ==
    {FigureBy("releases", <<"earned">>, <<c>>, Total(Share, OwedTo(c) \cap Dues({"released"}))),
     Figure(<<"on hold">>, <<c>>, Total(Share,
        {k \in OwedTo(c) \cap Dues({"pending", "escrow_pending"}) : ~dues[k].past}))}

\* What is still to be released, and of that the items with days remaining.
getCreatorEscrowItems(c) ==
    LET items == OwedTo(c) \cap Dues({"pending", "escrow_pending"})
    IN  {Figure(<<"on hold">>, <<c>>, Total(Share, {k \in items : ~dues[k].past}))}

\* A creator of whom nothing is released is not among them.
getTopCreators ==
    LET top == {c \in Creators : OwedTo(c) \cap Dues({"released"}) # {}}
        earned == [c \in top |-> Total(Share, OwedTo(c) \cap Dues({"released"}))]
    IN  (UNION {WhatEarned("releases", c, OwedTo(c) \cap Dues({"released"})) : c \in top})
          \cup {Figure(<<"paid out">>, <<>>, SeriesTotal(earned))}

getCreatorProfileDetails(c) == WhatEarned("releases", c, OwedTo(c) \cap Dues({"released"}))

\* The list of creators sums the fees of the applications that were accepted at campaigns
\* that are completed.
earnedInList(c) == WhatEarned("list", c, OwedTo(c) \cap In({"completed"}))

\* The overview sums those of the applications that are 'completed', which is none of the
\* statuses that are written to an application.
ApplicationStatuses == {"pending", "selected", "accepted", "rejected"}
topCreatorsOfOverview ==
    UNION {WhatEarned("overview", c, {k \in OwedTo(c) : "completed" \in ApplicationStatuses}) :
             c \in Creators}

getBrandPaymentSummary ==
    {InEscrow("payments", {k \in PaidAs({"paid"}) : booked[k].escrow # "completed"}),
     Figure(<<"paid out">>, <<>>, Total(Share, Dues({"released"})))}

\* A cancelled campaign is left out of the items.
getBrandEscrowItems ==
    {InEscrow("items", {k \in PaidAs({"paid"}) \ In({"cancelled"}) : booked[k].escrow # "completed"})}

\* In the list of brands, among the top brands and on a brand's own page.
totalSpend ==
    {Figure(<<"budgets">>, <<>>, Total(Budget, {k \in Campaigned : booked[k].paid = "paid"})),
     Figure(<<"campaigns">>, <<>>, Cardinality(Campaigned))}

\* How many campaigns are active is told in three ways.
Active(way, S) == FigureBy(way, <<"campaigns", "active">>, <<>>, Cardinality(S))

activeOfBrand == {Active("brand", In({"active", "live"}))}

getOverviewOfCampaigns ==
    {Figure(<<"campaigns">>, <<>>, Cardinality(Campaigned)), Active("overview", In({"active"}))}
      \cup {Figure(<<"campaigns", s>>, <<>>, Cardinality(In({s}))) :
              s \in {"draft", "live", "completed"}}

\* What is neither a draft, unpaid, nor one of these statuses is counted as active.
getCampaignsSummary ==
    LET drafts == {k \in Campaigned : booked[k].status = "draft" \/ booked[k].paid = "unpaid"}
        Rest(s) == In({s}) \ drafts
        others == In({"draft", "live", "completed", "cancelled"}) \cup drafts
        count == [draft |-> drafts, live |-> Rest("live"), completed |-> Rest("completed"),
                  cancelled |-> Rest("cancelled"), active |-> Campaigned \ others]
    IN  {Figure(<<"campaigns">>, <<>>, SeriesTotal([s \in DOMAIN count |-> Cardinality(count[s])])),
         Active("summary", count["active"])}
          \cup {Figure(<<"campaigns", s>>, <<>>, Cardinality(count[s])) :
                  s \in {"draft", "live", "completed"}}

FiguresOfMoney ==
    getGlobalSummary \cup getEscrowOverview \cup getTopCreators \cup getBrandPaymentSummary
      \cup getBrandEscrowItems \cup totalSpend \cup activeOfBrand \cup getOverviewOfCampaigns
      \cup getCampaignsSummary \cup topCreatorsOfOverview
      \cup UNION {getCreatorPayoutSummary(c) \cup getCreatorEscrowItems(c)
                    \cup getCreatorProfileDetails(c) \cup earnedInList(c) : c \in Creators}

-----------------------------------------------------------------------------
(* What changes the rows, and the reader.                                  *)

\* Rows that the other components leave behind.
Beginnings ==
    {[status |-> "draft", paid |-> "unpaid", payment |-> "none", escrow |-> "null"]}
      \cup {[status |-> "pending_payment", paid |-> "pending", payment |-> p[1], escrow |-> p[2]] :
              p \in {<<"pending", "null">>, <<"paid", "funded">>}}
      \cup {[status |-> s, paid |-> "paid", payment |-> "paid", escrow |-> "funded"] :
              s \in {"live", "reviewing_applicant", "active", "completed", "cancelled"}}
DueStatuses == {"pending", "escrow_pending", "processing", "released", "failed", "disputed"}
NoDue == [status |-> "none", past |-> FALSE]

InitReports ==
    /\ desk \in {"users", "money"}
    /\ entry \in IF desk = "users" THEN UNION {[us -> Entries] : us \in SUBSET Registered}
                                   ELSE {[u \in {} |-> 0]}
    /\ IF desk = "money"
       THEN /\ booked \in [Campaigned -> Beginnings]
            /\ dues \in [Campaigned -> {NoDue} \cup [status : DueStatuses, past : BOOLEAN]]
            /\ \A k \in Campaigned : dues[k] # NoDue =>
                 booked[k].status \in {"active", "completed", "cancelled"}
       ELSE booked = [k \in Campaigned |-> CHOOSE b \in Beginnings : b.status = "draft"]
            /\ dues = [k \in Campaigned |-> NoDue]
    /\ shown = <<>> /\ changes = 0 /\ drift = 0

Change(by) ==
    /\ Len(shown) = 1 /\ changes < MaxChanges
    /\ changes' = changes + 1 /\ drift' = drift + by
    /\ UNCHANGED <<desk, shown>>

Today == Len(Calendar)
ChangeUser(row, u) ==
    /\ desk = "users" /\ Change(1)
    /\ entry' = [v \in DOMAIN entry \cup {u} |->
                    IF v = u THEN [row EXCEPT !.updated = Today] ELSE entry[v]]
    /\ UNCHANGED <<booked, dues>>

SignUp == \E u \in Registered \ DOMAIN entry, role \in {"creator", "brand"} :
    ChangeUser([role |-> role, created |-> Today, updated |-> Today, login |-> 0, tier |-> 0,
                reach |-> <<0, 0>>, done |-> 0, country |-> "none"], u)
LogIn == \E u \in DOMAIN entry : ChangeUser([entry[u] EXCEPT !.login = Today], u)
Onboard == \E u \in DOMAIN entry : \E n \in {entry[u].done - 1, entry[u].done + 1} :
    /\ n \in 0..(IF entry[u].role = "brand" THEN 4 ELSE 5)
    /\ ChangeUser([entry[u] EXCEPT !.done = n], u)
\* Every writer of the followers computes the tier with them.
GainFollowers == \E u \in WithRole("creator"), reach \in Reaches :
    /\ Change(3) /\ desk = "users"
    /\ entry' = [entry EXCEPT ![u].reach = reach, ![u].tier = AssignedTier(reach),
                              ![u].updated = Today]
    /\ UNCHANGED <<booked, dues>>

Move(k, row, due, by) ==
    /\ desk = "money" /\ Change(by)
    /\ booked' = [booked EXCEPT ![k] = row] /\ dues' = [dues EXCEPT ![k] = due]
    /\ UNCHANGED entry

PayFor == \E k \in Campaigned :
    /\ booked[k].payment = "pending"
    /\ Move(k, [booked[k] EXCEPT !.payment = "paid", !.escrow = "funded"], dues[k], Charge[k])
OpenUp == \E k \in Campaigned :
    /\ booked[k].status = "pending_payment" /\ booked[k].payment = "paid"
    /\ Move(k, [booked[k] EXCEPT !.paid = "paid", !.status = "live"], dues[k], Budget[k])
\* What is completed counts with its fees from now on, and what is cancelled is no item.
MoveOn == \E k \in Campaigned, move \in
        {<<"live", "reviewing_applicant">>, <<"reviewing_applicant", "active">>,
         <<"active", "completed">>, <<"live", "cancelled">>, <<"active", "cancelled">>} :
    /\ booked[k].status = move[1]
    /\ Move(k, [booked[k] EXCEPT !.status = move[2]], dues[k],
            CASE move[2] = "completed" -> Budget[k] [] move[2] = "cancelled" -> Charge[k]
              [] OTHER -> 1)
Owe == \E k \in Campaigned :
    /\ booked[k].status = "active" /\ dues[k] = NoDue
    /\ Move(k, booked[k], [status |-> "pending", past |-> FALSE], Share[k])
Settle == \E k \in Campaigned, move \in
        {<<"pending", "processing">>, <<"pending", "escrow_pending">>, <<"pending", "disputed">>,
         <<"escrow_pending", "processing">>, <<"failed", "processing">>, <<"disputed", "pending">>,
         <<"processing", "released">>, <<"processing", "failed">>} :
    /\ dues[k].status = move[1] /\ move[2] = "processing" => dues[k].past
    /\ Move(k, booked[k], [dues[k] EXCEPT !.status = move[2]], Max({Share[k], 1}))
Mature == \E k \in Campaigned :
    /\ dues[k] # NoDue /\ ~dues[k].past
    /\ Move(k, booked[k], [dues[k] EXCEPT !.past = TRUE], Share[k])

\* The second figure is one that says what the first said.
Read ==
    /\ Len(shown) < 2
    /\ \E f \in IF desk = "users" THEN FiguresOfUsers ELSE FiguresOfMoney :
         /\ shown # <<>> => f.of = shown[1].of /\ f.key = shown[1].key
         /\ shown' = Append(shown, f)
    /\ UNCHANGED <<desk, entry, booked, dues, changes, drift>>

NextReports ==
    \/ SignUp \/ LogIn \/ Onboard \/ GainFollowers
    \/ PayFor \/ OpenUp \/ MoveOn \/ Owe \/ Settle \/ Mature \/ Read

SpecReports == InitReports /\ [][NextReports]_reportVars

-----------------------------------------------------------------------------
(* Properties.                                                             *)

\* Whether a campaign counts for what its creator earned, and whether as active.
Earns(way, row, due) == CASE way = "releases" -> due.status = "released"
                          [] way = "list" -> row.status = "completed"
                          [] way = "overview" -> FALSE
IsActive(way, row) == row.status \in CASE way = "overview" -> {"active"}
                                       [] way = "brand" -> {"active", "live"}
                                       [] way = "summary" -> {"active", "reviewing_applicant",
                                                              "pending_payment"}

\* Two figures are told in different ways, and a campaign counts in one of them only.
Apart(f, g) ==
    /\ f.way # g.way
    /\ \E k \in Campaigned :
         \/ f.of = <<"in escrow">> /\ booked[k].status = "cancelled"
         \/ /\ f.of \in {<<"earned">>, <<"done">>} /\ f.key = <<CreatorOf[k]>>
            /\ Earns(f.way, booked[k], dues[k]) # Earns(g.way, booked[k], dues[k])
         \/ /\ f.of = <<"campaigns", "active">>
            /\ IsActive(f.way, booked[k]) # IsActive(g.way, booked[k])

\* Two figures that claim to say the same differ by no more than what has changed between
\* them, whichever requests they are from: the counts of users by date, tier, country and
\* progress, the tier shown beside a name, what brands spent and their budgets, what was
\* paid out and is on hold, and the campaigns by status.  Three are told in several ways,
\* which agree only while no campaign counts in one and not in the other: in escrow, with
\* cancelled campaigns or without (transactions.repository.ts:451); what a creator earned,
\* by released rows (admin-creators.service.ts:226, :790), by the fees at completed campaigns
\* (:638) or by those of 'completed' applications, of which there are none
\* (admin-overview.service.ts:279, :308); and the active campaigns, exactly those
\* (admin-overview.service.ts:181), or with the live ones (admin-brands.service.ts:546), or with
\* all that have no other name (admin-campaigns.service.ts:83).
FiguresAgree ==
    Len(shown) = 2 => shown[1].n - shown[2].n \in -drift..drift \/ Apart(shown[1], shown[2])
=============================================================================
