-------------------------------- MODULE Books --------------------------------
(***************************************************************************)
(* The lists that are read a page at a time, by offset, while their rows   *)
(* change: what a reader gets to see who turns all the pages.              *)
(*                                                                         *)
(* Each list says of which table it reads which statuses, in what order,   *)
(* and how: count and rows as two queries at one time (findAndCountAll),   *)
(* or one ledger that is put together and sliced.  What the reader can     *)
(* tell apart of it is its View; the search and the other filters that a   *)
(* reader keeps while turning pages leave a list of the same view.         *)
(***************************************************************************)
EXTENDS Integers, Sequences, FiniteSets, SequencesExt

CONSTANTS
    BookRows,     \* bound: rows, in the order of their creation
    PageLimit,    \* rows on a page
    MaxWrites,    \* bound: writes
    MaxPages      \* bound: pages turned

ASSUME BooksConstants ==
    BookRows \in Nat /\ PageLimit \in Nat \ {0} /\ MaxWrites \in Nat /\ MaxPages \in Nat

VARIABLES
    view,      \* of the list that is read: order, joins, leaves, atOnce
    book,      \* each row: is it listed, by which key, and how many rows it is joined to
    reader,    \* at, page, counted and read, pages as told last, and the rows seen
    kept,      \* history: rows listed since the first page was asked for, and not written to
    spoiled,   \* history: why a page may have missed one of them
    stamp, writes

bookVars == <<view, book, reader, kept, spoiled, stamp, writes>>

-----------------------------------------------------------------------------
(* The lists.                                                              *)

\* Changes of status that requests and jobs make; "gone" is a row that is destroyed.
Changes == [
    payments |-> {<<"pending", "paid">>, <<"pending", "failed">>, <<"pending", "cancelled">>},
    payment_releases |-> {<<"pending", "escrow_pending">>, <<"pending", "processing">>,
        <<"escrow_pending", "processing">>, <<"failed", "processing">>,
        <<"processing", "released">>, <<"processing", "failed">>, <<"pending", "disputed">>,
        <<"disputed", "pending">>},
    campaign_refunds |-> {<<"pending", "completed">>, <<"pending", "failed">>,
        <<"pending", "pending_bank_details">>, <<"pending_bank_details", "pending">>},
    campaigns |-> {<<"draft", "pending_payment">>, <<"pending_payment", "live">>,
        <<"live", "reviewing_applicant">>, <<"reviewing_applicant", "active">>,
        <<"active", "completed">>, <<"live", "paused">>, <<"paused", "live">>,
        <<"active", "cancelled">>, <<"draft", "gone">>},
    users |-> {<<"pending", "active">>, <<"active", "suspended">>, <<"suspended", "active">>,
        <<"suspended", "gone">>},
    campaign_applications |-> {<<"pending", "accepted">>, <<"pending", "rejected">>},
    notifications |-> {<<"unread", "read">>},
    broadcasts |-> {<<"draft", "scheduled">>, <<"scheduled", "sent">>, <<"draft", "gone">>},
    news |-> {<<"draft", "scheduled">>, <<"scheduled", "published">>,
        <<"published", "draft">>, <<"draft", "gone">>},
    banner_ads |-> {<<"draft", "active">>, <<"active", "paused">>, <<"paused", "gone">>},
    audit_logs |-> {}]

Statuses(table) ==
    {"recorded"} \cup ((UNION {{move[1], move[2]} : move \in Changes[table]}) \ {"gone"})

\* A list of the rows of a table with one of these statuses, by an order.
List(table, shows, order) ==
    [shows |-> [t \in {table} |-> shows], order |-> order, joins |-> FALSE, atOnce |-> FALSE]
All(table, order) == List(table, Statuses(table), order)
\* The whole list, or that of one status.
Tabs(table, order) == {All(table, order)} \cup {List(table, {s}, order) : s \in Statuses(table)}

\* subQuery: false: the limit and the offset count rows of the join.
Joined(lists) == {[l EXCEPT !.joins = TRUE] : l \in lists}

getEscrowBalances == {All("payments", "updated")}

\* successful, on_hold, or a status by its name.
getCreatorPayouts == Tabs("payment_releases", "updated")
    \cup {List("payment_releases", {"escrow_pending", "disputed"}, "updated")}

getAdvertiserRefunds == Tabs("campaign_refunds", "updated")

creatorPayouts == {All("payment_releases", "created")}

\* Payments that are paid, all releases and all refunds, merged, sorted and sliced; releases
\* are dated by their last update.
getBrandTransactions ==
    {[shows |-> [t \in {"payments", "payment_releases", "campaign_refunds"} |->
                   IF t = "payments" THEN {"paid"} ELSE Statuses(t)],
      order |-> "updated", joins |-> FALSE, atOnce |-> TRUE]}

\* live, all, past or a status; the newest, those of a niche first, the highest budget, or
\* the one that closes first.
findAll == Joined(
    {List("campaigns", shows, order) :
        shows \in {{s} : s \in Statuses("campaigns")}
                    \cup {{"live", "completed", "cancelled"}, {"completed", "cancelled"},
                          Statuses("campaigns")},
        order \in {"created", "any"}})

findSocialImpactCampaigns ==
    {List("campaigns", shows, "created") :
        shows \in {{"active", "live"}, {"completed"}, Statuses("campaigns") \ {"draft", "paused"}}}

getCampaignsList == Joined(Tabs("campaigns", "created"))
getSocialImpactList == Tabs("campaigns", "updated")

\* The tab is sifted from the page when it has been read, which leaves its rows where they are.
getParticipants == {All("campaign_applications", "created")}
getCreatorCampaignHistory == {All("campaign_applications", "created")}
getBrandCampaignHistory == {All("campaigns", "created")}

getCreatorsList == Tabs("users", "created")
getBrandsList == Tabs("users", "created")
findAllAdmins == Tabs("users", "created")

unifiedSearch ==
    {List("campaigns", {"live", "completed"}, "created")}
        \cup Joined({List("users", {"active"}, "created")})

\* All notifications, or the unread.
findForUser == {All("notifications", "created"), List("notifications", {"unread"}, "created")}

findBroadcasts == Tabs("broadcasts", "created")

\* By the time of publication, which a draft has not: it goes last.
findNews == Tabs("news", "any")

findBannerAds == Tabs("banner_ads", "created")
findAuditLogs == {All("audit_logs", "created")}

Lists == UNION {getEscrowBalances, getCreatorPayouts, getAdvertiserRefunds, creatorPayouts,
    getBrandTransactions, findAll, findSocialImpactCampaigns, getCampaignsList,
    getSocialImpactList, getParticipants, getCreatorCampaignHistory, getBrandCampaignHistory,
    getCreatorsList, getBrandsList, findAllAdmins, unifiedSearch, findForUser, findBroadcasts,
    findNews, findBannerAds, findAuditLogs}

\* A row can leave a list that does not show all that it may become.
Leaves(l) ==
    \E t \in DOMAIN l.shows : \E move \in Changes[t] :
        move[1] \in l.shows[t] /\ move[2] \notin l.shows[t]

View(l) == [order |-> l.order, joins |-> l.joins, leaves |-> Leaves(l), atOnce |-> l.atOnce]

-----------------------------------------------------------------------------
(* Turning pages.                                                          *)

NoReader == [at |-> "idle", page |-> 1, counted |-> FALSE, read |-> FALSE, pages |-> 0,
             seen |-> {}]

\* Rows made in one statement have one stamp.
InitBooks ==
    /\ view \in {View(l) : l \in Lists}
    /\ book \in [1..BookRows -> [listed : BOOLEAN, key : 0..BookRows, fan : {1}]]
    /\ \A r \in 1..BookRows : book[r].key \in IF book[r].listed THEN {r - 1, r} \ {0} ELSE {0}
    /\ reader = NoReader /\ kept = {} /\ spoiled = {} /\ stamp = BookRows /\ writes = 0

OnList == {r \in DOMAIN book : book[r].listed}

\* Orders that a query may come back in: the latest first, those of one stamp in any order.
Ordered(rs) ==
    {s \in SetToSeqs(rs) :
        \A i, j \in DOMAIN s : i < j => book[s[i]].key >= book[s[j]].key}

JoinRows(s) ==
    IF view.joins THEN FlattenSeq([i \in DOMAIN s |-> [j \in 1..book[s[i]].fan |-> s[i]]]) ELSE s

Page(s, page) ==
    LET offset == (page - 1) * PageLimit
    IN  ToSet(SubSeq(s, offset + 1, IF offset + PageLimit < Len(s) THEN offset + PageLimit ELSE Len(s)))

\* Mutant of PagesOf: the last page is not counted unless it is full.
PagesOfFull(count) == count \div PageLimit

PagesOf(count) == (count + PageLimit - 1) \div PageLimit

Why(rs) ==
    {w \in {"tied", "joined"} :
        CASE w = "tied" -> \E r, s \in rs : r # s /\ book[r].key = book[s].key
          [] w = "joined" -> view.joins /\ \E r \in rs : book[r].fan > 1}

Open ==
    /\ reader.at = "idle"
    /\ reader' = [reader EXCEPT !.at = "asked"] /\ kept' = OnList
    /\ UNCHANGED <<view, book, spoiled, stamp, writes>>

\* paginate: the count of distinct rows,
CountRows ==
    /\ reader.at = "asked" /\ ~view.atOnce /\ ~reader.counted
    /\ reader' = [reader EXCEPT !.counted = TRUE, !.pages = PagesOf(Cardinality(OnList))]
    /\ UNCHANGED <<view, book, kept, spoiled, stamp, writes>>

\* and, at the same time, the rows of the page.
ReadRows ==
    /\ reader.at = "asked" /\ ~view.atOnce /\ ~reader.read
    /\ \E s \in Ordered(OnList) :
         reader' = [reader EXCEPT !.read = TRUE,
                                   !.seen = @ \cup Page(JoinRows(s), reader.page)]
    /\ spoiled' = spoiled \cup Why(OnList)
    /\ UNCHANGED <<view, book, kept, stamp, writes>>

\* The ledger is one array; rows of one stamp stay in the order that their queries gave.
ReadLedger ==
    /\ reader.at = "asked" /\ view.atOnce /\ ~reader.read
    /\ \E s \in Ordered(OnList) :
         reader' = [reader EXCEPT !.read = TRUE, !.counted = TRUE,
                                   !.pages = PagesOf(Cardinality(OnList)),
                                   !.seen = @ \cup Page(s, reader.page)]
    /\ spoiled' = spoiled \cup Why(OnList)
    /\ UNCHANGED <<view, book, kept, stamp, writes>>

Turn ==
    /\ reader.at = "asked" /\ reader.counted /\ reader.read
    /\ reader' = IF reader.page < reader.pages /\ reader.page < MaxPages
                 THEN [reader EXCEPT !.page = @ + 1, !.counted = FALSE, !.read = FALSE]
                 ELSE [reader EXCEPT !.at = IF reader.page < reader.pages THEN "gave up" ELSE "done"]
    /\ UNCHANGED <<view, book, kept, spoiled, stamp, writes>>

-----------------------------------------------------------------------------
(* Writes, by others, while the reader turns pages.                        *)

Between == IF reader.counted # reader.read THEN {"between"} ELSE {}

Write(rs, why) ==
    /\ reader.at = "asked" /\ writes < MaxWrites /\ writes' = writes + 1
    /\ stamp' = stamp + 1 /\ kept' = kept \ rs
    /\ spoiled' = spoiled \cup Between \cup why
    /\ UNCHANGED <<view, reader>>

\* Rows are inserted, in one statement; or get a status that the list shows.
ComeIn ==
    \E rs \in SUBSET (DOMAIN book \ OnList) :
        /\ rs # {} /\ Write(rs, {})
        /\ \E key \in IF view.order = "updated" THEN {stamp + 1} ELSE 1..(stamp + 1) :
             book' = [r \in DOMAIN book |->
               IF r \in rs THEN [listed |-> TRUE, key |-> key, fan |-> 1] ELSE book[r]]

\* Columns of a row are written; a list by its update shows the row first, and a row may
\* go up or down in one by a date or an amount.
Touch ==
    \E r \in OnList :
        \E key \in CASE view.order = "created" -> {book[r].key}
                      [] view.order = "updated" -> {stamp + 1}
                      [] OTHER -> 1..(stamp + 1) :
            /\ Write({r}, IF key < book[r].key THEN {"back"} ELSE {})
            /\ book' = [book EXCEPT ![r].key = key]

\* A row gets a status that the list does not show, or is destroyed.
Leave ==
    /\ view.leaves
    /\ \E r \in OnList :
         /\ Write({r}, {"left"})
         /\ book' = [book EXCEPT ![r] = [listed |-> FALSE, key |-> 0, fan |-> 1]]

\* A row is joined to one more: a platform, a niche, an application.
Join ==
    /\ view.joins
    /\ \E r \in OnList :
         /\ book[r].fan = 1 /\ Write({}, {}) /\ book' = [book EXCEPT ![r].fan = 2]

NextBooks ==
    \/ Open \/ CountRows \/ ReadRows \/ ReadLedger \/ Turn
    \/ ComeIn \/ Touch \/ Leave \/ Join

SpecBooks == InitBooks /\ [][NextBooks]_bookVars

-----------------------------------------------------------------------------
(* Property.                                                               *)

\* Who turns the pages of a list, from the first to the last that the answers tell of, has
\* been shown every row that was in the list throughout and was not written to, however many
\* rows came into it or went to its front meanwhile.  This is lost only if a row left the
\* list or went back in it, a write fell between the count and the rows of one page, rows of
\* one stamp were told apart by nothing (no order has a last column that is unique), or a
\* list that joins had a row joined to several (pagination.utils.ts:24-32).
UntouchedIsShown == reader.at = "done" /\ spoiled = {} => kept \subseteq reader.seen
=============================================================================
