------------------------------- MODULE Tokens -------------------------------
(***************************************************************************)
(* The tokens of Social Impact campaigns.  A creator takes part in a       *)
(* campaign and submits one live link, for which a ledger row is created   *)
(* and the creator's totalTokens and badge are recomputed.  Staff who      *)
(* approve a participation add a row too, and a daily cron, fired by every *)
(* PM2 instance, expires the rows that are a year old.                     *)
(*                                                                         *)
(* Requests and crons interleave between their awaited reads and writes.   *)
(* A read is one step with the write after it when that write does not     *)
(* depend on what was read, and two writes are one step when nothing the   *)
(* properties see is read between them.  Of a participation only its       *)
(* existence is kept: no handler here asks for its status.                 *)
(***************************************************************************)
EXTENDS Integers, Sequences, FiniteSets, Functions

CONSTANTS
    Campaigns,
    Creators,
    Requests,       \* requests of creators and of staff handled at one time
    Expirers,       \* PM2 instances, each of which fires the daily cron
    Rewards,        \* tokens a creator category earns: 1, 3, 5, 10 in the code
    Ranks,          \* totals that earn a badge: 10, 100, 1000 in the code
    MaxGrants,      \* bound: ledger rows, with those that are being asked for
    MaxCrashes      \* bound: processes killed half-way

ASSUME TokenBounds ==
    /\ Rewards \subseteq Nat /\ Ranks \subseteq Nat \ {0} /\ IsFiniteSet(Ranks)
    /\ Campaigns # {} /\ Creators # {}
    /\ MaxGrants \in Nat /\ MaxCrashes \in Nat

VARIABLES
    shut,       \* campaigns that are paused
    parts,      \* participations: <<campaign, creator>>
    link,       \* status of the latest submission of a participation
    grant,      \* user_token_ledgers rows, oldest first
    due,        \* rows whose expiresAt has passed
    total,      \* totalTokens of each creator
    badge,      \* badge of each creator; 0 stands for none
    badgeTold,  \* badges each creator has been told of (the dedupeKey keeps them)
    req, expirer,
    doubled,    \* history: participations whose link two requests were submitting
    spoilt,     \* history: creators whose columns the last to save them wrote from
                \* an outdated copy, or never wrote because he was killed
    silent,     \* history: creators who rose where nobody is told of it
    killed

ledger == <<grant, due, total, badge, badgeTold, doubled, spoilt, silent>>
tokenVars == <<shut, parts, link, ledger, req, expirer, killed>>

LinkStatus == {"none", "approved", "rejected"}

AllParts == Campaigns \X Creators
GrantRec == [camp : Campaigns, who : Creators, by : {"link", "admin"}, tokens : Rewards,
             live : BOOLEAN]

RankCount == 0 .. Cardinality(Ranks)

\* The badge for a total: none, Impact Advocate, Leader, Champion.
BadgeOf(tokens) == Cardinality({r \in Ranks : r <= tokens})

\* What the ledger says a creator has: the rows that are not marked expired.
RowsOf(u) == {g \in DOMAIN grant : grant[g].who = u}
Total(S) == FoldFunctionOnSet(+, 0, [g \in DOMAIN grant |-> grant[g].tokens], S)
Sum(u) == Total({g \in RowsOf(u) : grant[g].live})

\* History: the rows of u and whether they were live, as a request that sums them sees them.
Seen(u) == [g \in RowsOf(u) |-> grant[g].live]

AnyPart == CHOOSE p \in AllParts : TRUE
Idle == [pc |-> "idle", p |-> AnyPart, sum |-> 0, seen |-> <<>>, total |-> 0, badge |-> 0]
IdleExpirer == [pc |-> "idle", rows |-> {}, todo |-> {}, who |-> AnyPart[2], sum |-> 0,
                seen |-> <<>>]
ReqPc == {"idle", "submit", "grant", "sum", "user", "save", "tell", "vouch", "award",
          "ownsum", "ownsave"}

InitTokens ==
    /\ shut = {} /\ parts = {}
    /\ link = [p \in AllParts |-> "none"]
    /\ grant = <<>> /\ due = {}
    /\ total = [u \in Creators |-> 0]
    /\ badge = [u \in Creators |-> 0]
    /\ badgeTold = [u \in Creators |-> {}]
    /\ req = [q \in Requests |-> Idle]
    /\ expirer = [e \in Expirers |-> IdleExpirer]
    /\ doubled = {} /\ spoilt = {} /\ silent = {}
    /\ killed = 0

crons == <<expirer, killed>>

Go(q, pc) == req' = [req EXCEPT ![q].pc = pc]
Begin(q, p, pc) == req' = [req EXCEPT ![q] = [Idle EXCEPT !.pc = pc, !.p = p]]
Finish(q) == req' = [req EXCEPT ![q] = Idle]
Who(q) == req[q].p[2]

HasRoom == Len(grant) + Cardinality({q \in Requests : req[q].pc # "idle"}) < MaxGrants

\* Whether the columns of u are, from here on, known to be spoilt.
Spoils(u, wrong) == spoilt' = IF wrong THEN spoilt \cup {u} ELSE spoilt \ {u}

-----------------------------------------------------------------------------
(* A creator takes part and submits the link.                              *)

\* Staff pause and resume a campaign.
TogglePause(k) ==
    /\ shut' = IF k \in shut THEN shut \ {k} ELSE shut \cup {k}
    /\ UNCHANGED <<parts, link, ledger, req, crons>>

\* participateInSocialImpact; a unique index refuses a second application.
Participate(p) ==
    /\ p[1] \notin shut /\ p \notin parts
    /\ parts' = parts \cup {p}
    /\ UNCHANGED <<shut, link, ledger, req, crons>>

\* Mutant of LookUp: a submission that staff rejected can be made again.
LookUpApproved(q, p) ==
    /\ req[q].pc = "idle" /\ HasRoom
    /\ p[1] \notin shut /\ p \in parts /\ link[p] # "approved"
    /\ Begin(q, p, "submit")
    /\ UNCHANGED <<shut, parts, link, ledger, crons>>

\* submitSocialImpactLiveLink: a submission that carries a link, or was approved,
\* is the last, whatever became of it.
LookUp(q, p) ==
    /\ req[q].pc = "idle" /\ HasRoom
    /\ p[1] \notin shut /\ p \in parts /\ link[p] = "none"
    /\ Begin(q, p, "submit")
    /\ UNCHANGED <<shut, parts, link, ledger, crons>>

Submitting(q, p) == req[q].pc = "submit" /\ req[q].p = p

\* The submission is created approved, and the participation approved with it.
Submit(q) ==
    /\ req[q].pc = "submit"
    /\ link' = [link EXCEPT ![req[q].p] = "approved"]
    /\ doubled' = doubled \cup {p \in {req[q].p} : \E r \in Requests \ {q} : Submitting(r, p)}
    /\ Go(q, "grant")
    /\ UNCHANGED <<shut, parts, grant, due, total, badge, badgeTold, spoilt, silent, crons>>

NewRow(q, by) ==
    \E tokens \in Rewards :
        grant' = Append(grant, [camp |-> req[q].p[1], who |-> Who(q), by |-> by,
                                tokens |-> tokens, live |-> TRUE])

Grant(q) ==
    /\ req[q].pc = "grant"
    /\ NewRow(q, "link")
    /\ Go(q, "sum")
    /\ UNCHANGED <<shut, parts, link, due, total, badge, badgeTold, doubled, spoilt, silent, crons>>

SumUp(q) ==
    /\ req[q].pc = "sum"
    /\ req' = [req EXCEPT ![q].pc = "user", ![q].sum = Sum(Who(q)), ![q].seen = Seen(Who(q))]
    /\ UNCHANGED <<shut, parts, link, ledger, crons>>

\* Mutant of ReadUser: the badge it compares with is the new one.
ReadNewBadge(q) ==
    /\ req[q].pc = "user"
    /\ req' = [req EXCEPT ![q].pc = "save", ![q].badge = BadgeOf(req[q].sum)]
    /\ UNCHANGED <<shut, parts, link, ledger, crons>>

\* "Read the user BEFORE overwriting the badge".
ReadUser(q) ==
    /\ req[q].pc = "user"
    /\ req' = [req EXCEPT ![q].pc = "save", ![q].badge = badge[Who(q)]]
    /\ UNCHANGED <<shut, parts, link, ledger, crons>>

\* userModel.update: both columns, by id.
SaveUser(u, sum) ==
    /\ total' = [total EXCEPT ![u] = sum]
    /\ badge' = [badge EXCEPT ![u] = BadgeOf(sum)]

SaveTotal(q) ==
    /\ req[q].pc = "save"
    /\ SaveUser(Who(q), req[q].sum)
    /\ Spoils(Who(q), req[q].seen # Seen(Who(q)))
    /\ IF BadgeOf(req[q].sum) \notin {0, req[q].badge} THEN Go(q, "tell") ELSE Finish(q)
    /\ UNCHANGED <<shut, parts, link, grant, due, badgeTold, doubled, silent, crons>>

\* The badge notification, at most once per badge: its dedupeKey names it.
Tell(q) ==
    /\ req[q].pc = "tell"
    /\ badgeTold' = [badgeTold EXCEPT ![Who(q)] = @ \cup {BadgeOf(req[q].sum)}]
    /\ Finish(q)
    /\ UNCHANGED <<shut, parts, link, grant, due, total, badge, doubled, spoilt, silent, crons>>

-----------------------------------------------------------------------------
(* Staff decide about a participation.                                     *)

\* approveParticipant does not ask whether the creator was paid already ...
Accept(q, p) ==
    /\ req[q].pc = "idle" /\ HasRoom /\ p \in parts
    /\ Begin(q, p, "vouch")
    /\ UNCHANGED <<shut, parts, link, ledger, crons>>

\* ... approves what was submitted, reads the creator ...
Vouch(q) ==
    /\ req[q].pc = "vouch"
    /\ link' = [link EXCEPT ![req[q].p] = IF @ = "none" THEN @ ELSE "approved"]
    /\ req' = [req EXCEPT ![q].pc = "award", ![q].total = total[Who(q)],
                          ![q].badge = badge[Who(q)]]
    /\ UNCHANGED <<shut, parts, ledger, crons>>

Award(q) ==
    /\ req[q].pc = "award"
    /\ NewRow(q, "admin")
    /\ Go(q, "ownsum")
    /\ UNCHANGED <<shut, parts, link, due, total, badge, badgeTold, doubled, spoilt, silent, crons>>

SumOwner(q) ==
    /\ req[q].pc = "ownsum"
    /\ req' = [req EXCEPT ![q].pc = "ownsave", ![q].sum = Sum(Who(q)), ![q].seen = Seen(Who(q))]
    /\ UNCHANGED <<shut, parts, link, ledger, crons>>

\* ... and updates the columns that differ from the creator it has read.
SaveOwner(q) ==
    LET u == Who(q)
        sum == req[q].sum
    IN  /\ req[q].pc = "ownsave"
        /\ total' = IF sum = req[q].total THEN total ELSE [total EXCEPT ![u] = sum]
        /\ badge' = IF BadgeOf(sum) = req[q].badge THEN badge
                    ELSE [badge EXCEPT ![u] = BadgeOf(sum)]
        /\ Spoils(u, \/ req[q].seen # Seen(u)
                     \/ req[q].total # total[u] \/ req[q].badge # badge[u])
        /\ silent' = IF badge'[u] > badge[u] THEN silent \cup {u} ELSE silent
        /\ Finish(q)
        /\ UNCHANGED <<shut, parts, link, grant, due, badgeTold, doubled, crons>>

\* rejectParticipant leaves the tokens where they are.
Reject(p) ==
    /\ link[p] # "none"
    /\ link' = [link EXCEPT ![p] = "rejected"]
    /\ UNCHANGED <<shut, parts, ledger, req, crons>>

-----------------------------------------------------------------------------
(* handleTokenExpirations: a year after it was granted, a row expires.     *)

expirerOnly == <<shut, parts, link, req, killed>>

RowExpires(g) ==
    /\ g \in DOMAIN grant \ due
    /\ due' = due \cup {g}
    /\ UNCHANGED <<grant, total, badge, badgeTold, doubled, spoilt, silent, expirer, expirerOnly>>

ListExpired(e) ==
    /\ expirer[e].pc = "idle" /\ \E g \in due : grant[g].live
    /\ expirer' = [expirer EXCEPT ![e] =
            [IdleExpirer EXCEPT !.pc = "mark", !.rows = {g \in due : grant[g].live}]]
    /\ UNCHANGED <<ledger, expirerOnly>>

Affected(e) == {grant[g].who : g \in expirer[e].rows}

\* Mutant of Mark: the totals are recomputed, but no row is marked.
MarkNothing(e) ==
    /\ expirer[e].pc = "mark"
    /\ expirer' = [expirer EXCEPT ![e].pc = "users", ![e].todo = Affected(e)]
    /\ UNCHANGED <<ledger, expirerOnly>>

\* All rows are marked before the first creator's total is recomputed.
Mark(e) ==
    /\ expirer[e].pc = "mark"
    /\ grant' = [g \in DOMAIN grant |->
            IF g \in expirer[e].rows THEN [grant[g] EXCEPT !.live = FALSE] ELSE grant[g]]
    /\ expirer' = [expirer EXCEPT ![e].pc = "users", ![e].todo = Affected(e)]
    /\ UNCHANGED <<due, total, badge, badgeTold, doubled, spoilt, silent, expirerOnly>>

\* Mutant of SumExpired: the rows are summed whether they have expired or not.
SumEverything(e, u) ==
    /\ expirer[e].pc = "users" /\ u \in expirer[e].todo
    /\ expirer' = [expirer EXCEPT ![e].pc = "save", ![e].who = u, ![e].sum = Total(RowsOf(u)),
                                  ![e].seen = Seen(u)]
    /\ UNCHANGED <<ledger, expirerOnly>>

SumExpired(e, u) ==
    /\ expirer[e].pc = "users" /\ u \in expirer[e].todo
    /\ expirer' = [expirer EXCEPT ![e].pc = "save", ![e].who = u, ![e].sum = Sum(u),
                                  ![e].seen = Seen(u)]
    /\ UNCHANGED <<ledger, expirerOnly>>

\* A total that was wrong before may go up here, and a badge with it.
SaveExpired(e) ==
    LET u == expirer[e].who
        todo == expirer[e].todo \ {u}
    IN  /\ expirer[e].pc = "save"
        /\ SaveUser(u, expirer[e].sum)
        /\ Spoils(u, expirer[e].seen # Seen(u))
        /\ silent' = IF badge'[u] > badge[u] THEN silent \cup {u} ELSE silent
        /\ expirer' = [expirer EXCEPT ![e] = IF todo = {} THEN IdleExpirer
                                             ELSE [@ EXCEPT !.pc = "users", !.todo = todo]]
        /\ UNCHANGED <<grant, due, badgeTold, doubled, expirerOnly>>

-----------------------------------------------------------------------------
\* Between a change of a creator's ledger rows and the update of the columns.
Updating(q) == req[q].pc \in {"sum", "user", "save", "ownsum", "ownsave"}
Recomputing(e) == expirer[e].pc \in {"users", "save"}

\* A process is killed, or an error ends a handler or a cron run, between two steps.
CrashTokens ==
    /\ killed < MaxCrashes
    /\ killed' = killed + 1
    /\ \/ \E q \in Requests : /\ req[q].pc # "idle"
                              /\ spoilt' = IF Updating(q) THEN spoilt \cup {Who(q)} ELSE spoilt
                              /\ Finish(q)
                              /\ UNCHANGED expirer
       \/ \E e \in Expirers : /\ expirer[e].pc # "idle"
                              /\ spoilt' = IF Recomputing(e) THEN spoilt \cup expirer[e].todo ELSE spoilt
                              /\ expirer' = [expirer EXCEPT ![e] = IdleExpirer]
                              /\ UNCHANGED req
    /\ UNCHANGED <<shut, parts, link, grant, due, total, badge, badgeTold, doubled, silent>>

Requested(q) == \E p \in AllParts : LookUp(q, p) \/ Accept(q, p)

GoOn(q) ==
    \/ Submit(q) \/ Grant(q) \/ SumUp(q) \/ ReadUser(q) \/ SaveTotal(q) \/ Tell(q)
    \/ Vouch(q) \/ Award(q) \/ SumOwner(q) \/ SaveOwner(q)

ExpirerStep(e) ==
    ListExpired(e) \/ Mark(e) \/ SaveExpired(e) \/ \E u \in Creators : SumExpired(e, u)

NextTokens ==
    \/ \E q \in Requests : Requested(q) \/ GoOn(q)
    \/ \E e \in Expirers : ExpirerStep(e)
    \/ \E p \in AllParts : Participate(p) \/ Reject(p)
    \/ \E k \in Campaigns : TogglePause(k)
    \/ \E g \in DOMAIN grant : RowExpires(g)
    \/ CrashTokens

SpecTokens == InitTokens /\ [][NextTokens]_tokenVars

\* The cron fires every day and each run goes on.
CronFires == \A e \in Expirers : WF_tokenVars(ExpirerStep(e))

-----------------------------------------------------------------------------
(* Properties.                                                             *)

\* What a request can have seen of the ledger.
Views == UNION {[S -> BOOLEAN] : S \in SUBSET DOMAIN grant}

\* The shape of every variable.
TypeOK ==
    /\ shut \subseteq Campaigns /\ parts \subseteq AllParts
    /\ link \in [AllParts -> LinkStatus]
    /\ grant \in Seq(GrantRec)
    /\ due \subseteq DOMAIN grant
    /\ total \in [Creators -> Nat]
    /\ badge \in [Creators -> RankCount]
    /\ badgeTold \in [Creators -> SUBSET RankCount]
    /\ req \in [Requests -> [pc : ReqPc, p : AllParts, sum : Nat, seen : Views,
                             total : Nat, badge : RankCount]]
    /\ expirer \in [Expirers -> [pc : {"idle", "mark", "users", "save"},
                                 rows : SUBSET DOMAIN grant,
                                 todo : SUBSET Creators, who : Creators, sum : Nat,
                                 seen : Views]]
    /\ doubled \subseteq AllParts
    /\ spoilt \subseteq Creators /\ silent \subseteq Creators
    /\ killed \in Nat

\* While nobody is at work on a creator's tokens, totalTokens is the sum of the rows
\* that have not expired and the badge is the one it earns: unless the last to save
\* them wrote an outdated sum, skipped a column for an outdated copy, or was killed.
Settling(u) ==
    \/ \E q \in Requests : Updating(q) /\ Who(q) = u
    \/ \E e \in Expirers : Recomputing(e) /\ u \in expirer[e].todo
TotalsAddUp ==
    \A u \in Creators \ spoilt : ~Settling(u) =>
        total[u] = Sum(u) /\ badge[u] = BadgeOf(Sum(u))

\* A campaign pays a creator's live link once, whatever staff decide about it later,
\* unless two requests were submitting it at the same time.
LinkRows(p) == {g \in DOMAIN grant : <<grant[g].camp, grant[g].who>> = p /\ grant[g].by = "link"}
LinkPaysOnce == \A p \in AllParts \ doubled : Cardinality(LinkRows(p)) <= 1

\* A creator who holds a badge has been told of it or of a higher one, or is about to
\* be, unless staff or the expiry cron gave it, or a request was killed.
BadgeWasTold ==
    \A u \in Creators \ silent : badge[u] > 0 =>
        \/ killed > 0
        \/ \E b \in badgeTold[u] : b >= badge[u]
        \/ \E q \in Requests : req[q].pc = "tell" /\ Who(q) = u /\ BadgeOf(req[q].sum) >= badge[u]

\* Tokens do not outlive their year: the cron marks every row that is due.
TokensExpire ==
    \A g \in 1 .. MaxGrants :
        (g \in due /\ grant[g].live) ~> (g \in due /\ ~grant[g].live)
=============================================================================
