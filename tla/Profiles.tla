------------------------------ MODULE Profiles -------------------------------
(***************************************************************************)
(* What a person's row of users says of the person, written by requests    *)
(* that check first and write later: the user name, the bank account that  *)
(* payouts go to, the name it is checked against, and the rating that      *)
(* repeats the reviews of brands.                                          *)
(*                                                                         *)
(* The service checks against one read of the row, reads the row again to  *)
(* update it, and the update saves the columns that differ from that read. *)
(* Bank, its name and code are one column here.  The mock of the bank      *)
(* outside production is left out.                                         *)
(***************************************************************************)
EXTENDS Integers, FiniteSets, FiniteSetsExt

CONSTANTS
    People,         \* the users
    UserNames,      \* user names that are asked for
    FullNames,      \* first and last names of users
    NameAtFirst,    \* of each user
    Codes, Numbers, \* banks, and account numbers
    Holders,        \* names on accounts
    HolderOf,       \* the name on the account with a number at a bank
    Containing,     \* of a user's name the names on accounts that contain its first or last
    Reviewed,       \* completed campaigns
    TeamOf,         \* of each the creators that took part
    Stars,          \* ratings
    Edits,          \* requests handled at one time
    MaxEdits        \* bound: requests

ASSUME ProfilesConstants ==
    /\ NameAtFirst \in [People -> FullNames] /\ Containing \in [FullNames -> SUBSET Holders]
    /\ HolderOf \in [Codes \X Numbers -> Holders]
    /\ TeamOf \in [Reviewed -> SUBSET People] /\ Stars \subseteq 1..5 /\ MaxEdits \in Nat

VARIABLES
    person,      \* the rows: username, name, code, number, holder, avg (in hundredths), total
    reviews,     \* campaign_reviews that are committed: campaign, creator, stars
    edit,        \* each request: the step it is about to take, and its locals
    mixed,       \* history: users whose last updates of the bank account overlapped, or whose
                 \* last one was not verified
    renamed,     \* history: users whose name is another than the one last checked
    outpaced,    \* history: creators whose last reviews overlapped
    raced,       \* history: user names asked for without a check, or by two at one time
    edits

profileVars == <<person, reviews, edit, mixed, renamed, outpaced, raced, edits>>

NoEdit == [at |-> "idle", kind |-> "none", user |-> "none", changes |-> <<>>, read |-> <<>>,
           name |-> "none", campaign |-> "none", stars |-> 0, avg |-> 0, total |-> 0, alone |-> TRUE]

InitProfiles ==
    /\ person = [u \in People |-> [username |-> u, name |-> NameAtFirst[u], code |-> "none",
                                   number |-> "none", holder |-> "none", avg |-> 0, total |-> 0]]
    /\ reviews = {} /\ edit = [c \in Edits |-> NoEdit]
    /\ mixed = {} /\ renamed = {} /\ outpaced = {} /\ raced = {} /\ edits = 0

Beside(me) == {c \in Edits : edit[c].kind = me.kind /\ edit[c].user = me.user}

\* A request is alone if no other of its kind about the user overlaps it.
Start(c, locals) ==
    /\ edit[c].at = "idle" /\ edits < MaxEdits /\ edits' = edits + 1
    /\ edit' = [d \in Edits |->
         IF d = c THEN [locals EXCEPT !.alone = Beside(locals) = {}]
         ELSE IF d \in Beside(locals) THEN [edit[d] EXCEPT !.alone = FALSE] ELSE edit[d]]

-----------------------------------------------------------------------------
(* Columns of the row.                                                     *)

Named(n) == {u \in People : person[u].username = n}
Asking(n) == {c \in Edits : /\ edit[c].kind = "name" /\ "username" \in DOMAIN edit[c].changes
                            /\ edit[c].changes.username = n}

\* The request of c changes the user's names.
Rename(c, u, new) ==
    /\ Start(c, [NoEdit EXCEPT !.at = "read", !.kind = "name", !.user = u, !.changes = new])
    /\ UNCHANGED <<person, reviews, mixed, renamed, outpaced>>

\* A user name that differs must be nobody's.  The first and last name are taken as they are;
\* a sign-in with Apple that heals them does the same.
UpdatePersonalInfo(c, u) ==
    \/ \E name \in FullNames : Rename(c, u, [name |-> name]) /\ UNCHANGED raced
    \/ \E n \in UserNames, name \in FullNames :
        /\ Named(n) = {}
        /\ Rename(c, u, [username |-> n]) \/ Rename(c, u, [username |-> n, name |-> name])
        /\ raced' = IF \E d \in Asking(n) : edit[d].user # u THEN raced \cup {n} ELSE raced

\* The step of onboarding takes the user name as it is, and no other.
BuildProfile(c, u) ==
    \E n \in UserNames : Rename(c, u, [username |-> n]) /\ raced' = raced \cup {n}

SetPayout(c, u, new) ==
    /\ Start(c, [NoEdit EXCEPT !.at = "read", !.kind = "payout", !.user = u, !.changes = new,
                                !.name = person[u].name])
    /\ UNCHANGED <<person, reviews, mixed, renamed, outpaced, raced>>

\* The account is looked up at the bank, the name on it is compared with the user's, and
\* becomes the account name.
Verified(c, u, code, number) ==
    /\ HolderOf[code, number] \in Containing[person[u].name]
    /\ SetPayout(c, u, [code |-> code, number |-> number, holder |-> HolderOf[code, number]])

\* A number of ten blanks is not looked up, nor saved: the bank is, and the account name if
\* one was sent.
Unverified(c, u) ==
    \E code \in Codes :
        \/ SetPayout(c, u, [code |-> code])
        \/ \E holder \in Holders : SetPayout(c, u, [code |-> code, holder |-> holder])

\* Mutant of UpdatePayout: an account number that is on file is not verified again.
UpdatePayoutOnce(c, u) ==
    \/ \E code \in Codes, number \in Numbers :
         IF number # person[u].number THEN Verified(c, u, code, number)
         ELSE SetPayout(c, u, [code |-> code, number |-> number, holder |-> person[u].holder])
    \/ Unverified(c, u)

UpdatePayout(c, u) ==
    \/ \E code \in Codes, number \in Numbers : Verified(c, u, code, number)
    \/ Unverified(c, u)

\* usersService.update: the row is found,
FindRow(c) ==
    /\ edit[c].at = "read"
    /\ edit' = [edit EXCEPT ![c].at = "save", ![c].read = person[edit[c].user]]
    /\ UNCHANGED <<person, reviews, mixed, renamed, outpaced, raced, edits>>

\* and what differs from it is saved.
SaveChanged(c) ==
    LET me == edit[c]
        differing == {k \in DOMAIN me.changes : me.changes[k] # me.read[k]}
    IN  /\ me.at = "save" /\ edit' = [edit EXCEPT ![c] = NoEdit]
        /\ person' = [person EXCEPT ![me.user] =
             [k \in DOMAIN @ |-> IF k \in differing THEN me.changes[k] ELSE @[k]]]
        /\ mixed' = CASE me.kind = "name" -> mixed
                      [] me.kind = "payout" /\ me.alone /\ "number" \in DOMAIN me.changes ->
                           mixed \ {me.user}
                      [] OTHER -> mixed \cup {me.user}
        /\ renamed' = CASE me.kind = "name" /\ "name" \in differing -> renamed \cup {me.user}
                        [] me.kind = "payout" /\ me.name = person[me.user].name ->
                             renamed \ {me.user}
                        [] me.kind = "payout" /\ me.name # person[me.user].name ->
                             renamed \cup {me.user}
                        [] OTHER -> renamed
        /\ UNCHANGED <<reviews, outpaced, raced, edits>>

-----------------------------------------------------------------------------
(* Reviews: insert, recalculation and update of the row are one            *)
(* transaction, which sees what others have committed.                     *)

SubmitReview(c, k, u) ==
    \E stars \in Stars :
        /\ u \in TeamOf[k] /\ \A r \in reviews : r.campaign # k
        /\ Start(c, [NoEdit EXCEPT !.at = "insert", !.kind = "review", !.user = u,
                                    !.campaign = k, !.stars = stars])
        /\ UNCHANGED <<person, reviews, mixed, renamed, outpaced, raced>>

Inserting(k) == {d \in Edits : edit[d].campaign = k /\ edit[d].at \in {"rate", "commit"}}

\* A brand reviews a campaign once: the index waits for a review that is not committed,
\* and refuses a second.
CreateReview(c) ==
    LET me == edit[c]
        there == \E r \in reviews : r.campaign = me.campaign
    IN  /\ me.at = "insert" /\ Inserting(me.campaign) = {}
        /\ edit' = [edit EXCEPT ![c] = IF there THEN NoEdit ELSE [me EXCEPT !.at = "rate"]]
        /\ UNCHANGED <<person, reviews, mixed, renamed, outpaced, raced, edits>>

Of(u) == {r \in reviews : r.creator = u}
Mine(c) == [campaign |-> edit[c].campaign, creator |-> edit[c].user, stars |-> edit[c].stars]

\* The average to two decimals, in hundredths.
Average(rs) ==
    LET n == Cardinality(rs)
        sum == MapThenSumSet(LAMBDA r : r.stars, rs)
    IN  IF n = 0 THEN 0 ELSE (200 * sum + n) \div (2 * n)

\* Mutant of RecalculateCreatorRating: the query runs outside the transaction.
RecalculateOutside(c) ==
    /\ edit[c].at = "rate"
    /\ edit' = [edit EXCEPT ![c].at = "commit", ![c].avg = Average(Of(edit[c].user)),
                            ![c].total = Cardinality(Of(edit[c].user))]
    /\ UNCHANGED <<person, reviews, mixed, renamed, outpaced, raced, edits>>

RecalculateCreatorRating(c) ==
    LET all == Of(edit[c].user) \cup {Mine(c)}
    IN  /\ edit[c].at = "rate"
        /\ edit' = [edit EXCEPT ![c].at = "commit", ![c].avg = Average(all),
                                ![c].total = Cardinality(all)]
        /\ UNCHANGED <<person, reviews, mixed, renamed, outpaced, raced, edits>>

CommitReview(c) ==
    LET me == edit[c]
    IN  /\ me.at = "commit" /\ edit' = [edit EXCEPT ![c] = NoEdit]
        /\ reviews' = reviews \cup {Mine(c)}
        /\ person' = [person EXCEPT ![me.user].avg = me.avg, ![me.user].total = me.total]
        /\ outpaced' = IF me.alone THEN outpaced \ {me.user} ELSE outpaced \cup {me.user}
        /\ UNCHANGED <<mixed, renamed, raced, edits>>

NextProfiles ==
    \E c \in Edits :
        \/ \E u \in People :
             \/ UpdatePersonalInfo(c, u) \/ BuildProfile(c, u) \/ UpdatePayout(c, u)
             \/ \E k \in Reviewed : SubmitReview(c, k, u)
        \/ FindRow(c) \/ SaveChanged(c)
        \/ CreateReview(c) \/ RecalculateCreatorRating(c) \/ CommitReview(c)

SpecProfiles == InitProfiles /\ [][NextProfiles]_profileVars

-----------------------------------------------------------------------------
(* Properties.                                                             *)

\* What was checked before the row was written holds of what is in the row
\* (profile.service.ts:54, :287): bank, number and account name are one account that the
\* bank knows, unless two updates of it overlapped and each saved what it found changed, or
\* the last had no number to look up (:316); the name on it contains the user's first or last,
\* unless that name was changed since it was compared (:53); and a user name is one person's,
\* unless it was asked for without a check or by two at one time.
ChecksHold ==
    /\ \A u \in People \ mixed :
         LET p == person[u]
         IN  p.code # "none" => /\ p.holder = HolderOf[p.code, p.number]
                                /\ u \in renamed \/ p.holder \in Containing[p.name]
    /\ \A u, w \in People :
         person[u].username = person[w].username => u = w \/ person[u].username \in raced

\* The rating on a creator's row is that of the creator's reviews, unless the last two
\* overlapped: the transaction that recalculates does not see what the other has not
\* committed (campaigns.service.ts:2022-2050).
RatingFollows ==
    \A u \in People \ outpaced : /\ person[u].avg = Average(Of(u))
                                 /\ person[u].total = Cardinality(Of(u))
=============================================================================
