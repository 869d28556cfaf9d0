------------------------------ MODULE Accounts ------------------------------
(***************************************************************************)
(* The accounts of one person: rows of users, the one-time codes of the    *)
(* person's mailbox, and the name that Apple delivers once.  The person    *)
(* signs up, signs in with a password, a code or one of the providers,     *)
(* resets the password, changes mailbox and name, and closes the account;  *)
(* staff invite, suspend, reactivate, ban and delete.  A request goes on   *)
(* from one call of the database to the next while others run.             *)
(*                                                                         *)
(* Passwords are there or not, tokens are issued or not; that a code or a  *)
(* password was right is the premise of the actions that need it.          *)
(***************************************************************************)
EXTENDS Integers

CONSTANTS
    Rows,          \* rows that users may come to hold
    Providers,     \* the providers at which the person has an identity
    Requests,      \* requests handled at one time
    MaxCalls,      \* bound: requests
    MaxIncidents   \* bound: acts of staff and requests that are cut off, together

Types == {"registration", "login", "password-reset"}

ASSUME AccountsConstants ==
    /\ Providers \subseteq {"google", "tiktok", "instagram", "facebook", "apple"}
    /\ MaxCalls \in Nat /\ MaxIncidents \in Nat

VARIABLES
    users,        \* the rows: state, role, mail, ids, verified, active, banned, closed,
                  \* apply, name, password, setUp
    otps,         \* the codes of the mailbox: number, type, verified, expired
    cache,        \* apple_name_cache holds the person's name
    requests,     \* each request: the call it is about to make, and its locals
    sessions,     \* rows for which a token was issued
    newest,       \* history: of each type, the code mailed last if it is still
                  \* unused and nobody has asked for another; 0 if there is none
    owed,         \* history: the name was stashed and is on no account: "no",
                  \* "yes", or "raced" if a request was past its look at the stash
    overtaken,    \* history: rows closed while a request that had found them open was
                  \* about to link an identity to them or to change their mailbox, and
                  \* closed rows that staff have reactivated
    calls, incidents,
    issued        \* codes that were ever issued

acctHistory == <<newest, owed, overtaken>>
acctBounds == <<calls, incidents>>
acctVars == <<users, otps, cache, requests, sessions, issued, acctHistory, acctBounds>>

NoRow == [state |-> "none", role |-> "none", mail |-> "none", ids |-> {}, verified |-> FALSE,
          active |-> TRUE, banned |-> FALSE, closed |-> FALSE, apply |-> TRUE, name |-> "none",
          password |-> FALSE, setUp |-> FALSE]

NoRequest == [at |-> "idle", rows |-> {}, via |-> "none", mail |-> "none", name |-> "none",
              type |-> "none", code |-> 0]

InitAccounts ==
    /\ users = [r \in Rows |-> NoRow]
    /\ otps = {} /\ cache = FALSE
    /\ requests = [q \in Requests |-> NoRequest]
    /\ sessions = {}
    /\ newest = [t \in Types |-> 0] /\ owed = "no" /\ overtaken = {}
    /\ calls = 0 /\ incidents = 0 /\ issued = 0

\* Rows that the models see: those that are not (softly) deleted.
Live == {r \in Rows : users[r].state = "live"}
FindByEmail(m) == {r \in Live : users[r].mail = m}
FindById(v) == {r \in Live : v \in users[r].ids}

MailTaken(m) == \E r \in Rows : users[r].mail = m
IdTaken(v, r) == \E o \in Rows \ {r} : v \in users[o].ids

\* checkAndReactivateUser, which in spite of its name lets in or refuses.
MayEnter(r) == ~users[r].banned /\ users[r].active /\ ~users[r].closed

\* The guard of every request that carries a token.
Authorised(r) == r \in sessions \cap Live /\ ~users[r].banned /\ users[r].active

Call(q, locals) ==
    /\ requests[q].at = "idle" /\ calls < MaxCalls
    /\ requests' = [requests EXCEPT ![q] = locals]
    /\ calls' = calls + 1
    /\ UNCHANGED incidents

GoTo(q, step) == requests' = [requests EXCEPT ![q].at = step]
End(q) == requests' = [requests EXCEPT ![q] = NoRequest]
Row(q) == CHOOSE r \in requests[q].rows : TRUE

\* A request is refused, fails, or its process is killed.
CutOff(q) ==
    /\ requests[q].at # "idle" /\ incidents < MaxIncidents
    /\ End(q) /\ incidents' = incidents + 1
    /\ UNCHANGED <<users, otps, issued, cache, sessions, acctHistory, calls>>

-----------------------------------------------------------------------------
(* One-time codes: generateOtp deletes the codes of the type, then creates *)
(* one.                                                                    *)

\* Mutant of DeleteByEmailAndType: the codes of every type go.
DeleteByEmail(type) == {}

DeleteByEmailAndType(type) == {c \in otps : c.type # type}

Wipe(q) ==
    /\ requests[q].at = "wipe" /\ GoTo(q, "issue")
    /\ otps' = DeleteByEmailAndType(requests[q].type)
    /\ newest' = [newest EXCEPT ![requests[q].type] = 0]
    /\ UNCHANGED <<issued, users, cache, sessions, owed, overtaken, acctBounds>>

Issue(q) ==
    /\ requests[q].at = "issue" /\ End(q)
    /\ otps' = otps \cup {[id |-> issued + 1, type |-> requests[q].type, verified |-> FALSE,
                           expired |-> FALSE]}
    /\ issued' = issued + 1
    /\ newest' = [newest EXCEPT ![requests[q].type] = issued + 1]
    /\ UNCHANGED <<users, cache, sessions, owed, overtaken, acctBounds>>

AskCode(q, type) == Call(q, [NoRequest EXCEPT !.at = "wipe", !.type = type])

Expire ==
    /\ incidents < MaxIncidents /\ incidents' = incidents + 1
    /\ \E c \in otps : /\ ~c.expired
                       /\ otps' = (otps \ {c}) \cup {[c EXCEPT !.expired = TRUE]}
    /\ UNCHANGED <<issued, users, cache, requests, sessions, acctHistory, calls>>

SendOtp(q) == AskCode(q, "login") /\ UNCHANGED <<users, otps, issued, cache, sessions, acctHistory>>

ForgotPassword(q) ==
    /\ FindByEmail("own") # {} /\ AskCode(q, "password-reset")
    /\ UNCHANGED <<users, otps, issued, cache, sessions, acctHistory>>

AdminForgotPassword(q) ==
    /\ \E r \in FindByEmail("own") : users[r].role = "staff"
    /\ AskCode(q, "password-reset")
    /\ UNCHANGED <<users, otps, issued, cache, sessions, acctHistory>>

\* The code of a password reset is marked, every other is spent; staff spend both.
VerifyOtp(q) ==
    \E c \in otps :
        /\ ~c.expired
        /\ Call(q, [NoRequest EXCEPT !.code = c.id, !.type = c.type,
                        !.at = IF c.type = "password-reset" THEN "mark" ELSE "spend"])
        /\ UNCHANGED <<users, otps, issued, cache, sessions, acctHistory>>

AdminVerifyOtp(q) ==
    \E c \in otps :
        /\ ~c.expired
        /\ Call(q, [NoRequest EXCEPT !.code = c.id, !.type = c.type, !.at = "drop"])
        /\ UNCHANGED <<users, otps, issued, cache, sessions, acctHistory>>

MarkAsVerified(q) ==
    /\ requests[q].at = "mark" /\ End(q)
    /\ otps' = {IF c.type = "password-reset" THEN [c EXCEPT !.verified = TRUE] ELSE c : c \in otps}
    /\ newest' = [newest EXCEPT !["password-reset"] = 0]
    /\ UNCHANGED <<issued, users, cache, sessions, owed, overtaken, acctBounds>>

DeleteById(q) ==
    LET code == requests[q].code
    IN  /\ otps' = {c \in otps : c.id # code}
        /\ newest' = [t \in Types |-> IF newest[t] = code THEN 0 ELSE newest[t]]

DropCode(q) ==
    /\ requests[q].at = "drop" /\ End(q) /\ DeleteById(q)
    /\ UNCHANGED <<issued, users, cache, sessions, owed, overtaken, acctBounds>>

\* The code is deleted, then the account of the mailbox is verified and signed in.
SpendCode(q) ==
    LET mine == {r \in FindByEmail("own") : MayEnter(r)}
    IN  /\ requests[q].at = "spend" /\ End(q) /\ DeleteById(q)
        /\ users' = [r \in Rows |-> IF r \in mine THEN [users[r] EXCEPT !.verified = TRUE]
                                    ELSE users[r]]
        /\ sessions' = sessions \cup mine
        /\ UNCHANGED <<issued, cache, owed, overtaken, acctBounds>>

VerifiedCodes == {c \in otps : c.type = "password-reset" /\ c.verified}

ResetPassword(q) ==
    /\ FindByEmail("own") # {} /\ VerifiedCodes # {}
    /\ Call(q, [NoRequest EXCEPT !.at = "reset", !.rows = FindByEmail("own")])
    /\ UNCHANGED <<users, otps, issued, cache, sessions, acctHistory>>

WritePassword(q) ==
    /\ requests[q].at = "reset" /\ GoTo(q, "consume")
    /\ users' = [users EXCEPT ![Row(q)].password = TRUE]
    /\ UNCHANGED <<issued, otps, cache, sessions, acctHistory, acctBounds>>

\* The verified code that was created last is deleted.
ConsumeCode(q) ==
    /\ requests[q].at = "consume" /\ End(q)
    /\ otps' = {c \in otps : c \notin VerifiedCodes \/ \E o \in VerifiedCodes : o.id > c.id}
    /\ UNCHANGED <<issued, users, cache, sessions, acctHistory, acctBounds>>

-----------------------------------------------------------------------------
(* Sign-up, and sign-in with a password.                                   *)

\* An account that is there is taken over as long as it is not verified.
Signup(q) ==
    /\ \A r \in FindByEmail("own") : ~users[r].verified
    /\ \E name \in {"own", "none"} :
         Call(q, [NoRequest EXCEPT !.at = "register", !.name = name, !.mail = "own",
                                   !.type = "registration", !.rows = FindByEmail("own")])
    /\ UNCHANGED <<users, otps, issued, cache, sessions, acctHistory>>

\* resolveSignupRole: the roles that a request may ask for.
SignupRoles == {"creator", "brand"}

Fresh == {r \in Rows : users[r].state = "none"}

\* The unique indexes hold over deleted rows too.
Insert(row) ==
    \E r \in Fresh :
        /\ ~MailTaken(row.mail) /\ \A v \in row.ids : ~IdTaken(v, r)
        /\ users' = [users EXCEPT ![r] = [row EXCEPT !.state = "live"]]

Register(q) ==
    LET me == requests[q]
    IN  /\ me.at = "register" /\ GoTo(q, "wipe")
        /\ \/ /\ me.rows # {}
              /\ users' = [users EXCEPT ![Row(q)].name = me.name, ![Row(q)].password = TRUE]
           \/ /\ me.rows = {}
              /\ \E role \in SignupRoles :
                   Insert([NoRow EXCEPT !.mail = "own", !.name = me.name, !.password = TRUE,
                                        !.role = role])
        /\ UNCHANGED <<issued, otps, cache, sessions, acctHistory, acctBounds>>

\* A sign-in before the mailbox is verified mails another code.
Login(q) ==
    \E r \in FindByEmail("own") :
        /\ users[r].password /\ MayEnter(r)
        /\ \/ /\ ~users[r].verified /\ AskCode(q, "registration")
              /\ UNCHANGED <<users, sessions>>
           \/ /\ users[r].verified /\ Call(q, NoRequest)
              /\ users' = [users EXCEPT ![r].setUp = TRUE]
              /\ sessions' = sessions \cup {r}
        /\ UNCHANGED <<issued, otps, cache, acctHistory>>

AdminLogin(q) ==
    \E r \in FindByEmail("own") :
        /\ users[r].password /\ users[r].role = "staff" /\ users[r].active
        /\ Call(q, NoRequest)
        /\ users' = [users EXCEPT ![r].setUp = TRUE]
        /\ sessions' = sessions \cup {r}
        /\ UNCHANGED <<issued, otps, cache, acctHistory>>

-----------------------------------------------------------------------------
(* Sign-in with a provider.                                                *)

\* The address that the provider tells, and the name if Apple tells it.
SocialLogin(q, v, mails, names) ==
    /\ v \in Providers
    /\ \E mail \in mails, name \in names :
         Call(q, [NoRequest EXCEPT !.at = IF name = "apple" THEN "stash" ELSE "find", !.via = v,
                                   !.mail = mail, !.name = name])
    /\ UNCHANGED <<users, otps, issued, cache, sessions, acctHistory>>

\* Google tells the mailbox, TikTok and Instagram make up an address, and with Facebook
\* and Apple the person may keep the mailbox back.
GoogleLogin(q) == SocialLogin(q, "google", {"own"}, {"own"})
TiktokLogin(q) == SocialLogin(q, "tiktok", {"tiktok"}, {"own"})
InstagramLogin(q) == SocialLogin(q, "instagram", {"instagram"}, {"own"})
FacebookLogin(q) == SocialLogin(q, "facebook", {"own", "facebook"}, {"own"})
AppleLogin(q) == SocialLogin(q, "apple", {"own", "apple"}, {"apple", "none"})

\* Requests that have looked for a stashed name and may yet delete it.
PastTheStash ==
    {q \in Requests : requests[q].via = "apple" /\ requests[q].at \in {"make", "heal", "clean"}}

\* A cache that cannot be written must not break the sign-in.
UpsertAppleNameCache(q) ==
    /\ requests[q].at = "stash" /\ GoTo(q, "find")
    /\ \/ cache' = TRUE /\ owed' = IF PastTheStash = {} THEN "yes" ELSE "raced"
       \/ UNCHANGED <<cache, owed>>
    /\ UNCHANGED <<issued, users, otps, sessions, newest, overtaken, acctBounds>>

\* By the identity, then by the mailbox if the provider told it.
FindUser(q) ==
    LET me == requests[q]
        byId == FindById(me.via)
        byMail == IF me.mail = "own" THEN FindByEmail("own") ELSE {}
    IN  /\ me.at = "find"
        /\ requests' = [requests EXCEPT
             ![q].rows = IF byId # {} THEN byId ELSE byMail,
             ![q].at = CASE byId # {} -> "names" [] byId = {} /\ byMail # {} -> "link"
                         [] OTHER -> "names"]
        /\ UNCHANGED <<users, otps, issued, cache, sessions, acctHistory, acctBounds>>

\* The identity is added to the account of the mailbox, which is there and verified
\* by that.
LinkIdentity(q) ==
    LET r == Row(q)
        v == requests[q].via
    IN  /\ requests[q].at = "link" /\ GoTo(q, "names")
        /\ r \in Live /\ ~IdTaken(v, r)
        /\ users' = [users EXCEPT ![r].ids = @ \cup {v}, ![r].verified = TRUE]
        /\ UNCHANGED <<issued, otps, cache, sessions, acctHistory, acctBounds>>

\* Mutant of LookForName: the stash is not looked at.
LookForNameTold(q) ==
    LET me == requests[q]
        heals == me.rows # {} /\ me.name = "apple" /\ users[Row(q)].name = "none"
    IN  /\ me.at = "names"
        /\ requests' = [requests EXCEPT
             ![q].at = IF me.rows = {} THEN "make" ELSE "heal",
             ![q].name = IF me.rows = {} \/ heals THEN me.name ELSE "none"]
        /\ UNCHANGED <<users, otps, issued, cache, sessions, acctHistory, acctBounds>>

\* The name: for a new account what the request brought, what the stash holds or what
\* the address of the mailbox says; for one that was found and has a placeholder,
\* what Apple told now or before.
LookForName(q) ==
    LET me == requests[q]
        apples == me.via = "apple" /\ (me.name = "apple" \/ cache)
        derived == IF me.mail = "own" THEN {"own", "none"} ELSE {"none"}
    IN  /\ me.at = "names"
        /\ \/ /\ me.rows = {}
              /\ \E name \in CASE me.via # "apple" -> {"own"} [] apples -> {"apple"}
                              [] OTHER -> derived :
                   requests' = [requests EXCEPT ![q].name = name, ![q].at = "make"]
           \/ /\ me.rows # {}
              /\ requests' = [requests EXCEPT ![q].at = "heal", ![q].name =
                                IF apples /\ users[Row(q)].name = "none" THEN "apple" ELSE "none"]
        /\ UNCHANGED <<users, otps, issued, cache, sessions, acctHistory, acctBounds>>

NameUsed(name) == owed' = IF name = "apple" THEN "no" ELSE owed

\* A new account: it is refused if sign-up is switched off or the terms were not
\* accepted (CutOff), and by the unique indexes.
MakeAccount(q) ==
    LET me == requests[q]
    IN  /\ me.at = "make"
        /\ \E role \in SignupRoles :
             Insert([NoRow EXCEPT !.mail = me.mail, !.ids = {me.via}, !.verified = TRUE,
                                  !.name = me.name, !.role = role])
        /\ requests' = [requests EXCEPT ![q].rows = {r \in Rows : users'[r] # users[r]},
                                        ![q].at = IF me.via = "apple" THEN "clean" ELSE "enter"]
        /\ NameUsed(me.name)
        /\ UNCHANGED <<issued, otps, cache, sessions, newest, overtaken, acctBounds>>

\* An account that was found is verified, and its placeholder gives way.
HealAccount(q) ==
    LET heals == requests[q].name = "apple"
        r == Row(q)
    IN  /\ requests[q].at = "heal" /\ r \in Live /\ GoTo(q, IF heals THEN "clean" ELSE "enter")
        /\ users' = [users EXCEPT ![r].verified = TRUE, ![r].name = IF heals THEN "apple" ELSE @]
        /\ NameUsed(requests[q].name)
        /\ UNCHANGED <<issued, otps, cache, sessions, newest, overtaken, acctBounds>>

\* The stash is emptied once its name was used, or was not needed.
CleanCache(q) ==
    /\ requests[q].at = "clean" /\ GoTo(q, "enter")
    /\ cache' = FALSE
    /\ UNCHANGED <<issued, users, otps, sessions, acctHistory, acctBounds>>

\* Sign-in may be switched off (CutOff); a token is issued for an account in order.
Enter(q) ==
    /\ requests[q].at = "enter" /\ End(q)
    /\ sessions' = sessions \cup {r \in Live \cap requests[q].rows : MayEnter(r)}
    /\ UNCHANGED <<issued, users, otps, cache, acctHistory, acctBounds>>

-----------------------------------------------------------------------------
(* What the holder of an account and staff do to it.                       *)

ChangeRow(r, row) ==
    /\ users' = [users EXCEPT ![r] = row]
    /\ UNCHANGED <<otps, issued, cache, requests, sessions, newest, owed>>

\* The holder gives another mailbox, that no account has, or none; and a name, or none.
UpdateEmail(q, r) ==
    /\ Authorised(r)
    /\ \E mail \in {"own", "other", "none"} \ {users[r].mail}, name \in {"own", "none"} :
         /\ FindByEmail(mail) = {}
         /\ Call(q, [NoRequest EXCEPT !.at = IF mail = "none" THEN "rename" ELSE "mailbox",
                                      !.rows = {r}, !.mail = mail, !.name = name])
    /\ UNCHANGED <<users, otps, issued, cache, sessions, acctHistory>>

\* What was given is written over the row, which may have been closed meanwhile.
WriteEmail(q) ==
    LET me == requests[q]
        r == Row(q)
    IN  /\ me.at \in {"mailbox", "rename"} /\ End(q) /\ r \in Live
        /\ me.at = "mailbox" => \A o \in Rows \ {r} : users[o].mail # me.mail
        /\ users' = [users EXCEPT ![r].mail = IF me.at = "mailbox" THEN me.mail ELSE @,
                                  ![r].name = IF me.name = "none" THEN @ ELSE me.name]
        /\ UNCHANGED <<issued, otps, cache, sessions, acctHistory, acctBounds>>

\* Mutant of Closed: the mailbox only is freed.
ClosedMailbox(row) == [row EXCEPT !.active = FALSE, !.closed = TRUE, !.mail = "freed"]

\* Every unique column is freed.
Closed(row) == [row EXCEPT !.active = FALSE, !.closed = TRUE, !.mail = "freed", !.ids = {}]

Holding(r) ==
    \E q \in Requests : requests[q].at \in {"link", "mailbox"} /\ r \in requests[q].rows

DeactivateAccount(r) ==
    /\ Authorised(r) /\ incidents < MaxIncidents /\ incidents' = incidents + 1
    /\ overtaken' = IF Holding(r) THEN overtaken \cup {r} ELSE overtaken
    /\ ChangeRow(r, Closed(users[r]))
    /\ UNCHANGED calls

ChangePassword(r) ==
    /\ Authorised(r) /\ ~users[r].password
    /\ ChangeRow(r, [users[r] EXCEPT !.password = TRUE])
    /\ UNCHANGED <<overtaken, acctBounds>>

\* The person asks Meta to have what was received from it deleted.
EraseIdentity(r, v) ==
    /\ v \in users[r].ids \cap {"facebook", "instagram"} /\ r \in Live
    /\ ChangeRow(r, [users[r] EXCEPT !.ids = @ \ {v}])
    /\ UNCHANGED <<overtaken, acctBounds>>

Moderate(r, row) ==
    /\ r \in Live /\ row # users[r]
    /\ incidents < MaxIncidents /\ incidents' = incidents + 1
    /\ overtaken' = IF users[r].closed /\ row.active THEN overtaken \cup {r} ELSE overtaken
    /\ ChangeRow(r, row)
    /\ UNCHANGED calls

Suspended(row) == [row EXCEPT !.active = FALSE]
Reactivated(row) == [row EXCEPT !.active = TRUE]
Banned(row) == [row EXCEPT !.banned = TRUE, !.active = FALSE]

UpdateCreatorCampaignAccess(r) ==
    users[r].role = "creator" /\ Moderate(r, [users[r] EXCEPT !.apply = ~@])
SuspendCreator(r) == users[r].role = "creator" /\ Moderate(r, Suspended(users[r]))
ReactivateCreator(r) == users[r].role = "creator" /\ Moderate(r, Reactivated(users[r]))
BanCreator(r) == users[r].role = "creator" /\ Moderate(r, Banned(users[r]))

SuspendBrand(r) == users[r].role = "brand" /\ Moderate(r, Suspended(users[r]))
ReactivateBrand(r) == users[r].role = "brand" /\ Moderate(r, Reactivated(users[r]))
BanBrand(r) == users[r].role = "brand" /\ Moderate(r, Banned(users[r]))

\* The owner, whom nobody may touch, and staff who act on themselves are left out.
SuspendAdmin(r) == users[r].role = "staff" /\ Moderate(r, Suspended(users[r]))
ReactivateAdmin(r) == users[r].role = "staff" /\ Moderate(r, Reactivated(users[r]))
BanUser(r) == Moderate(r, Banned(users[r]))

\* The mailbox is freed so that it can be invited again, then the row is deleted.
DeleteAdmin(r) ==
    /\ users[r].role = "staff"
    /\ Moderate(r, [users[r] EXCEPT !.mail = "freed", !.active = FALSE, !.state = "gone"])

PendingInvite == {c \in otps : c.type = "password-reset"}

\* A mailbox that has an account is invited anew unless that is set up.
InviteAdmin(q) ==
    /\ \/ /\ \E r \in FindByEmail("own") : PendingInvite # {} \/ ~users[r].setUp
          /\ UNCHANGED users
       \/ /\ FindByEmail("own") = {}
          /\ Insert([NoRow EXCEPT !.mail = "own", !.name = "own", !.verified = TRUE,
                                  !.password = TRUE, !.role = "staff"])
    /\ AskCode(q, "password-reset")
    /\ UNCHANGED <<otps, issued, cache, sessions, acctHistory>>

ResendInvite(q) ==
    /\ \E r \in FindByEmail("own") : users[r].role = "staff" /\ ~users[r].setUp
    /\ AskCode(q, "password-reset")
    /\ UNCHANGED <<users, otps, issued, cache, sessions, acctHistory>>

-----------------------------------------------------------------------------
NextAccounts ==
    \/ \E q \in Requests :
         \/ Wipe(q) \/ Issue(q) \/ SendOtp(q) \/ ForgotPassword(q) \/ AdminForgotPassword(q)
         \/ VerifyOtp(q) \/ AdminVerifyOtp(q) \/ MarkAsVerified(q) \/ DropCode(q) \/ SpendCode(q)
         \/ ResetPassword(q) \/ WritePassword(q) \/ ConsumeCode(q)
         \/ Signup(q) \/ Register(q) \/ Login(q) \/ AdminLogin(q)
         \/ GoogleLogin(q) \/ TiktokLogin(q) \/ InstagramLogin(q) \/ FacebookLogin(q)
         \/ AppleLogin(q)
         \/ UpsertAppleNameCache(q) \/ FindUser(q) \/ LinkIdentity(q) \/ LookForName(q)
         \/ MakeAccount(q) \/ HealAccount(q) \/ CleanCache(q) \/ Enter(q)
         \/ InviteAdmin(q) \/ ResendInvite(q) \/ CutOff(q)
         \/ \E r \in Rows : UpdateEmail(q, r)
         \/ WriteEmail(q)
    \/ Expire
    \/ \E r \in Rows :
         \/ DeactivateAccount(r) \/ ChangePassword(r)
         \/ \E v \in Providers : EraseIdentity(r, v)
         \/ UpdateCreatorCampaignAccess(r)
         \/ SuspendCreator(r) \/ ReactivateCreator(r) \/ BanCreator(r)
         \/ SuspendBrand(r) \/ ReactivateBrand(r) \/ BanBrand(r)
         \/ SuspendAdmin(r) \/ ReactivateAdmin(r) \/ BanUser(r) \/ DeleteAdmin(r)

SpecAccounts == InitAccounts /\ [][NextAccounts]_acctVars

-----------------------------------------------------------------------------
(* Properties.                                                             *)

\* Apple tells a name once, often to a request that makes no account; until an account
\* has taken it, it is kept (auth.service.ts:881-885).  Two requests of the person that
\* overlap may lose it.
NameKept == owed = "yes" => cache

\* A person who has closed an account can come back: it keeps neither the mailbox nor an
\* identity (profile.service.ts:455-466), unless the closing was overtaken.  A request that
\* had found the account open may still link an identity to it, or write a new mailbox over
\* the closed row (profile.service.ts:130); and staff who reactivate it let its holder in
\* again, for deactivatedAt keeps a sign-in out but not a token (jwt-auth.guard.ts:39-46).
ClosedIsFree ==
    \A r \in Rows \ overtaken : users[r].closed => users[r].mail = "freed" /\ users[r].ids = {}

\* The code mailed last works until it is used, whatever codes of other kinds are asked
\* for and used in between and whichever requests overlap (otp.service.ts:9-34).
NewestCodeWorks == \A t \in Types : newest[t] # 0 => \E c \in otps : c.id = newest[t]
=============================================================================
