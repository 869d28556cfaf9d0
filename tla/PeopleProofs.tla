---------------------------- MODULE PeopleProofs ----------------------------
(***************************************************************************)
(* Theorems about accounts, the settings of tiers, social connections,     *)
(* profiles, the readings of posts and the lists.  These share no          *)
(* variable: each has an inductive invariant of its own, and one lemma for *)
(* each step of its next-state relation.                                   *)
(***************************************************************************)
EXTENDS Accounts, Socials, Metrics, Profiles, Settings, Books, Sums,
        FiniteSetTheorems, SequenceTheorems, TLAPS

-----------------------------------------------------------------------------
(* Accounts.                                                               *)

Mails == {"none", "own", "other", "freed", "tiktok", "instagram", "facebook", "apple"}
Names == {"none", "own", "apple"}
RowRec == [state : {"none", "live", "gone"}, role : {"none", "creator", "brand", "staff"}, mail : Mails,
           ids : SUBSET Providers, verified : BOOLEAN, active : BOOLEAN, banned : BOOLEAN,
           closed : BOOLEAN, apply : BOOLEAN, name : Names, password : BOOLEAN, setUp : BOOLEAN]
CodeRec == [id : Nat, type : Types, verified : BOOLEAN, expired : BOOLEAN]
RequestRec == [at : {"idle", "wipe", "issue", "mark", "drop", "spend", "reset", "consume", "register",
                     "stash", "find", "link", "names", "make", "heal", "clean", "enter",
                     "mailbox", "rename"},
               rows : SUBSET Rows, via : Providers \cup {"none"}, mail : Mails, name : Names,
               type : Types \cup {"none"}, code : Nat]

AccountsTypeOK ==
    /\ users \in [Rows -> RowRec] /\ otps \subseteq CodeRec /\ cache \in BOOLEAN
    /\ requests \in [Requests -> RequestRec] /\ sessions \subseteq Rows
    /\ newest \in [Types -> Nat] /\ owed \in {"no", "yes", "raced"} /\ overtaken \subseteq Rows
    /\ calls \in 0 .. MaxCalls /\ incidents \in 0 .. MaxIncidents /\ issued \in Nat

\* A request has the kind of code that it asks for, and whom it is about to sign in.
Asks(q) ==
    LET me == requests[q]
    IN  /\ me.at \in {"register", "wipe", "issue"} => me.type \in Types
        /\ me.at \in {"stash", "find", "link", "names", "make", "heal", "clean", "enter"} =>
             me.via \in Providers
        /\ me.at = "clean" => me.via = "apple"
        /\ me.name = "apple" => me.via = "apple"
        /\ me.at \in {"link", "mailbox", "rename"} => me.rows # {}

\* The code mailed last is there, and nobody has marked it.
NewestIs(t) ==
    newest[t] # 0 => \E c \in otps : c.id = newest[t] /\ c.type = t /\ ~c.verified

\* As long as the name is owed, it is stashed and every request will come upon it.
NameComes ==
    owed = "yes" => /\ cache
                    /\ \A q \in Requests : /\ requests[q].at # "clean"
                                           /\ requests[q].at = "make" /\ requests[q].via = "apple" =>
                                                requests[q].name = "apple"

\* Whoever links an account, or changes its mailbox, has found it open, or it is known to
\* have been overtaken.
LinksOpen ==
    \A q \in Requests : requests[q].at \in {"link", "mailbox"} =>
        \A r \in requests[q].rows : users[r].closed => r \in overtaken

\* An account that was closed lets nobody in, unless staff have reactivated it.
ClosedIsShut == \A r \in Rows \ overtaken : users[r].closed => ~users[r].active

AccountsInv ==
    /\ AccountsTypeOK /\ \A q \in Requests : Asks(q)
    /\ \A t \in Types : NewestIs(t)
    /\ NameComes /\ LinksOpen /\ ClosedIsShut /\ ClosedIsFree

-----------------------------------------------------------------------------
(* Accounts: what a step does to requests and to rows.                     *)

\* A step of q leaves other requests alone.
Answered(q) ==
    /\ requests' \in [Requests -> RequestRec] /\ \A p \in Requests \ {q} : requests'[p] = requests[p]
    /\ calls' \in 0 .. MaxCalls /\ incidents' \in 0 .. MaxIncidents

\* A row is opened, or only given up more than it was.
Kept(r) ==
    users'[r].closed => /\ users[r].closed /\ users'[r].ids \subseteq users[r].ids
                        /\ users'[r].mail \in {users[r].mail, "freed"}
                        /\ users'[r].active => users[r].active
RowsKept == users' \in [Rows -> RowRec] /\ \A r \in Rows : Kept(r)

LEMMA IdleRequest == NoRequest \in RequestRec /\ NoRequest.at = "idle" /\ NoRow \in RowRec /\ NoRow.closed = FALSE
BY DEF NoRequest, RequestRec, Mails, Names, NoRow, RowRec

LEMMA CallEffect ==
    ASSUME AccountsTypeOK, NEW q \in Requests, NEW m \in RequestRec, Call(q, m)
    PROVE  Answered(q) /\ requests'[q] = m
BY AccountsConstants DEF AccountsTypeOK, Call, Answered

LEMMA GoToEffect ==
    ASSUME AccountsTypeOK, NEW q \in Requests, NEW step, GoTo(q, step),
           step \in {"issue", "wipe", "consume", "find", "names", "clean", "enter"}, UNCHANGED acctBounds
    PROVE  /\ Answered(q) /\ requests'[q].at = step /\ requests'[q].via = requests[q].via
           /\ requests'[q].name = requests[q].name /\ requests'[q].rows = requests[q].rows
           /\ requests'[q].type = requests[q].type
<1>1. PICK r : r = [requests[q] EXCEPT !.at = step]
    OBVIOUS
<1>2. requests[q] \in RequestRec
    BY DEF AccountsTypeOK
<1>3. /\ r \in RequestRec /\ r.at = step /\ r.via = requests[q].via /\ r.name = requests[q].name
      /\ r.rows = requests[q].rows /\ r.type = requests[q].type
    BY <1>1, <1>2 DEF RequestRec
<1>4. requests' = [requests EXCEPT ![q] = r]
    BY <1>1 DEF GoTo
<1>. QED BY <1>3, <1>4 DEF AccountsTypeOK, acctBounds, Answered

LEMMA EndEffect ==
    ASSUME AccountsTypeOK, NEW q \in Requests, End(q), UNCHANGED acctBounds
    PROVE  Answered(q) /\ requests'[q] = NoRequest
BY IdleRequest DEF AccountsTypeOK, End, acctBounds, Answered

LEMMA RowsStay ==
    ASSUME AccountsTypeOK, UNCHANGED users
    PROVE  RowsKept
BY DEF AccountsTypeOK, RowsKept, Kept

LEMMA OneRow ==
    ASSUME AccountsTypeOK, NEW r, NEW row \in RowRec, users' = [users EXCEPT ![r] = row]
    PROVE  /\ users' \in [Rows -> RowRec] /\ (r \in Rows => users'[r] = row)
           /\ \A o \in Rows \ {r} : users'[o] = users[o]
BY DEF AccountsTypeOK

\* A row of which neither closed, nor mail, nor ids grows.
LEMMA OneRowKept ==
    ASSUME AccountsTypeOK, NEW r, NEW row \in RowRec, users' = [users EXCEPT ![r] = row],
           r \in Rows /\ row.closed => /\ users[r].closed /\ row.ids \subseteq users[r].ids
                                       /\ row.mail \in {users[r].mail, "freed"}
                                       /\ row.active => users[r].active
    PROVE  RowsKept
BY OneRow DEF RowsKept, Kept

LEMMA StaysShut ==
    ASSUME ClosedIsShut, RowsKept, overtaken \subseteq overtaken'
    PROVE  ClosedIsShut'
BY DEF ClosedIsShut, RowsKept, Kept

LEMMA InsertKept ==
    ASSUME AccountsTypeOK, NEW row \in RowRec, ~row.closed, Insert(row)
    PROVE  RowsKept
<1>1. PICK r \in Fresh : users' = [users EXCEPT ![r] = [row EXCEPT !.state = "live"]]
    BY DEF Insert
<1>2. PICK new : new = [row EXCEPT !.state = "live"]
    OBVIOUS
<1>3. new \in RowRec /\ ~new.closed
    BY <1>2 DEF RowRec
<1>. QED BY <1>1, <1>2, <1>3, OneRowKept

LEMMA CodesBack ==
    ASSUME AccountsTypeOK, NEW q \in Requests, DeleteById(q)
    PROVE  otps' \subseteq otps /\ newest' \in [Types -> Nat]
BY DEF AccountsTypeOK, DeleteById

\* Codes, tokens and counters keep their shape, and no code that works is lost.
CodesKept ==
    /\ otps' \subseteq CodeRec /\ newest' \in [Types -> Nat] /\ issued' \in Nat /\ sessions' \subseteq Rows
    /\ \A t \in Types : NewestIs(t) => NewestIs(t)'

\* A step that is none of a sign-in's with a provider.
Plain(q) ==
    /\ Answered(q) /\ RowsKept /\ CodesKept /\ Asks(q)'
    /\ requests'[q].at \notin {"link", "mailbox", "make", "clean"}
    /\ UNCHANGED <<cache, owed, overtaken>>

LEMMA CodesStay ==
    ASSUME AccountsTypeOK, UNCHANGED <<otps, newest, issued>>, sessions' \subseteq Rows
    PROVE  CodesKept
BY DEF AccountsTypeOK, CodesKept, NewestIs

LEMMA IdleAsks ==
    ASSUME NEW q \in Requests, requests'[q] = NoRequest
    PROVE  Asks(q)' /\ requests'[q].at = "idle"
BY IdleRequest DEF Asks, NoRequest

LEMMA AskCodeEffect ==
    ASSUME AccountsTypeOK, NEW q \in Requests, NEW type \in Types, AskCode(q, type)
    PROVE  Answered(q) /\ Asks(q)' /\ requests'[q].at = "wipe"
<1>1. PICK m : m = [NoRequest EXCEPT !.at = "wipe", !.type = type]
    OBVIOUS
<1>2. m \in RequestRec /\ m.at = "wipe" /\ m.type \in Types /\ m.name = "none"
    BY <1>1 DEF NoRequest, RequestRec, Mails, Names
<1>3. Call(q, m)
    BY <1>1 DEF AskCode
<1>. QED BY <1>2, <1>3, CallEffect DEF Asks

LEMMA CodeSteps ==
    ASSUME AccountsTypeOK, NEW q \in Requests, Asks(q),
           Wipe(q) \/ Issue(q) \/ MarkAsVerified(q) \/ DropCode(q) \/ SpendCode(q) \/ ConsumeCode(q)
    PROVE  Plain(q)
<1>1. UNCHANGED <<cache, owed, overtaken, acctBounds>>
    BY DEF Wipe, Issue, MarkAsVerified, DropCode, SpendCode, ConsumeCode, acctHistory
<1>2. requests[q] \in RequestRec
    BY DEF AccountsTypeOK
<1>3. CASE Wipe(q)
  <2>1. Answered(q) /\ requests'[q].at = "issue" /\ requests'[q].type = requests[q].type
        /\ requests'[q].name = requests[q].name /\ requests'[q].via = requests[q].via
      BY <1>1, <1>3, GoToEffect DEF Wipe
  <2>2. Asks(q)'
      BY <1>3, <2>1 DEF Wipe, Asks
  <2>3. RowsKept
      BY <1>3, RowsStay DEF Wipe
  <2>4. newest' = [newest EXCEPT ![requests[q].type] = 0] /\ otps' = {c \in otps : c.type # requests[q].type}
        /\ UNCHANGED <<issued, sessions>>
      BY <1>3 DEF Wipe, DeleteByEmailAndType
  <2>5. CodesKept
      BY <2>4 DEF AccountsTypeOK, CodesKept, NewestIs
  <2>. QED BY <1>1, <2>1, <2>2, <2>3, <2>5 DEF Plain
<1>4. CASE Issue(q)
  <2>1. Answered(q) /\ requests'[q] = NoRequest /\ RowsKept
      BY <1>1, <1>4, EndEffect, RowsStay DEF Issue
  <2>2. PICK type : type = requests[q].type
      OBVIOUS
  <2>3. type \in Types
      BY <1>4, <2>2 DEF Issue, Asks
  <2>4. PICK new : new = [id |-> issued + 1, type |-> type, verified |-> FALSE, expired |-> FALSE]
      OBVIOUS
  <2>5. issued \in Nat /\ otps \subseteq CodeRec /\ newest \in [Types -> Nat] /\ sessions \subseteq Rows
      BY DEF AccountsTypeOK
  <2>6. new \in CodeRec /\ new.id = issued + 1 /\ new.type = type /\ ~new.verified
      BY <2>3, <2>4, <2>5 DEF CodeRec
  <2>7. otps' = otps \cup {new} /\ newest' = [newest EXCEPT ![type] = issued + 1] /\ issued' = issued + 1
        /\ UNCHANGED sessions
      BY <1>4, <2>2, <2>4 DEF Issue
  <2>8. \A t \in Types : newest'[t] = IF t = type THEN issued + 1 ELSE newest[t]
      BY <2>3, <2>5, <2>7
  <2>9. \A t \in Types : NewestIs(t) => NewestIs(t)'
      BY <2>6, <2>7, <2>8 DEF NewestIs
  <2>10. CodesKept
      BY <2>3, <2>5, <2>6, <2>7, <2>9 DEF CodesKept
  <2>. QED BY <1>1, <2>1, <2>10, IdleAsks DEF Plain
<1>5. CASE MarkAsVerified(q)
  <2>1. Answered(q) /\ requests'[q] = NoRequest /\ RowsKept
      BY <1>1, <1>5, EndEffect, RowsStay DEF MarkAsVerified
  <2>2. otps' = {IF c.type = "password-reset" THEN [c EXCEPT !.verified = TRUE] ELSE c : c \in otps}
        /\ newest' = [newest EXCEPT !["password-reset"] = 0] /\ UNCHANGED <<issued, sessions>>
      BY <1>5 DEF MarkAsVerified
  <2>3. \A c \in otps : [c EXCEPT !.verified = TRUE] \in CodeRec
      BY DEF AccountsTypeOK, CodeRec
  <2>4. otps' \subseteq CodeRec
      BY <2>2, <2>3 DEF AccountsTypeOK
  <2>5. newest' \in [Types -> Nat] /\ \A t \in Types : newest'[t] = IF t = "password-reset" THEN 0 ELSE newest[t]
      BY <2>2 DEF AccountsTypeOK, Types
  <2>6. \A c \in otps : c.type # "password-reset" => c \in otps'
      BY <2>2
  <2>7. \A t \in Types : NewestIs(t) => NewestIs(t)'
      BY <2>5, <2>6 DEF NewestIs
  <2>8. CodesKept
      BY <2>2, <2>4, <2>5, <2>7 DEF CodesKept, AccountsTypeOK
  <2>. QED BY <1>1, <2>1, <2>8, IdleAsks DEF Plain
<1>6. CASE DropCode(q) \/ SpendCode(q)
  <2>1. Answered(q) /\ requests'[q] = NoRequest
      BY <1>1, <1>6, EndEffect DEF DropCode, SpendCode
  <2>2. /\ DeleteById(q) /\ UNCHANGED issued /\ sessions' \subseteq Rows
      BY <1>6 DEF DropCode, SpendCode, FindByEmail, Live, AccountsTypeOK
  <2>3. \A t \in Types : NewestIs(t) => NewestIs(t)'
      BY <2>2 DEF NewestIs, DeleteById
  <2>4. CodesKept
      BY <2>2, <2>3, CodesBack DEF CodesKept, AccountsTypeOK
  <2>5. RowsKept
    <3>1. CASE DropCode(q)
        BY <3>1, RowsStay DEF DropCode
    <3>2. CASE SpendCode(q)
      <4>1. \A r \in Rows : users[r] \in RowRec
          BY DEF AccountsTypeOK
      <4>2. \A r \in Rows : [users[r] EXCEPT !.verified = TRUE] \in RowRec
          BY ZenonT(40), <4>1 DEF RowRec
      <4>3. users' \in [Rows -> RowRec] /\ \A r \in Rows : \/ users'[r] = users[r]
                                                          \/ users'[r] = [users[r] EXCEPT !.verified = TRUE]
          BY <3>2, <4>1, <4>2 DEF SpendCode
      <4>4. \A r \in Rows : users'[r].closed = users[r].closed /\ users'[r].ids = users[r].ids
                            /\ users'[r].mail = users[r].mail /\ users'[r].active = users[r].active
          BY <4>1, <4>3 DEF RowRec
      <4>. QED BY <4>3, <4>4 DEF RowsKept, Kept
    <3>. QED BY <1>6, <3>1, <3>2
  <2>. QED BY <1>1, <2>1, <2>4, <2>5, IdleAsks DEF Plain
<1>7. CASE ConsumeCode(q)
  <2>1. Answered(q) /\ requests'[q] = NoRequest /\ RowsKept
      BY <1>1, <1>7, EndEffect, RowsStay DEF ConsumeCode
  <2>2. UNCHANGED <<newest, issued, sessions>> /\ otps' \subseteq otps
        /\ \A c \in otps : ~c.verified => c \in otps'
      BY <1>7 DEF ConsumeCode, VerifiedCodes, acctHistory
  <2>3. CodesKept
      BY <2>2 DEF CodesKept, NewestIs, AccountsTypeOK
  <2>. QED BY <1>1, <2>1, <2>3, IdleAsks DEF Plain
<1>. QED BY <1>3, <1>4, <1>5, <1>6, <1>7

LEMMA MailboxSteps ==
    ASSUME AccountsTypeOK, NEW q \in Requests,
           SendOtp(q) \/ ForgotPassword(q) \/ AdminForgotPassword(q) \/ VerifyOtp(q) \/ AdminVerifyOtp(q)
           \/ ResetPassword(q) \/ Signup(q) \/ ResendInvite(q) \/ CutOff(q)
    PROVE  Plain(q)
<1>1. UNCHANGED <<users, otps, issued, cache, sessions, newest, owed, overtaken>>
    BY DEF SendOtp, ForgotPassword, AdminForgotPassword, VerifyOtp, AdminVerifyOtp, ResetPassword, Signup,
           ResendInvite, CutOff, acctHistory
<1>2. RowsKept /\ CodesKept
    BY <1>1, RowsStay, CodesStay DEF AccountsTypeOK
<1>3. CASE CutOff(q)
  <2>1. Answered(q) /\ requests'[q] = NoRequest
      BY <1>3, IdleRequest, AccountsConstants DEF CutOff, End, AccountsTypeOK, Answered
  <2>. QED BY <1>1, <1>2, <2>1, IdleAsks DEF Plain
<1>4. CASE \E type \in Types : AskCode(q, type)
    BY <1>1, <1>2, <1>4, AskCodeEffect DEF Plain
<1>5. ASSUME NEW m \in RequestRec, Call(q, m), m.at \in {"mark", "spend", "drop", "reset"}, m.name = "none"
      PROVE  Plain(q)
  <2>1. Answered(q) /\ requests'[q] = m
      BY <1>5, CallEffect
  <2>. QED BY <1>1, <1>2, <1>5, <2>1 DEF Plain, Asks
<1>6. ASSUME VerifyOtp(q) \/ AdminVerifyOtp(q)
      PROVE  Plain(q)
  <2>1. PICK c \in otps, at \in {"mark", "spend", "drop"} :
            Call(q, [NoRequest EXCEPT !.code = c.id, !.type = c.type, !.at = at])
      BY <1>6 DEF VerifyOtp, AdminVerifyOtp
  <2>2. PICK m : m = [NoRequest EXCEPT !.code = c.id, !.type = c.type, !.at = at]
      OBVIOUS
  <2>3. c.id \in Nat /\ c.type \in Types
      BY DEF AccountsTypeOK, CodeRec
  <2>4. m \in RequestRec /\ m.at = at /\ m.name = "none"
      BY <2>2, <2>3 DEF NoRequest, RequestRec, Mails, Names
  <2>. QED BY <1>5, <2>1, <2>2, <2>4
<1>7. CASE ResetPassword(q)
  <2>1. PICK m : m = [NoRequest EXCEPT !.at = "reset", !.rows = FindByEmail("own")]
      OBVIOUS
  <2>2. FindByEmail("own") \subseteq Rows
      BY DEF FindByEmail, Live
  <2>3. m \in RequestRec /\ m.at = "reset" /\ m.name = "none"
      BY <2>1, <2>2 DEF NoRequest, RequestRec, Mails, Names
  <2>. QED BY <1>5, <1>7, <2>1, <2>3 DEF ResetPassword
<1>8. CASE Signup(q)
  <2>1. PICK name \in {"own", "none"} :
            Call(q, [NoRequest EXCEPT !.at = "register", !.name = name, !.mail = "own",
                                      !.type = "registration", !.rows = FindByEmail("own")])
      BY <1>8 DEF Signup
  <2>2. PICK m : m = [NoRequest EXCEPT !.at = "register", !.name = name, !.mail = "own",
                                      !.type = "registration", !.rows = FindByEmail("own")]
      OBVIOUS
  <2>3. FindByEmail("own") \subseteq Rows
      BY DEF FindByEmail, Live
  <2>4. m \in RequestRec /\ m.at = "register" /\ m.type \in Types /\ m.name # "apple"
      BY <2>2, <2>3 DEF NoRequest, RequestRec, Mails, Names, Types
  <2>5. Answered(q) /\ requests'[q] = m
      BY <2>1, <2>2, <2>4, CallEffect
  <2>. QED BY <1>1, <1>2, <2>4, <2>5 DEF Plain, Asks
<1>. QED BY <1>3, <1>4, <1>6, <1>7, <1>8 DEF SendOtp, ForgotPassword, AdminForgotPassword, ResendInvite, Types

LEMMA SignInSteps ==
    ASSUME AccountsTypeOK, NEW q \in Requests, Asks(q),
           WritePassword(q) \/ Register(q) \/ Login(q) \/ AdminLogin(q) \/ InviteAdmin(q) \/ Enter(q)
    PROVE  Plain(q)
<1>1. UNCHANGED <<otps, issued, cache, newest, owed, overtaken>> /\ sessions' \subseteq Rows
    BY DEF WritePassword, Register, Login, AdminLogin, InviteAdmin, Enter, acctHistory, FindByEmail, Live,
           AccountsTypeOK
<1>2. CodesKept
    BY <1>1, CodesStay
<1>3. \A r \in Rows : users[r] \in RowRec
    BY DEF AccountsTypeOK
<1>4. requests[q] \in RequestRec
    BY DEF AccountsTypeOK
<1>5. ASSUME NEW r, users' = [users EXCEPT ![r].password = TRUE] \/ users' = [users EXCEPT ![r].setUp = TRUE]
      PROVE  RowsKept
  <2>1. CASE r \in Rows
    <3>1. PICK row : row \in {[users[r] EXCEPT !.password = TRUE], [users[r] EXCEPT !.setUp = TRUE]}
                     /\ users' = [users EXCEPT ![r] = row]
        BY <1>5
    <3>2. row \in RowRec /\ row.closed = users[r].closed /\ row.ids = users[r].ids /\ row.mail = users[r].mail
          /\ row.active = users[r].active
        BY <1>3, <2>1, <3>1 DEF RowRec
    <3>. QED BY <3>1, <3>2, OneRowKept
  <2>2. CASE r \notin Rows
    <3>1. users' = users
        BY <1>5, <2>2 DEF AccountsTypeOK
    <3>. QED BY <3>1, RowsStay
  <2>. QED BY <2>1, <2>2
<1>6. CASE WritePassword(q)
  <2>1. Answered(q) /\ requests'[q].at = "consume"
        /\ requests'[q].name = requests[q].name /\ requests'[q].via = requests[q].via
      BY <1>6, GoToEffect DEF WritePassword, acctBounds
  <2>2. RowsKept
      BY <1>5, <1>6 DEF WritePassword
  <2>. QED BY <1>1, <1>2, <2>1, <2>2 DEF Plain, Asks
<1>7. CASE Register(q)
  <2>1. Answered(q) /\ requests'[q].at = "wipe" /\ requests'[q].type = requests[q].type
        /\ requests'[q].name = requests[q].name /\ requests'[q].via = requests[q].via
      BY <1>7, GoToEffect DEF Register, acctBounds
  <2>2. requests[q].name \in Names
      BY <1>4 DEF RequestRec
  <2>3. ASSUME users' = [users EXCEPT ![Row(q)].name = requests[q].name, ![Row(q)].password = TRUE],
               requests[q].rows # {}
        PROVE  RowsKept
    <3>1. PICK r : r = Row(q)
        OBVIOUS
    <3>2. r \in Rows
        BY <1>4, <2>3, <3>1 DEF Row, RequestRec
    <3>3. PICK row : row = [users[r] EXCEPT !.name = requests[q].name, !.password = TRUE]
        OBVIOUS
    <3>4. row \in RowRec /\ row.closed = users[r].closed /\ row.ids = users[r].ids /\ row.mail = users[r].mail
          /\ row.active = users[r].active
        BY <1>3, <2>2, <3>2, <3>3 DEF RowRec
    <3>5. users' = [users EXCEPT ![r] = row]
        BY <2>3, <3>1, <3>2, <3>3 DEF AccountsTypeOK
    <3>. QED BY <3>4, <3>5, OneRowKept
  <2>4. ASSUME NEW role \in SignupRoles,
               Insert([NoRow EXCEPT !.mail = "own", !.name = requests[q].name, !.password = TRUE, !.role = role])
        PROVE  RowsKept
    <3>1. PICK row : row = [NoRow EXCEPT !.mail = "own", !.name = requests[q].name, !.password = TRUE, !.role = role]
        OBVIOUS
    <3>2. row \in RowRec /\ ~row.closed
        BY <2>2, <2>4, <3>1 DEF NoRow, RowRec, Mails, SignupRoles
    <3>. QED BY <2>4, <3>1, <3>2, InsertKept
  <2>5. RowsKept
      BY <1>7, <2>3, <2>4 DEF Register
  <2>. QED BY <1>1, <1>2, <1>7, <2>1, <2>5 DEF Plain, Asks, Register
<1>8. CASE Login(q) \/ AdminLogin(q)
  <2>1. RowsKept
      BY <1>5, <1>8, RowsStay DEF Login, AdminLogin
  <2>2. CASE AskCode(q, "registration")
      BY <1>1, <1>2, <2>1, <2>2, AskCodeEffect DEF Plain, Types
  <2>3. CASE Call(q, NoRequest)
    <3>1. Answered(q) /\ requests'[q] = NoRequest
        BY <2>3, IdleRequest, CallEffect
    <3>. QED BY <1>1, <1>2, <2>1, <3>1, IdleAsks DEF Plain
  <2>. QED BY <1>8, <2>2, <2>3 DEF Login, AdminLogin
<1>9. CASE InviteAdmin(q)
  <2>1. PICK row : row = [NoRow EXCEPT !.mail = "own", !.name = "own", !.verified = TRUE, !.password = TRUE,
                                       !.role = "staff"]
      OBVIOUS
  <2>2. row \in RowRec /\ ~row.closed
      BY <2>1 DEF NoRow, RowRec, Mails, Names
  <2>3. RowsKept
      BY <1>9, <2>1, <2>2, InsertKept, RowsStay DEF InviteAdmin
  <2>. QED BY <1>1, <1>2, <1>9, <2>3, AskCodeEffect DEF Plain, InviteAdmin, Types
<1>10. CASE Enter(q)
  <2>1. Answered(q) /\ requests'[q] = NoRequest /\ RowsKept
      BY <1>10, EndEffect, RowsStay DEF Enter
  <2>. QED BY <1>1, <1>2, <2>1, IdleAsks DEF Plain
<1>. QED BY <1>6, <1>7, <1>8, <1>9, <1>10

LEMMA SocialLoginIsPlain ==
    ASSUME AccountsTypeOK, NEW q \in Requests, NEW v, NEW mails \in SUBSET Mails, NEW names \in SUBSET Names,
           "apple" \in names => v = "apple", SocialLogin(q, v, mails, names)
    PROVE  Plain(q)
<1>1. PICK mail \in mails, name \in names :
          Call(q, [NoRequest EXCEPT !.at = IF name = "apple" THEN "stash" ELSE "find", !.via = v,
                                    !.mail = mail, !.name = name])
    BY DEF SocialLogin
<1>2. PICK at : at = IF name = "apple" THEN "stash" ELSE "find"
    OBVIOUS
<1>3. PICK m : m = [NoRequest EXCEPT !.at = at, !.via = v, !.mail = mail, !.name = name]
    OBVIOUS
<1>4. m \in RequestRec /\ m.at \in {"stash", "find"} /\ m.via \in Providers /\ (m.name = "apple" => m.via = "apple")
    BY <1>2, <1>3 DEF NoRequest, RequestRec, Mails, Names, SocialLogin
<1>5. Call(q, m)
    BY <1>1, <1>2, <1>3
<1>6. Answered(q) /\ requests'[q] = m
    BY <1>4, <1>5, CallEffect
<1>7. UNCHANGED <<users, otps, issued, cache, sessions, newest, owed, overtaken>>
    BY DEF SocialLogin, acctHistory
<1>8. RowsKept /\ CodesKept
    BY <1>7, RowsStay, CodesStay DEF AccountsTypeOK
<1>. QED BY <1>4, <1>6, <1>7, <1>8 DEF Plain, Asks

LEMMA ProviderLogins ==
    ASSUME AccountsTypeOK, NEW q \in Requests,
           GoogleLogin(q) \/ TiktokLogin(q) \/ InstagramLogin(q) \/ FacebookLogin(q) \/ AppleLogin(q)
    PROVE  Plain(q)
<1>1. PICK v, mails, names : /\ SocialLogin(q, v, mails, names)
                             /\ mails \in SUBSET Mails /\ names \in SUBSET Names
                             /\ "apple" \in names => v = "apple"
  <2>1. {"own"} \in SUBSET Mails /\ {"tiktok"} \in SUBSET Mails /\ {"instagram"} \in SUBSET Mails
        /\ {"own", "facebook"} \in SUBSET Mails /\ {"own", "apple"} \in SUBSET Mails
        /\ {"own"} \in SUBSET Names /\ {"apple", "none"} \in SUBSET Names
      BY DEF Mails, Names
  <2>2. "apple" \notin {"own"}
      OBVIOUS
  <2>. QED BY <2>1, <2>2 DEF GoogleLogin, TiktokLogin, InstagramLogin, FacebookLogin, AppleLogin
<1>. QED BY <1>1, SocialLoginIsPlain

LEMMA PlainKeeps ==
    ASSUME AccountsInv, NEW q \in Requests, Plain(q)
    PROVE  AccountsInv'
<1>1. AccountsTypeOK'
    BY DEF AccountsInv, AccountsTypeOK, Plain, Answered, RowsKept, CodesKept
<1>2. \A p \in Requests : Asks(p)'
    BY DEF AccountsInv, Plain, Answered, Asks
<1>3. \A t \in Types : NewestIs(t)'
    BY DEF AccountsInv, Plain, CodesKept
<1>4. NameComes'
    BY DEF AccountsInv, Plain, Answered, NameComes
<1>5. LinksOpen'
  <2>. SUFFICES ASSUME NEW p \in Requests, requests'[p].at \in {"link", "mailbox"}, NEW r \in requests'[p].rows, users'[r].closed
                PROVE  r \in overtaken'
      BY DEF LinksOpen
  <2>1. p # q /\ requests'[p] = requests[p]
      BY DEF Plain, Answered
  <2>2. r \in Rows
      BY <2>1 DEF AccountsInv, AccountsTypeOK, RequestRec
  <2>3. users[r].closed
      BY <2>2 DEF Plain, RowsKept, Kept
  <2>. QED BY <2>1, <2>3 DEF AccountsInv, LinksOpen, Plain
<1>6. ClosedIsFree'
  <2>. SUFFICES ASSUME NEW r \in Rows \ overtaken, users'[r].closed
                PROVE  users'[r].mail = "freed" /\ users'[r].ids = {}
      BY DEF ClosedIsFree, Plain
  <2>1. users[r].mail = "freed" /\ users[r].ids = {}
      BY DEF AccountsInv, ClosedIsFree, Plain, RowsKept, Kept
  <2>. QED BY <2>1 DEF Plain, RowsKept, Kept
<1>7. ClosedIsShut'
    BY StaysShut DEF AccountsInv, Plain
<1>. QED BY <1>1, <1>2, <1>3, <1>4, <1>5, <1>6, <1>7 DEF AccountsInv

\* The steps of a sign-in with a provider that matter to the name or to a closed account.
LEMMA StashKeeps ==
    ASSUME AccountsInv, NEW q \in Requests, UpsertAppleNameCache(q)
    PROVE  AccountsInv'
<1>1. AccountsTypeOK /\ (\A p \in Requests : Asks(p)) /\ NameComes
    BY DEF AccountsInv
<1>2. Answered(q) /\ requests'[q].at = "find" /\ requests'[q].via = requests[q].via
      /\ requests'[q].name = requests[q].name
    BY <1>1, GoToEffect DEF UpsertAppleNameCache
<1>3. Asks(q)'
    BY <1>1, <1>2 DEF UpsertAppleNameCache, Asks
<1>4. RowsKept /\ CodesKept
    BY <1>1, RowsStay, CodesStay DEF UpsertAppleNameCache, AccountsTypeOK
<1>5. CASE UNCHANGED <<cache, owed>>
    BY <1>2, <1>3, <1>4, <1>5, PlainKeeps DEF Plain, UpsertAppleNameCache
<1>6. CASE cache' = TRUE /\ owed' = IF PastTheStash = {} THEN "yes" ELSE "raced"
  <2>1. NameComes'
    <3>. SUFFICES ASSUME owed' = "yes", NEW p \in Requests
                  PROVE  requests'[p].at # "clean" /\ ~(requests'[p].at = "make" /\ requests'[p].via = "apple")
        BY <1>6 DEF NameComes
    <3>1. p \notin PastTheStash
        BY <1>6
    <3>2. requests[p].at # "clean" /\ ~(requests[p].at = "make" /\ requests[p].via = "apple")
        BY <1>1, <3>1 DEF PastTheStash, Asks
    <3>. QED BY <1>2, <3>2 DEF Answered
  <2>2. AccountsTypeOK' /\ \A p \in Requests : Asks(p)'
      BY <1>1, <1>2, <1>3, <1>4, <1>6 DEF AccountsTypeOK, UpsertAppleNameCache, RowsKept, CodesKept, Answered, Asks
  <2>3. \A t \in Types : NewestIs(t)'
      BY <1>4 DEF AccountsInv, CodesKept
  <2>4. LinksOpen' /\ ClosedIsFree'
      BY <1>2 DEF AccountsInv, LinksOpen, ClosedIsFree, UpsertAppleNameCache, Answered
  <2>5. ClosedIsShut'
      BY <1>4, StaysShut DEF AccountsInv, UpsertAppleNameCache
  <2>. QED BY <2>1, <2>2, <2>3, <2>4, <2>5 DEF AccountsInv
<1>. QED BY <1>5, <1>6 DEF UpsertAppleNameCache

LEMMA TurnKeeps ==
    ASSUME AccountsInv, NEW q \in Requests, Answered(q), RowsKept, CodesKept, Asks(q)', overtaken' = overtaken,
           cache' \in BOOLEAN, owed' \in {"no", "yes", "raced"}, NameComes',
           requests'[q].at \in {"link", "mailbox"} =>
             \A r \in requests'[q].rows : users'[r].closed => r \in overtaken
    PROVE  AccountsInv'
<1>1. AccountsTypeOK'
    BY DEF AccountsInv, AccountsTypeOK, Answered, RowsKept, CodesKept
<1>2. \A p \in Requests : Asks(p)'
    BY DEF AccountsInv, Answered, Asks
<1>3. \A t \in Types : NewestIs(t)'
    BY DEF AccountsInv, CodesKept
<1>4. LinksOpen'
  <2>. SUFFICES ASSUME NEW p \in Requests \ {q}, requests'[p].at \in {"link", "mailbox"}, NEW r \in requests'[p].rows,
                       users'[r].closed
                PROVE  r \in overtaken
      BY DEF LinksOpen
  <2>1. requests'[p] = requests[p]
      BY DEF Answered
  <2>2. r \in Rows
      BY <2>1 DEF AccountsInv, AccountsTypeOK, RequestRec
  <2>3. users[r].closed
      BY <2>2 DEF RowsKept, Kept
  <2>. QED BY <2>1, <2>3 DEF AccountsInv, LinksOpen
<1>5. ClosedIsFree'
  <2>. SUFFICES ASSUME NEW r \in Rows \ overtaken, users'[r].closed
                PROVE  users'[r].mail = "freed" /\ users'[r].ids = {}
      BY DEF ClosedIsFree
  <2>1. users[r].mail = "freed" /\ users[r].ids = {}
      BY DEF AccountsInv, ClosedIsFree, RowsKept, Kept
  <2>. QED BY <2>1 DEF RowsKept, Kept
<1>6. ClosedIsShut'
    BY StaysShut DEF AccountsInv
<1>. QED BY <1>1, <1>2, <1>3, <1>4, <1>5, <1>6 DEF AccountsInv

\* A name that is owed still comes, if the request did not turn to make an account without it
\* and did not come to empty the stash.
LEMMA NameStillComes ==
    ASSUME NameComes, NEW q \in Requests, Answered(q), owed' = "yes" => owed = "yes" /\ cache',
           owed' = "yes" => requests'[q].at # "clean",
           owed' = "yes" /\ requests'[q].at = "make" /\ requests'[q].via = "apple" => requests'[q].name = "apple"
    PROVE  NameComes'
BY DEF NameComes, Answered

LEMMA FindKeeps ==
    ASSUME AccountsInv, NEW q \in Requests, FindUser(q)
    PROVE  AccountsInv'
<1>1. AccountsTypeOK /\ Asks(q) /\ NameComes /\ ClosedIsFree
    BY DEF AccountsInv
<1>2. PICK rows, at :
        /\ requests' = [requests EXCEPT ![q].rows = rows, ![q].at = at]
        /\ at \in {"names", "link"} /\ rows \subseteq Rows
        /\ at = "link" => rows # {} /\ rows = FindByEmail("own")
  <2>1. PICK byId, byMail : byId = FindById(requests[q].via)
                            /\ byMail = IF requests[q].mail = "own" THEN FindByEmail("own") ELSE {}
      OBVIOUS
  <2>2. PICK rows, at : /\ rows = IF byId # {} THEN byId ELSE byMail
                        /\ at = CASE byId # {} -> "names" [] byId = {} /\ byMail # {} -> "link"
                                  [] OTHER -> "names"
      OBVIOUS
  <2>3. requests' = [requests EXCEPT ![q].rows = rows, ![q].at = at]
      BY <2>1, <2>2 DEF FindUser
  <2>4. byId \subseteq Rows /\ byMail \subseteq Rows
      BY <2>1 DEF FindById, FindByEmail, Live
  <2>5. at \in {"names", "link"} /\ rows \subseteq Rows
      BY <2>2, <2>4
  <2>6. at = "link" => rows # {} /\ rows = FindByEmail("own")
      BY <2>1, <2>2
  <2>. QED BY <2>3, <2>5, <2>6
<1>3. PICK r : r = [requests[q] EXCEPT !.rows = rows, !.at = at]
    OBVIOUS
<1>4. requests[q] \in RequestRec
    BY <1>1 DEF AccountsTypeOK
<1>5. r \in RequestRec /\ r.at = at /\ r.rows = rows /\ r.via = requests[q].via /\ r.name = requests[q].name
    BY <1>2, <1>3, <1>4 DEF RequestRec
<1>6. requests' = [requests EXCEPT ![q] = r]
    BY <1>1, <1>2, <1>3 DEF AccountsTypeOK
<1>7. Answered(q) /\ requests'[q] = r
    BY ZenonT(40), <1>1, <1>5, <1>6 DEF AccountsTypeOK, Answered, FindUser, acctBounds
<1>8. UNCHANGED <<users, otps, issued, cache, sessions, newest, owed, overtaken>>
    BY DEF FindUser, acctHistory
<1>9. RowsKept /\ CodesKept
    BY <1>1, <1>8, RowsStay, CodesStay DEF AccountsTypeOK
<1>10. requests[q].at = "find" /\ Asks(q)'
  <2>1. requests[q].at = "find" /\ r.via \in Providers
      BY <1>1, <1>5 DEF FindUser, Asks
  <2>2. r.name = "apple" => r.via = "apple"
      BY <1>1, <1>5, <2>1 DEF Asks
  <2>. QED BY <1>2, <1>5, <1>7, <2>1, <2>2 DEF Asks
<1>11. NameComes'
    BY <1>1, <1>2, <1>5, <1>7, <1>8, NameStillComes DEF NameComes
<1>12. ASSUME at = "link", NEW o \in rows, users[o].closed
       PROVE  o \in overtaken
  <2>1. o \in Rows /\ users[o].mail = "own"
      BY <1>2, <1>12 DEF FindByEmail, Live
  <2>. QED BY <1>1, <1>12, <2>1 DEF ClosedIsFree
<1>. QED BY <1>1, <1>2, <1>5, <1>7, <1>8, <1>9, <1>10, <1>11, <1>12, TurnKeeps DEF AccountsTypeOK

LEMMA LinkKeeps ==
    ASSUME AccountsInv, NEW q \in Requests, LinkIdentity(q)
    PROVE  AccountsInv'
<1>1. AccountsTypeOK /\ Asks(q) /\ NameComes /\ LinksOpen /\ ClosedIsShut /\ ClosedIsFree
    BY DEF AccountsInv
<1>2. PICK r, v : r = Row(q) /\ v = requests[q].via
    OBVIOUS
<1>3. requests[q] \in RequestRec /\ requests[q].at = "link"
    BY <1>1 DEF AccountsTypeOK, LinkIdentity
<1>4. v \in Providers /\ requests[q].rows # {} /\ requests[q].rows \subseteq Rows
    BY <1>1, <1>2, <1>3 DEF Asks, RequestRec
<1>5. r \in requests[q].rows /\ r \in Rows
    BY <1>2, <1>4 DEF Row
<1>6. users[r].closed => r \in overtaken
    BY <1>1, <1>3, <1>5 DEF LinksOpen
<1>7. PICK row : row = [users[r] EXCEPT !.ids = users[r].ids \cup {v}, !.verified = TRUE]
    OBVIOUS
<1>8. users[r] \in RowRec
    BY <1>1, <1>5 DEF AccountsTypeOK
<1>9. row \in RowRec /\ row.closed = users[r].closed /\ row.active = users[r].active
    BY <1>4, <1>7, <1>8 DEF RowRec
<1>10. users' = [users EXCEPT ![r] = row]
    BY <1>1, <1>2, <1>5, <1>7 DEF LinkIdentity, AccountsTypeOK
<1>11. users' \in [Rows -> RowRec] /\ users'[r] = row /\ \A o \in Rows \ {r} : users'[o] = users[o]
    BY <1>1, <1>5, <1>9, <1>10, OneRow
<1>12. Answered(q) /\ requests'[q].at = "names" /\ requests'[q].via = requests[q].via
       /\ requests'[q].name = requests[q].name
    BY <1>1, GoToEffect DEF LinkIdentity
<1>13. UNCHANGED <<otps, issued, cache, sessions, newest, owed, overtaken>>
    BY DEF LinkIdentity, acctHistory
<1>14. CodesKept
    BY <1>1, <1>13, CodesStay DEF AccountsTypeOK
<1>15. Asks(q)'
    BY <1>1, <1>3, <1>12 DEF Asks
<1>16. NameComes'
    BY <1>1, <1>12, <1>13, NameStillComes DEF NameComes
<1>17. LinksOpen'
  <2>. SUFFICES ASSUME NEW p \in Requests \ {q}, requests[p].at \in {"link", "mailbox"}, NEW o \in requests[p].rows,
                       users'[o].closed
                PROVE  o \in overtaken
      BY <1>12, <1>13 DEF LinksOpen, Answered
  <2>1. o \in Rows
      BY <1>1 DEF AccountsTypeOK, RequestRec
  <2>2. users[o].closed
      BY <1>9, <1>11, <2>1
  <2>. QED BY <1>1, <2>2 DEF LinksOpen
<1>18. ClosedIsFree'
    BY <1>1, <1>6, <1>9, <1>11, <1>13 DEF ClosedIsFree
<1>19. AccountsTypeOK' /\ \A p \in Requests : Asks(p)'
    BY <1>1, <1>11, <1>12, <1>13, <1>14, <1>15 DEF AccountsInv, AccountsTypeOK, Answered, CodesKept, Asks
<1>20. ClosedIsShut'
    BY <1>1, <1>9, <1>11, <1>13 DEF ClosedIsShut
<1>. QED BY <1>14, <1>16, <1>17, <1>18, <1>19, <1>20 DEF AccountsInv, CodesKept

LEMMA LookKeeps ==
    ASSUME AccountsInv, NEW q \in Requests, LookForName(q)
    PROVE  AccountsInv'
<1>1. AccountsTypeOK /\ Asks(q) /\ NameComes
    BY DEF AccountsInv
<1>2. requests[q] \in RequestRec /\ requests[q].at = "names"
    BY <1>1 DEF AccountsTypeOK, LookForName
<1>3. PICK name, at :
        /\ requests' = [requests EXCEPT ![q].name = name, ![q].at = at]
        /\ at \in {"make", "heal"} /\ name \in Names
        /\ name = "apple" => requests[q].via = "apple"
        /\ at = "make" /\ requests[q].via = "apple" /\ cache => name = "apple"
  <2>1. CASE requests[q].rows = {}
    <3>1. PICK apples, derived :
            /\ apples = (requests[q].via = "apple" /\ (requests[q].name = "apple" \/ cache))
            /\ derived = IF requests[q].mail = "own" THEN {"own", "none"} ELSE {"none"}
        OBVIOUS
    <3>2. PICK name : /\ name \in CASE requests[q].via # "apple" -> {"own"} [] apples -> {"apple"}
                                    [] OTHER -> derived
                      /\ requests' = [requests EXCEPT ![q].name = name, ![q].at = "make"]
        BY <2>1, <3>1 DEF LookForName
    <3>3. CASE requests[q].via # "apple"
        BY <3>1, <3>2, <3>3 DEF Names
    <3>4. CASE requests[q].via = "apple" /\ apples
        BY <3>2, <3>4 DEF Names
    <3>5. CASE requests[q].via = "apple" /\ ~apples
      <4>1. name \in derived /\ ~cache
          BY <3>1, <3>2, <3>5
      <4>2. name \in Names /\ name # "apple"
          BY <3>1, <4>1 DEF Names
      <4>. QED BY <3>2, <4>1, <4>2
    <3>. QED BY <3>3, <3>4, <3>5
  <2>2. CASE requests[q].rows # {}
    <3>1. PICK name : /\ name \in {"apple", "none"} /\ (name = "apple" => requests[q].via = "apple")
                      /\ requests' = [requests EXCEPT ![q].at = "heal", ![q].name = name]
        BY <2>2 DEF LookForName
    <3>2. PICK at : at = "heal"
        OBVIOUS
    <3>3. requests' = [requests EXCEPT ![q].name = name, ![q].at = at]
        BY <1>1, <1>2, <3>1, <3>2 DEF AccountsTypeOK, RequestRec
    <3>4. at \in {"make", "heal"} /\ at # "make" /\ name \in Names
        BY <3>1, <3>2 DEF Names
    <3>. QED BY <3>1, <3>3, <3>4
  <2>. QED BY <2>1, <2>2
<1>4. PICK r : r = [requests[q] EXCEPT !.name = name, !.at = at]
    OBVIOUS
<1>5. r \in RequestRec /\ r.at = at /\ r.name = name /\ r.via = requests[q].via
    BY <1>2, <1>3, <1>4 DEF RequestRec
<1>6. requests' = [requests EXCEPT ![q] = r]
    BY <1>1, <1>3, <1>4 DEF AccountsTypeOK
<1>7. Answered(q) /\ requests'[q] = r
    BY <1>1, <1>5, <1>6 DEF AccountsTypeOK, Answered, LookForName, acctBounds
<1>8. UNCHANGED <<users, otps, issued, cache, sessions, newest, owed, overtaken>>
    BY DEF LookForName, acctHistory
<1>9. RowsKept /\ CodesKept
    BY <1>1, <1>8, RowsStay, CodesStay DEF AccountsTypeOK
<1>10. Asks(q)'
    BY <1>1, <1>2, <1>3, <1>5, <1>7 DEF Asks
<1>11. NameComes'
    BY <1>1, <1>3, <1>5, <1>7, <1>8, NameStillComes DEF NameComes
<1>. QED BY <1>1, <1>3, <1>5, <1>7, <1>8, <1>9, <1>10, <1>11, TurnKeeps DEF AccountsTypeOK

LEMMA MakeKeeps ==
    ASSUME AccountsInv, NEW q \in Requests, MakeAccount(q)
    PROVE  AccountsInv'
<1>1. AccountsTypeOK /\ Asks(q) /\ NameComes
    BY DEF AccountsInv
<1>2. requests[q] \in RequestRec /\ requests[q].at = "make"
    BY <1>1 DEF AccountsTypeOK, MakeAccount
<1>3. PICK rows, at : rows = {o \in Rows : users'[o] # users[o]}
                      /\ at = IF requests[q].via = "apple" THEN "clean" ELSE "enter"
    OBVIOUS
<1>4. PICK r : r = [requests[q] EXCEPT !.rows = rows, !.at = at]
    OBVIOUS
<1>5. r \in RequestRec /\ r.at = at /\ r.name = requests[q].name /\ r.via = requests[q].via
    BY <1>2, <1>3, <1>4 DEF RequestRec
<1>6. requests' = [requests EXCEPT ![q] = r]
    BY <1>1, <1>3, <1>4 DEF AccountsTypeOK, MakeAccount
<1>7. Answered(q) /\ requests'[q] = r
    BY <1>1, <1>5, <1>6 DEF AccountsTypeOK, Answered, MakeAccount, acctBounds
<1>8. UNCHANGED <<otps, issued, cache, sessions, newest, overtaken>> /\ NameUsed(requests[q].name)
    BY DEF MakeAccount
<1>9. CodesKept
    BY <1>1, <1>8, CodesStay DEF AccountsTypeOK
<1>10. RowsKept
  <2>1. PICK role \in SignupRoles :
            Insert([NoRow EXCEPT !.mail = requests[q].mail, !.ids = {requests[q].via}, !.verified = TRUE,
                                 !.name = requests[q].name, !.role = role])
      BY DEF MakeAccount
  <2>2. PICK row : row = [NoRow EXCEPT !.mail = requests[q].mail, !.ids = {requests[q].via}, !.verified = TRUE,
                                 !.name = requests[q].name, !.role = role]
      OBVIOUS
  <2>3. requests[q].mail \in Mails /\ requests[q].via \in Providers /\ requests[q].name \in Names
      BY <1>1, <1>2 DEF RequestRec, Asks
  <2>4. row \in RowRec /\ ~row.closed
      BY <2>1, <2>2, <2>3 DEF NoRow, RowRec, SignupRoles
  <2>. QED BY <1>1, <2>1, <2>2, <2>4, InsertKept
<1>11. Asks(q)'
    BY <1>1, <1>2, <1>3, <1>5, <1>7 DEF Asks
<1>12. owed' \in {"no", "yes", "raced"}
       /\ (owed' = "yes" => owed = "yes" /\ requests[q].name # "apple")
    BY <1>1, <1>8 DEF NameUsed, AccountsTypeOK
<1>13. owed' = "yes" => requests[q].via # "apple"
    BY <1>1, <1>2, <1>12 DEF NameComes
<1>14. NameComes'
  <2>1. owed' = "yes" => owed = "yes" /\ cache'
      BY <1>1, <1>8, <1>12 DEF NameComes
  <2>2. requests'[q].at # "make" /\ (owed' = "yes" => requests'[q].at # "clean")
      BY <1>3, <1>5, <1>7, <1>13
  <2>. QED BY <1>1, <1>7, <2>1, <2>2, NameStillComes
<1>. QED BY <1>1, <1>3, <1>5, <1>7, <1>8, <1>9, <1>10, <1>11, <1>12, <1>14, TurnKeeps DEF AccountsTypeOK

LEMMA HealKeeps ==
    ASSUME AccountsInv, NEW q \in Requests, HealAccount(q)
    PROVE  AccountsInv'
<1>1. AccountsTypeOK /\ Asks(q) /\ NameComes
    BY DEF AccountsInv
<1>2. PICK r, at : r = Row(q) /\ at = IF requests[q].name = "apple" THEN "clean" ELSE "enter"
    OBVIOUS
<1>3. requests[q].at = "heal" /\ r \in Rows /\ users[r] \in RowRec
    BY <1>1, <1>2 DEF HealAccount, Live, AccountsTypeOK
<1>4. Answered(q) /\ requests'[q].at = at /\ requests'[q].via = requests[q].via
      /\ requests'[q].name = requests[q].name
    BY <1>1, <1>2, GoToEffect DEF HealAccount
<1>5. UNCHANGED <<otps, issued, cache, sessions, newest, overtaken>> /\ NameUsed(requests[q].name)
    BY DEF HealAccount
<1>6. CodesKept
    BY <1>1, <1>5, CodesStay DEF AccountsTypeOK
<1>7. RowsKept
  <2>1. PICK name : name = IF requests[q].name = "apple" THEN "apple" ELSE users[r].name
      OBVIOUS
  <2>2. PICK row : row = [users[r] EXCEPT !.verified = TRUE, !.name = name]
      OBVIOUS
  <2>3. row \in RowRec /\ row.closed = users[r].closed /\ row.ids = users[r].ids /\ row.mail = users[r].mail
        /\ row.active = users[r].active
      BY <1>3, <2>1, <2>2 DEF RowRec, Names
  <2>4. users' = [users EXCEPT ![r] = row]
      BY <1>1, <1>2, <1>3, <2>1, <2>2 DEF HealAccount, AccountsTypeOK
  <2>. QED BY <1>1, <2>3, <2>4, OneRowKept
<1>8. Asks(q)'
    BY <1>1, <1>2, <1>3, <1>4 DEF Asks
<1>9. owed' \in {"no", "yes", "raced"} /\ (owed' = "yes" => owed = "yes" /\ at = "enter") /\ at \in {"clean", "enter"}
    BY <1>1, <1>2, <1>5 DEF NameUsed, AccountsTypeOK
<1>10. NameComes'
    BY <1>1, <1>4, <1>5, <1>9, NameStillComes DEF NameComes
<1>. QED BY <1>1, <1>4, <1>5, <1>6, <1>7, <1>8, <1>9, <1>10, TurnKeeps DEF AccountsTypeOK

LEMMA CleanKeeps ==
    ASSUME AccountsInv, NEW q \in Requests, CleanCache(q)
    PROVE  AccountsInv'
<1>1. AccountsTypeOK /\ Asks(q) /\ NameComes
    BY DEF AccountsInv
<1>2. Answered(q) /\ requests'[q].at = "enter" /\ requests'[q].via = requests[q].via
      /\ requests'[q].name = requests[q].name
    BY <1>1, GoToEffect DEF CleanCache
<1>3. UNCHANGED <<users, otps, issued, sessions, newest, owed, overtaken>> /\ cache' = FALSE
    BY DEF CleanCache, acctHistory
<1>4. RowsKept /\ CodesKept
    BY <1>1, <1>3, RowsStay, CodesStay DEF AccountsTypeOK
<1>5. Asks(q)' /\ owed # "yes"
    BY <1>1, <1>2 DEF Asks, NameComes, CleanCache
<1>6. NameComes'
    BY <1>3, <1>5 DEF NameComes
<1>. QED BY <1>1, <1>2, <1>3, <1>4, <1>5, <1>6, TurnKeeps DEF AccountsTypeOK

\* A change of mailbox or name is asked for by an account that is open.
LEMMA AskEmailKeeps ==
    ASSUME AccountsInv, NEW q \in Requests, NEW r \in Rows, UpdateEmail(q, r)
    PROVE  AccountsInv'
<1>1. AccountsTypeOK /\ NameComes /\ ClosedIsShut
    BY DEF AccountsInv
<1>2. PICK at \in {"mailbox", "rename"}, mail \in Mails, name \in {"own", "none"} :
          Call(q, [NoRequest EXCEPT !.at = at, !.rows = {r}, !.mail = mail, !.name = name])
  <2>1. PICK mail \in {"own", "other", "none"}, name \in {"own", "none"} :
            Call(q, [NoRequest EXCEPT !.at = IF mail = "none" THEN "rename" ELSE "mailbox",
                                      !.rows = {r}, !.mail = mail, !.name = name])
      BY DEF UpdateEmail
  <2>2. PICK at : at = IF mail = "none" THEN "rename" ELSE "mailbox"
      OBVIOUS
  <2>3. at \in {"mailbox", "rename"} /\ mail \in Mails
      BY <2>2 DEF Mails
  <2>. QED BY <2>1, <2>2, <2>3
<1>3. PICK m : m = [NoRequest EXCEPT !.at = at, !.rows = {r}, !.mail = mail, !.name = name]
    OBVIOUS
<1>4. m \in RequestRec /\ m.at = at /\ m.rows = {r} /\ m.name # "apple"
    BY <1>3 DEF NoRequest, RequestRec, Names
<1>5. Answered(q) /\ requests'[q] = m
    BY <1>1, <1>2, <1>3, <1>4, CallEffect
<1>6. UNCHANGED <<users, otps, issued, cache, sessions, newest, owed, overtaken>>
    BY DEF UpdateEmail, acctHistory
<1>7. RowsKept /\ CodesKept
    BY <1>1, <1>6, RowsStay, CodesStay DEF AccountsTypeOK
<1>8. Asks(q)'
    BY <1>4, <1>5 DEF Asks
<1>9. NameComes'
    BY <1>1, <1>4, <1>5, <1>6, NameStillComes DEF NameComes
<1>10. users[r].closed => r \in overtaken
    BY <1>1 DEF ClosedIsShut, UpdateEmail, Authorised
<1>. QED BY <1>1, <1>4, <1>5, <1>6, <1>7, <1>8, <1>9, <1>10, TurnKeeps DEF AccountsTypeOK

\* It is written over the row, which was closed meanwhile only if that is known.
LEMMA WriteEmailKeeps ==
    ASSUME AccountsInv, NEW q \in Requests, WriteEmail(q)
    PROVE  AccountsInv'
<1>1. AccountsTypeOK /\ Asks(q) /\ NameComes /\ LinksOpen /\ ClosedIsShut /\ ClosedIsFree
    BY DEF AccountsInv
<1>2. PICK r, mail, name : /\ r = Row(q)
                           /\ mail = IF requests[q].at = "mailbox" THEN requests[q].mail ELSE users[r].mail
                           /\ name = IF requests[q].name = "none" THEN users[r].name ELSE requests[q].name
    OBVIOUS
<1>3. requests[q] \in RequestRec /\ requests[q].at \in {"mailbox", "rename"}
    BY <1>1 DEF AccountsTypeOK, WriteEmail
<1>4. r \in requests[q].rows /\ r \in Rows
    BY <1>1, <1>2, <1>3 DEF Asks, RequestRec, Row
<1>5. users[r] \in RowRec
    BY <1>1, <1>4 DEF AccountsTypeOK
<1>6. mail \in Mails /\ name \in Names
    BY <1>2, <1>3, <1>5 DEF RequestRec, RowRec
<1>7. PICK row : row = [users[r] EXCEPT !.mail = mail, !.name = name]
    OBVIOUS
<1>8. row \in RowRec /\ row.closed = users[r].closed /\ row.active = users[r].active /\ row.ids = users[r].ids
      /\ row.mail = mail
    BY <1>5, <1>6, <1>7 DEF RowRec
<1>9. users' = [users EXCEPT ![r] = row]
    BY <1>1, <1>2, <1>4, <1>7 DEF WriteEmail, AccountsTypeOK
<1>10. UNCHANGED <<otps, issued, cache, sessions, newest, owed, overtaken, acctBounds>> /\ End(q)
    BY DEF WriteEmail, acctHistory
<1>11. Answered(q) /\ requests'[q] = NoRequest
    BY <1>1, <1>10, EndEffect
<1>12. CodesKept
    BY <1>1, <1>10, CodesStay DEF AccountsTypeOK
<1>13. Asks(q)' /\ requests'[q].at = "idle"
    BY <1>11, IdleAsks
<1>14. NameComes'
    BY <1>1, <1>10, <1>11, <1>13, NameStillComes DEF NameComes
<1>15. CASE requests[q].at = "rename"
  <2>1. RowsKept
      BY <1>1, <1>2, <1>8, <1>9, <1>15, OneRowKept
  <2>. QED BY <1>1, <1>10, <1>11, <1>12, <1>13, <1>14, <2>1, TurnKeeps DEF AccountsTypeOK
<1>16. CASE requests[q].at = "mailbox"
  <2>1. users' \in [Rows -> RowRec] /\ users'[r] = row /\ \A o \in Rows \ {r} : users'[o] = users[o]
      BY <1>1, <1>4, <1>8, <1>9, OneRow
  <2>2. users[r].closed => r \in overtaken
      BY <1>1, <1>4, <1>16 DEF LinksOpen
  <2>3. LinksOpen'
    <3>. SUFFICES ASSUME NEW p \in Requests \ {q}, requests[p].at \in {"link", "mailbox"},
                         NEW o \in requests[p].rows, users'[o].closed
                  PROVE  o \in overtaken
        BY <1>10, <1>11, <1>13 DEF LinksOpen, Answered
    <3>1. o \in Rows
        BY <1>1 DEF AccountsTypeOK, RequestRec
    <3>2. users[o].closed
        BY <1>8, <2>1, <3>1
    <3>. QED BY <1>1, <3>2 DEF LinksOpen
  <2>4. ClosedIsFree'
      BY <1>1, <1>8, <1>10, <2>1, <2>2 DEF ClosedIsFree
  <2>5. ClosedIsShut'
      BY <1>1, <1>8, <1>10, <2>1 DEF ClosedIsShut
  <2>6. AccountsTypeOK' /\ \A p \in Requests : Asks(p)'
      BY <1>1, <1>10, <1>11, <1>12, <1>13, <2>1 DEF AccountsInv, AccountsTypeOK, Answered, CodesKept, Asks
  <2>. QED BY <1>12, <1>14, <2>3, <2>4, <2>5, <2>6 DEF AccountsInv, CodesKept
<1>. QED BY <1>3, <1>15, <1>16

-----------------------------------------------------------------------------
(* Accounts: what the holder and staff do, and the theorems.               *)

\* A row is changed outside the requests.
LEMMA ChangeKeeps ==
    ASSUME AccountsInv, NEW r \in Rows, NEW row \in RowRec, ChangeRow(r, row), calls' = calls,
           incidents' \in 0 .. MaxIncidents,
           \/ /\ overtaken \subseteq overtaken' /\ overtaken' \subseteq overtaken \cup {r}
              /\ row.closed = users[r].closed /\ row.ids \subseteq users[r].ids
              /\ row.mail \in {users[r].mail, "freed"}
              /\ users[r].closed /\ row.active => r \in overtaken' \/ users[r].active
           \/ /\ overtaken' = IF Holding(r) THEN overtaken \cup {r} ELSE overtaken
              /\ row.mail = "freed" /\ row.ids = {} /\ ~row.active
    PROVE  AccountsInv'
<1>1. AccountsTypeOK /\ LinksOpen /\ ClosedIsShut /\ ClosedIsFree /\ NameComes
    BY DEF AccountsInv
<1>2. users' \in [Rows -> RowRec] /\ users'[r] = row /\ \A o \in Rows \ {r} : users'[o] = users[o]
    BY <1>1, OneRow DEF ChangeRow
<1>3. UNCHANGED <<otps, issued, cache, requests, sessions, newest, owed>>
      /\ overtaken \subseteq overtaken' /\ overtaken' \subseteq Rows
    BY <1>1 DEF ChangeRow, AccountsTypeOK
<1>4. AccountsTypeOK'
    BY <1>1, <1>2, <1>3 DEF AccountsTypeOK
<1>5. NameComes' /\ (\A q \in Requests : Asks(q)') /\ \A t \in Types : NewestIs(t)'
    BY <1>3 DEF AccountsInv, NameComes, Asks, NewestIs
<1>6. LinksOpen'
  <2>. SUFFICES ASSUME NEW q \in Requests, requests[q].at \in {"link", "mailbox"}, NEW o \in requests[q].rows, users'[o].closed
                PROVE  o \in overtaken'
      BY <1>3 DEF LinksOpen
  <2>1. o \in Rows
      BY <1>1 DEF AccountsTypeOK, RequestRec
  <2>2. CASE users[o].closed
      BY <1>1, <1>3, <2>2 DEF LinksOpen
  <2>3. CASE ~users[o].closed
    <3>1. o = r
        BY <1>2, <2>1, <2>3
    <3>2. Holding(r) /\ overtaken' = IF Holding(r) THEN overtaken \cup {r} ELSE overtaken
        BY <1>2, <2>3, <3>1 DEF Holding
    <3>. QED BY <3>1, <3>2
  <2>. QED BY <2>2, <2>3
<1>7. ClosedIsFree'
  <2>. SUFFICES ASSUME NEW o \in Rows \ overtaken', users'[o].closed
                PROVE  users'[o].mail = "freed" /\ users'[o].ids = {}
      BY DEF ClosedIsFree
  <2>1. o \notin overtaken
      BY <1>3
  <2>2. CASE o # r
      BY <1>1, <1>2, <2>1, <2>2 DEF ClosedIsFree
  <2>3. CASE o = r
      BY <1>1, <1>2, <2>1, <2>3 DEF ClosedIsFree
  <2>. QED BY <2>2, <2>3
<1>8. ClosedIsShut'
  <2>. SUFFICES ASSUME NEW o \in Rows \ overtaken', users'[o].closed
                PROVE  ~users'[o].active
      BY DEF ClosedIsShut
  <2>1. o \notin overtaken
      BY <1>3
  <2>2. CASE o # r
      BY <1>1, <1>2, <2>1, <2>2 DEF ClosedIsShut
  <2>3. CASE o = r
      BY <1>1, <1>2, <2>1, <2>3 DEF ClosedIsShut
  <2>. QED BY <2>2, <2>3
<1>. QED BY <1>4, <1>5, <1>6, <1>7, <1>8 DEF AccountsInv

LEMMA ModerateKeeps ==
    ASSUME AccountsInv, NEW r \in Rows, NEW row \in RowRec, Moderate(r, row),
           row.closed = users[r].closed, row.ids \subseteq users[r].ids, row.mail \in {users[r].mail, "freed"}
    PROVE  AccountsInv'
<1>1. incidents' \in 0 .. MaxIncidents
    BY AccountsConstants DEF Moderate, AccountsInv, AccountsTypeOK
<1>. QED BY <1>1, ChangeKeeps DEF Moderate

HolderSteps(r) ==
    DeactivateAccount(r) \/ ChangePassword(r) \/ \E v \in Providers : EraseIdentity(r, v)

StaffSteps(r) ==
    \/ UpdateCreatorCampaignAccess(r)
    \/ SuspendCreator(r) \/ ReactivateCreator(r) \/ BanCreator(r)
    \/ SuspendBrand(r) \/ ReactivateBrand(r) \/ BanBrand(r)
    \/ SuspendAdmin(r) \/ ReactivateAdmin(r) \/ BanUser(r) \/ DeleteAdmin(r)

LEMMA HolderKeeps ==
    ASSUME AccountsInv, NEW r \in Rows, HolderSteps(r)
    PROVE  AccountsInv'
<1>1. users[r] \in RowRec /\ AccountsTypeOK
    BY DEF AccountsInv, AccountsTypeOK
<1>2. CASE DeactivateAccount(r)
  <2>1. PICK row : row = Closed(users[r])
      OBVIOUS
  <2>2. row \in RowRec /\ row.mail = "freed" /\ row.ids = {} /\ ~row.active
      BY <1>1, <2>1 DEF Closed, RowRec, Mails
  <2>3. incidents' \in 0 .. MaxIncidents
      BY <1>1, <1>2, AccountsConstants DEF DeactivateAccount, AccountsTypeOK
  <2>. QED BY <1>2, <2>1, <2>2, <2>3, ChangeKeeps DEF DeactivateAccount
<1>3. CASE ChangePassword(r)
  <2>1. PICK row : row = [users[r] EXCEPT !.password = TRUE]
      OBVIOUS
  <2>2. row \in RowRec /\ row.closed = users[r].closed /\ row.ids = users[r].ids /\ row.mail = users[r].mail
        /\ row.active = users[r].active
      BY <1>1, <2>1 DEF RowRec
  <2>. QED BY <1>1, <1>3, <2>1, <2>2, ChangeKeeps DEF ChangePassword, acctBounds, AccountsTypeOK
<1>4. ASSUME NEW v \in Providers, EraseIdentity(r, v)
      PROVE  AccountsInv'
  <2>1. PICK row : row = [users[r] EXCEPT !.ids = users[r].ids \ {v}]
      OBVIOUS
  <2>2. row \in RowRec /\ row.closed = users[r].closed /\ row.ids \subseteq users[r].ids /\ row.mail = users[r].mail
        /\ row.active = users[r].active
      BY <1>1, <2>1 DEF RowRec
  <2>3. ChangeRow(r, row)
      BY <1>4, <2>1 DEF EraseIdentity
  <2>. QED BY <1>1, <1>4, <2>2, <2>3, ChangeKeeps DEF EraseIdentity, acctBounds, AccountsTypeOK
<1>. QED BY <1>2, <1>3, <1>4 DEF HolderSteps

LEMMA StaffKeeps ==
    ASSUME AccountsInv, NEW r \in Rows, StaffSteps(r)
    PROVE  AccountsInv'
<1>1. users[r] \in RowRec
    BY DEF AccountsInv, AccountsTypeOK
<1>2. PICK apply, suspended, reactivated, banned, deleted :
        /\ apply = [users[r] EXCEPT !.apply = ~users[r].apply]
        /\ suspended = Suspended(users[r]) /\ reactivated = Reactivated(users[r]) /\ banned = Banned(users[r])
        /\ deleted = [users[r] EXCEPT !.mail = "freed", !.active = FALSE, !.state = "gone"]
    OBVIOUS
<1>3. \A row \in {apply, suspended, reactivated, banned, deleted} :
        /\ row \in RowRec /\ row.closed = users[r].closed /\ row.ids = users[r].ids
        /\ row.mail \in {users[r].mail, "freed"}
  <2>1. PICK flag \in BOOLEAN : flag = ~users[r].apply
      OBVIOUS
  <2>2. apply = [users[r] EXCEPT !.apply = flag]
      BY <1>2, <2>1
  <2>3. apply \in RowRec /\ apply.closed = users[r].closed /\ apply.ids = users[r].ids
        /\ apply.mail = users[r].mail
      BY <1>1, <2>2 DEF RowRec
  <2>4. \A row \in {suspended, reactivated, banned} :
          /\ row \in RowRec /\ row.closed = users[r].closed /\ row.ids = users[r].ids
          /\ row.mail = users[r].mail
      BY ZenonT(40), <1>1, <1>2 DEF RowRec, Suspended, Reactivated, Banned
  <2>5. deleted \in RowRec /\ deleted.closed = users[r].closed /\ deleted.ids = users[r].ids
        /\ deleted.mail = "freed"
      BY <1>1, <1>2 DEF RowRec, Mails
  <2>. QED BY <2>3, <2>4, <2>5
<1>4. \E row \in {apply, suspended, reactivated, banned, deleted} : Moderate(r, row)
    BY <1>2 DEF StaffSteps, UpdateCreatorCampaignAccess, SuspendCreator, ReactivateCreator, BanCreator,
           SuspendBrand, ReactivateBrand, BanBrand, SuspendAdmin, ReactivateAdmin, BanUser, DeleteAdmin
<1>. QED BY <1>3, <1>4, ModerateKeeps

LEMMA ExpireKeeps == AccountsInv /\ Expire => AccountsInv'
<1>. SUFFICES ASSUME AccountsInv, Expire PROVE AccountsInv'
    OBVIOUS
<1>1. AccountsTypeOK
    BY DEF AccountsInv
<1>2. PICK c \in otps : otps' = (otps \ {c}) \cup {[c EXCEPT !.expired = TRUE]}
    BY DEF Expire
<1>3. PICK old : old = [c EXCEPT !.expired = TRUE]
    OBVIOUS
<1>4. c \in CodeRec
    BY <1>1 DEF AccountsTypeOK
<1>5. old \in CodeRec /\ old.id = c.id /\ old.type = c.type /\ old.verified = c.verified
    BY <1>3, <1>4 DEF CodeRec
<1>6. UNCHANGED <<issued, users, cache, requests, sessions, newest, owed, overtaken, calls>>
      /\ incidents' \in 0 .. MaxIncidents
    BY <1>1, AccountsConstants DEF Expire, acctHistory, AccountsTypeOK
<1>7. AccountsTypeOK'
    BY <1>1, <1>2, <1>3, <1>5, <1>6 DEF AccountsTypeOK
<1>8. \A t \in Types : NewestIs(t) => NewestIs(t)'
    BY <1>2, <1>3, <1>5, <1>6 DEF NewestIs
<1>9. NameComes' /\ LinksOpen' /\ ClosedIsShut' /\ ClosedIsFree' /\ \A q \in Requests : Asks(q)'
    BY <1>6 DEF AccountsInv, NameComes, LinksOpen, ClosedIsShut, ClosedIsFree, Asks
<1>. QED BY <1>7, <1>8, <1>9 DEF AccountsInv

LEMMA AccountsStart == InitAccounts => AccountsInv
<1>. SUFFICES ASSUME InitAccounts PROVE AccountsInv
    OBVIOUS
<1>1. AccountsTypeOK
  <2>1. users \in [Rows -> RowRec] /\ requests \in [Requests -> RequestRec]
      BY IdleRequest DEF InitAccounts
  <2>2. newest \in [Types -> Nat] /\ calls \in 0 .. MaxCalls /\ incidents \in 0 .. MaxIncidents
      BY AccountsConstants DEF InitAccounts
  <2>. QED BY <2>1, <2>2 DEF InitAccounts, AccountsTypeOK
<1>2. \A q \in Requests : Asks(q)
    BY DEF InitAccounts, NoRequest, Asks
<1>3. \A t \in Types : NewestIs(t)
    BY DEF InitAccounts, NewestIs
<1>4. NameComes /\ LinksOpen /\ ClosedIsShut /\ ClosedIsFree
    BY IdleRequest DEF InitAccounts, NameComes, LinksOpen, ClosedIsShut, ClosedIsFree
<1>. QED BY <1>1, <1>2, <1>3, <1>4 DEF AccountsInv

LEMMA AccountsStep == AccountsInv /\ [NextAccounts]_acctVars => AccountsInv'
<1>. SUFFICES ASSUME AccountsInv, [NextAccounts]_acctVars PROVE AccountsInv'
    OBVIOUS
<1>1. AccountsTypeOK /\ \A q \in Requests : Asks(q)
    BY DEF AccountsInv
<1>2. CASE UNCHANGED acctVars
    BY <1>2 DEF acctVars, acctHistory, acctBounds, AccountsInv, AccountsTypeOK, Asks, NewestIs, NameComes,
                LinksOpen, ClosedIsShut, ClosedIsFree
<1>3. ASSUME NEW q \in Requests,
             \/ Wipe(q) \/ Issue(q) \/ MarkAsVerified(q) \/ DropCode(q) \/ SpendCode(q) \/ ConsumeCode(q)
             \/ SendOtp(q) \/ ForgotPassword(q) \/ AdminForgotPassword(q) \/ VerifyOtp(q)
             \/ AdminVerifyOtp(q) \/ ResetPassword(q) \/ Signup(q) \/ ResendInvite(q) \/ CutOff(q)
             \/ WritePassword(q) \/ Register(q) \/ Login(q) \/ AdminLogin(q) \/ InviteAdmin(q) \/ Enter(q)
             \/ GoogleLogin(q) \/ TiktokLogin(q) \/ InstagramLogin(q) \/ FacebookLogin(q) \/ AppleLogin(q)
      PROVE  AccountsInv'
  <2>1. Plain(q)
      BY <1>1, <1>3, CodeSteps, MailboxSteps, SignInSteps, ProviderLogins
  <2>. QED BY <2>1, PlainKeeps
<1>4. ASSUME NEW q \in Requests,
             \/ UpsertAppleNameCache(q) \/ FindUser(q) \/ LinkIdentity(q) \/ LookForName(q)
             \/ MakeAccount(q) \/ HealAccount(q) \/ CleanCache(q)
             \/ (\E r \in Rows : UpdateEmail(q, r)) \/ WriteEmail(q)
      PROVE  AccountsInv'
    BY <1>4, StashKeeps, FindKeeps, LinkKeeps, LookKeeps, MakeKeeps, HealKeeps, CleanKeeps, AskEmailKeeps,
       WriteEmailKeeps
<1>5. ASSUME NEW r \in Rows, HolderSteps(r) \/ StaffSteps(r)
      PROVE  AccountsInv'
    BY <1>5, HolderKeeps, StaffKeeps
<1>6. CASE NextAccounts
    BY <1>3, <1>4, <1>5, <1>6, ExpireKeeps DEF NextAccounts, HolderSteps, StaffSteps
<1>. QED BY <1>2, <1>6

\* Rows, codes and requests keep their shape, and every request has what its next call needs.
THEOREM AccountsTypeCorrect == SpecAccounts => []AccountsTypeOK
<1>1. AccountsInv => AccountsTypeOK
    BY DEF AccountsInv
<1>. QED BY <1>1, AccountsStart, AccountsStep, PTL DEF SpecAccounts

\* generateOtp deletes and creates in two calls; whichever requests overlap, the code that was
\* mailed last and is unused is in the table.
THEOREM MailedCodesWork == SpecAccounts => []NewestCodeWorks
<1>1. AccountsInv => NewestCodeWorks
    BY DEF AccountsInv, NewestIs, NewestCodeWorks
<1>. QED BY <1>1, AccountsStart, AccountsStep, PTL DEF SpecAccounts

\* The name that Apple tells once stays in apple_name_cache until an account has it, unless a
\* sign-in that had looked for it was on its way to empty the cache.
THEOREM AppleNamesAreKept == SpecAccounts => []NameKept
<1>1. AccountsInv => NameKept
    BY DEF AccountsInv, NameComes, NameKept
<1>. QED BY <1>1, AccountsStart, AccountsStep, PTL DEF SpecAccounts

\* deactivateAccount frees mailbox and identities for good: no sign-in and no change of the
\* mailbox that begins later gives one to the closed account again, unless staff reactivate it.
THEOREM ClosedAccountsAreFree == SpecAccounts => []ClosedIsFree
<1>1. AccountsInv => ClosedIsFree
    BY DEF AccountsInv
<1>. QED BY <1>1, AccountsStart, AccountsStep, PTL DEF SpecAccounts

-----------------------------------------------------------------------------
(* Settings.                                                               *)

TierRec == [there : BOOLEAN, isDefault : BOOLEAN, rate : Nat, brandIds : SUBSET Advertisers]
EditorRec == [at : {"idle", "unset", "create", "update", "destroy"}, tier : Tiers \cup {"none"},
              read : TierRec, wanted : TierRec]

SettingsTypeOK ==
    /\ tiers \in [Tiers -> TierRec] /\ editor \in [Editors -> EditorRec]
    /\ standard \in Tiers \cup {"none"} /\ undone \subseteq {"overlap", "resent", "unmarked", "cut"}
    /\ bill \in [Advertisers -> [shown : Int, charged : Int, same : BOOLEAN]]
    /\ settings \in 0 .. MaxSettings

\* A row that is not there has no mark, and a request that is at work has its tier; what
\* it is about to write is there.
RowsThere ==
    /\ \A t \in Tiers : tiers[t].isDefault => tiers[t].there
    /\ \A e \in Editors : editor[e].at # "idle" => editor[e].tier \in Tiers
    /\ \A e \in Editors : editor[e].at \in {"unset", "create", "update"} => editor[e].wanted.there

\* What the tiers say is what staff have asked for.
AsAsked == Defaults = {standard} \ {"none"}

\* Where a request is that nobody has come between: the mark is off while it is about to
\* set it, and as asked at any other time.
EditorOk(e) ==
    LET me == editor[e]
    IN  /\ me.at = "unset" =>
             /\ AsAsked /\ me.wanted.isDefault
             /\ me.read = NoTier \/ (me.read.there /\ tiers[me.tier] = me.read)
        /\ me.at = "create" =>
             /\ me.wanted.isDefault => Defaults = {}
             /\ ~me.wanted.isDefault => AsAsked /\ ~tiers[me.tier].isDefault
        /\ me.at = "update" =>
             /\ tiers[me.tier].there /\ tiers[me.tier].isDefault = me.read.isDefault
             /\ me.wanted.isDefault /\ ~me.read.isDefault => Defaults = {}
             /\ ~(me.wanted.isDefault /\ ~me.read.isDefault) => AsAsked
        /\ me.at = "destroy" => AsAsked /\ ~tiers[me.tier].isDefault

OneEditor ==
    undone = {} =>
        /\ \A e, f \in Busy : e = f
        /\ Busy = {} => AsAsked
        /\ \A e \in Busy : EditorOk(e)

\* A bill since which no tier has changed is still the one that the tiers make.
BillsHold ==
    /\ IsFiniteSet(Defaults)
    /\ \A b \in Advertisers : bill[b].same =>
         /\ bill[b].shown \in calculateBreakdown(OwnTiers(b))
         /\ bill[b].charged # 0 => bill[b].charged \in calculateBreakdown({})

SettingsInv == SettingsTypeOK /\ RowsThere /\ OneEditor /\ BillsHold

\* What a request may begin with, that is to come upon tiers that say what staff asked for.
Begins(m) ==
    /\ m.at # "idle" /\ m.tier \in Tiers
    /\ m.at \in {"unset", "create", "update"} => m.wanted.there
    /\ m.at = "unset" => /\ m.wanted.isDefault
                         /\ m.read = NoTier \/ (m.read.there /\ tiers[m.tier] = m.read)
    /\ m.at = "create" => ~m.wanted.isDefault /\ ~tiers[m.tier].isDefault
    /\ m.at = "update" => /\ tiers[m.tier].there /\ tiers[m.tier] = m.read
                          /\ m.wanted.isDefault => m.read.isDefault
    /\ m.at = "destroy" => ~tiers[m.tier].isDefault

LEMMA NoTierIs == NoTier \in TierRec /\ ~NoTier.there /\ ~NoTier.isDefault /\ NoEditor \in EditorRec
                  /\ NoEditor.at = "idle"
BY DEF NoTier, TierRec, NoEditor, EditorRec

LEMMA RoundedType == \A n \in Nat : Rounded(n, 100) \in Nat /\ Rounded(n, 1000) \in Nat
BY DEF Rounded

LEMMA TotalsAreInts ==
    ASSUME SettingsTypeOK, NEW own \in SUBSET Tiers
    PROVE  calculateBreakdown(own) \subseteq Int
<1>1. CommissionRate(own) \subseteq Nat
  <2>1. \A t \in Tiers : tiers[t].rate \in Nat
      BY DEF SettingsTypeOK, TierRec
  <2>. QED BY <2>1 DEF CommissionRate, Defaults
<1>2. ASSUME NEW rate \in Nat
      PROVE  LET fee == Rounded(TotalBudget * rate, 100)
             IN  TotalBudget + fee + Rounded(fee * 75, 1000) \in Int
  <2>1. TotalBudget \in Nat
      BY SettingsConstants
  <2>2. TotalBudget * rate \in Nat
      BY <2>1
  <2>3. PICK fee \in Nat : fee = Rounded(TotalBudget * rate, 100)
      BY <2>2, RoundedType
  <2>4. fee * 75 \in Nat
      OBVIOUS
  <2>5. PICK vat \in Nat : vat = Rounded(fee * 75, 1000)
      BY <2>4, RoundedType
  <2>6. TotalBudget + fee + vat \in Int
      BY <2>1
  <2>. QED BY <2>3, <2>5, <2>6
<1>. QED BY <1>1, <1>2 DEF calculateBreakdown

LEMMA SaveEffect ==
    ASSUME SettingsTypeOK, BillsHold, NEW new \in [Tiers -> TierRec], SaveTiers(new),
           NEW t, {o \in Tiers : new[o].isDefault} \subseteq Defaults \cup {t}
    PROVE  /\ bill' \in [Advertisers -> [shown : Int, charged : Int, same : BOOLEAN]]
           /\ tiers' = new /\ BillsHold'
<1>1. tiers' = new
    BY DEF SaveTiers
<1>2. ASSUME NEW b \in Advertisers
      PROVE  /\ bill'[b] \in [shown : Int, charged : Int, same : BOOLEAN]
             /\ bill'[b].shown = bill[b].shown /\ bill'[b].charged = bill[b].charged
             /\ bill'[b].same => bill[b].same /\ new = tiers
  <2>1. bill[b] \in [shown : Int, charged : Int, same : BOOLEAN]
      BY DEF SettingsTypeOK
  <2>2. PICK same \in BOOLEAN : same = (bill[b].same /\ new = tiers)
      BY <2>1
  <2>3. PICK r : r = [bill[b] EXCEPT !.same = same]
      OBVIOUS
  <2>4. r \in [shown : Int, charged : Int, same : BOOLEAN] /\ r.shown = bill[b].shown
        /\ r.charged = bill[b].charged /\ r.same = same
      BY <2>1, <2>3
  <2>5. bill'[b] = r
      BY <2>2, <2>3 DEF SaveTiers
  <2>. QED BY <2>2, <2>4, <2>5
<1>3. bill' \in [Advertisers -> [shown : Int, charged : Int, same : BOOLEAN]]
  <2>1. bill' = [b \in Advertisers |-> bill'[b]]
      BY DEF SaveTiers
  <2>. QED BY <1>2, <2>1
<1>4. IsFiniteSet(Defaults')
  <2>1. Defaults' \subseteq Defaults \cup {t}
      BY <1>1 DEF Defaults
  <2>2. IsFiniteSet(Defaults \cup {t})
      BY FS_AddElement DEF BillsHold
  <2>. QED BY <2>1, <2>2, FS_Subset
<1>5. ASSUME NEW b \in Advertisers, bill'[b].same
      PROVE  /\ bill'[b].shown \in calculateBreakdown(OwnTiers(b))'
             /\ bill'[b].charged # 0 => bill'[b].charged \in calculateBreakdown({})'
  <2>1. tiers' = tiers /\ bill[b].same
      BY <1>1, <1>2, <1>5
  <2>2. calculateBreakdown(OwnTiers(b))' = calculateBreakdown(OwnTiers(b))
        /\ calculateBreakdown({})' = calculateBreakdown({})
      BY <2>1 DEF calculateBreakdown, CommissionRate, OwnTiers, Defaults
  <2>. QED BY <1>2, <2>1, <2>2 DEF BillsHold
<1>. QED BY <1>1, <1>3, <1>4, <1>5 DEF BillsHold

\* Nothing is saved: bills and marks stay.
LEMMA TiersStay ==
    ASSUME BillsHold, UNCHANGED <<tiers, bill>>
    PROVE  BillsHold'
BY DEF BillsHold, calculateBreakdown, CommissionRate, OwnTiers, Defaults

LEMMA EditorEffect ==
    ASSUME SettingsTypeOK, NEW e \in Editors, NEW m \in EditorRec, editor' = [editor EXCEPT ![e] = m]
    PROVE  /\ editor' \in [Editors -> EditorRec] /\ editor'[e] = m
           /\ \A f \in Editors \ {e} : editor'[f] = editor[f]
BY DEF SettingsTypeOK

\* A request that begins, with nobody beside it.
LEMMA AskKeeps ==
    ASSUME SettingsInv, NEW e \in Editors, NEW m \in EditorRec, Begins(m), Ask(e, m),
           UNCHANGED <<tiers, standard, bill>>
    PROVE  SettingsInv'
<1>1. SettingsTypeOK /\ RowsThere /\ OneEditor /\ BillsHold
    BY DEF SettingsInv
<1>2. editor' \in [Editors -> EditorRec] /\ editor'[e] = m /\ \A f \in Editors \ {e} : editor'[f] = editor[f]
    BY <1>1, EditorEffect DEF Ask
<1>3. SettingsTypeOK'
  <2>1. settings \in 0 .. MaxSettings /\ settings' = settings + 1 /\ settings < MaxSettings /\ MaxSettings \in Nat
      BY <1>1, SettingsConstants DEF SettingsTypeOK, Ask
  <2>2. settings' \in 0 .. MaxSettings
      BY <2>1
  <2>3. undone' \subseteq {"overlap", "resent", "unmarked", "cut"}
      BY <1>1 DEF SettingsTypeOK, Ask
  <2>. QED BY <1>1, <1>2, <2>2, <2>3 DEF SettingsTypeOK
<1>4. RowsThere'
    BY <1>1, <1>2 DEF RowsThere, Begins
<1>5. BillsHold'
    BY <1>1, TiersStay
<1>6. ASSUME undone' = {}
      PROVE  /\ \A f, g \in Busy' : f = g
             /\ Busy' = {} => AsAsked'
             /\ \A f \in Busy' : EditorOk(f)'
  <2>1. Busy = {} /\ undone = {}
      BY <1>6 DEF Ask
  <2>2. AsAsked
      BY <1>1, <2>1 DEF OneEditor
  <2>3. Busy' = {e}
      BY <1>2, <2>1 DEF Busy, Begins
  <2>4. AsAsked'
      BY <2>2 DEF AsAsked, Defaults
  <2>5. EditorOk(e)'
      BY <1>2, <2>2, <2>4 DEF EditorOk, Begins
  <2>. QED BY <2>2, <2>3, <2>4, <2>5
<1>. QED BY <1>3, <1>4, <1>5, <1>6 DEF SettingsInv, OneEditor
LEMMA WantedIsRow == \A wanted \in Wanted : wanted \in TierRec /\ wanted.there
BY SettingsConstants DEF Wanted, TierRec

LEMMA CreateKeeps ==
    ASSUME SettingsInv, NEW e \in Editors, CreateCommissionTier(e)
    PROVE  SettingsInv'
<1>1. PICK t \in Tiers, wanted \in Wanted :
        /\ ~tiers[t].there
        /\ Ask(e, [at |-> IF wanted.isDefault THEN "unset" ELSE "create", tier |-> t,
                   read |-> NoTier, wanted |-> wanted])
        /\ UNCHANGED <<tiers, standard, bill>>
    BY DEF CreateCommissionTier
<1>2. wanted \in TierRec /\ wanted.there /\ wanted.isDefault \in BOOLEAN
    BY WantedIsRow DEF TierRec
<1>3. PICK at \in {"unset", "create"} : at = IF wanted.isDefault THEN "unset" ELSE "create"
    BY <1>2
<1>4. PICK m : m = [at |-> at, tier |-> t, read |-> NoTier, wanted |-> wanted]
    OBVIOUS
<1>5. m \in EditorRec
    BY <1>2, <1>3, <1>4, NoTierIs DEF EditorRec
<1>6. ~tiers[t].isDefault
    BY <1>1 DEF SettingsInv, RowsThere
<1>7. Begins(m)
    BY <1>2, <1>3, <1>4, <1>6 DEF Begins
<1>8. Ask(e, m)
    BY <1>1, <1>3, <1>4
<1>. QED BY <1>1, <1>5, <1>7, <1>8, AskKeeps

LEMMA UpdateKeeps ==
    ASSUME SettingsInv, NEW e \in Editors, UpdateCommissionTier(e)
    PROVE  SettingsInv'
<1>1. PICK t \in Tiers, wanted \in Wanted, mark \in {"set", "unset", "left out"} :
        /\ tiers[t].there
        /\ Ask(e, [at |-> IF mark = "set" THEN "unset" ELSE "update", tier |-> t,
                   read |-> tiers[t], wanted |-> [wanted EXCEPT !.isDefault =
                     IF mark = "left out" THEN tiers[t].isDefault ELSE mark = "set"]])
        /\ UNCHANGED <<tiers, standard, bill>>
    BY DEF UpdateCommissionTier
<1>2. tiers[t] \in TierRec /\ tiers[t].isDefault \in BOOLEAN
    BY DEF SettingsInv, SettingsTypeOK, TierRec
<1>3. PICK default \in BOOLEAN :
        default = IF mark = "left out" THEN tiers[t].isDefault ELSE mark = "set"
    BY <1>2
<1>4. PICK w : w = [wanted EXCEPT !.isDefault = default]
    OBVIOUS
<1>5. w \in TierRec /\ w.there /\ w.isDefault = default
    BY <1>3, <1>4, WantedIsRow DEF TierRec
<1>6. PICK at \in {"unset", "update"} : at = IF mark = "set" THEN "unset" ELSE "update"
    OBVIOUS
<1>7. PICK m : m = [at |-> at, tier |-> t, read |-> tiers[t], wanted |-> w]
    OBVIOUS
<1>8. m \in EditorRec
    BY <1>2, <1>5, <1>6, <1>7 DEF EditorRec
<1>9. Begins(m)
    BY <1>1, <1>3, <1>5, <1>6, <1>7 DEF Begins
<1>10. Ask(e, m)
    BY <1>1, <1>3, <1>4, <1>6, <1>7
<1>. QED BY <1>1, <1>8, <1>9, <1>10, AskKeeps

LEMMA DeleteKeeps ==
    ASSUME SettingsInv, NEW e \in Editors, DeleteCommissionTier(e)
    PROVE  SettingsInv'
<1>1. PICK t \in Tiers :
        /\ tiers[t].there /\ ~tiers[t].isDefault
        /\ Ask(e, [at |-> "destroy", tier |-> t, read |-> tiers[t], wanted |-> NoTier])
        /\ UNCHANGED <<tiers, standard, bill>>
    BY DEF DeleteCommissionTier
<1>2. PICK m : m = [at |-> "destroy", tier |-> t, read |-> tiers[t], wanted |-> NoTier]
    OBVIOUS
<1>3. m \in EditorRec
    BY <1>2, NoTierIs DEF EditorRec, SettingsInv, SettingsTypeOK
<1>4. Begins(m)
    BY <1>1, <1>2 DEF Begins
<1>. QED BY <1>1, <1>2, <1>3, <1>4, AskKeeps

\* What is common to the steps that write: the request is known to be alone while nothing
\* has gone wrong.
LEMMA AloneAtWork ==
    ASSUME SettingsInv, NEW e \in Editors, editor[e].at # "idle", undone = {}
    PROVE  Busy = {e} /\ EditorOk(e)
BY DEF SettingsInv, OneEditor, Busy

LEMMA UnsetKeeps ==
    ASSUME SettingsInv, NEW e \in Editors, UnsetDefault(e)
    PROVE  SettingsInv'
<1>1. SettingsTypeOK /\ RowsThere /\ OneEditor /\ BillsHold
    BY DEF SettingsInv
<1>2. editor[e] \in EditorRec /\ editor[e].at = "unset" /\ editor[e].tier \in Tiers /\ editor[e].wanted.there
    BY <1>1 DEF SettingsTypeOK, RowsThere, UnsetDefault
<1>3. PICK new : new = [t \in Tiers |-> [tiers[t] EXCEPT !.isDefault = FALSE]]
    OBVIOUS
<1>4. ASSUME NEW t \in Tiers
      PROVE  /\ new[t] \in TierRec /\ ~new[t].isDefault
             /\ new[t].there = tiers[t].there
  <2>1. tiers[t] \in TierRec
      BY <1>1 DEF SettingsTypeOK
  <2>2. new[t] = [tiers[t] EXCEPT !.isDefault = FALSE]
      BY <1>3
  <2>. QED BY <2>1, <2>2 DEF TierRec
<1>5. new \in [Tiers -> TierRec]
    BY <1>3, <1>4
<1>6. SaveTiers(new)
    BY <1>3 DEF UnsetDefault
<1>7. {o \in Tiers : new[o].isDefault} \subseteq Defaults \cup {e}
    BY <1>4
<1>8. /\ bill' \in [Advertisers -> [shown : Int, charged : Int, same : BOOLEAN]]
      /\ tiers' = new /\ BillsHold'
    BY <1>1, <1>5, <1>6, <1>7, SaveEffect
<1>9. Defaults' = {}
    BY <1>4, <1>8 DEF Defaults
<1>10. PICK at \in {"create", "update"} : at = IF editor[e].read = NoTier THEN "create" ELSE "update"
    OBVIOUS
<1>11. PICK m : m = [editor[e] EXCEPT !.at = at]
    OBVIOUS
<1>12. m \in EditorRec /\ m.at = at /\ m.tier = editor[e].tier /\ m.read = editor[e].read
       /\ m.wanted = editor[e].wanted
    BY <1>2, <1>10, <1>11 DEF EditorRec
<1>13. editor' = [editor EXCEPT ![e] = m]
    BY <1>10, <1>11 DEF UnsetDefault
<1>14. editor' \in [Editors -> EditorRec] /\ editor'[e] = m /\ \A f \in Editors \ {e} : editor'[f] = editor[f]
    BY <1>1, <1>12, <1>13, EditorEffect
<1>15. SettingsTypeOK'
    BY <1>1, <1>5, <1>8, <1>14 DEF SettingsTypeOK, UnsetDefault
<1>16. RowsThere'
    BY <1>1, <1>2, <1>4, <1>8, <1>12, <1>14 DEF RowsThere
<1>17. ASSUME undone' = {}
       PROVE  /\ \A f, g \in Busy' : f = g
              /\ Busy' = {} => AsAsked'
              /\ \A f \in Busy' : EditorOk(f)'
  <2>1. undone = {} /\ ~editor[e].read.isDefault
      BY <1>17 DEF UnsetDefault
  <2>2. Busy = {e} /\ EditorOk(e)
      BY <1>2, <2>1, AloneAtWork
  <2>3. Busy' = {e}
      BY <1>10, <1>12, <1>14, <2>2 DEF Busy
  <2>4. /\ editor[e].wanted.isDefault
        /\ editor[e].read = NoTier \/ (editor[e].read.there /\ tiers[editor[e].tier] = editor[e].read)
      BY <1>2, <2>2 DEF EditorOk
  <2>5. CASE editor[e].read = NoTier
    <3>1. m.at = "create" /\ m.wanted.isDefault
        BY <1>10, <1>12, <2>4, <2>5
    <3>2. EditorOk(e)'
        BY <1>9, <1>14, <3>1 DEF EditorOk
    <3>. QED BY <2>3, <3>2
  <2>6. CASE editor[e].read # NoTier
    <3>1. m.at = "update" /\ m.wanted.isDefault /\ ~m.read.isDefault
        BY <1>10, <1>12, <2>1, <2>4, <2>6
    <3>2. tiers'[m.tier].there /\ ~tiers'[m.tier].isDefault
        BY <1>2, <1>4, <1>8, <1>12, <2>4, <2>6
    <3>3. m.read.isDefault \in BOOLEAN /\ tiers'[m.tier].isDefault \in BOOLEAN
        BY <1>2, <1>4, <1>8, <1>12 DEF TierRec, EditorRec
    <3>4. EditorOk(e)'
        BY <1>9, <1>14, <3>1, <3>2, <3>3 DEF EditorOk
    <3>. QED BY <2>3, <3>4
  <2>. QED BY <2>5, <2>6
<1>. QED BY <1>8, <1>15, <1>16, <1>17 DEF SettingsInv, OneEditor

LEMMA CreatedKeeps ==
    ASSUME SettingsInv, NEW e \in Editors, WriteCreated(e)
    PROVE  SettingsInv'
<1>1. SettingsTypeOK /\ RowsThere /\ OneEditor /\ BillsHold
    BY DEF SettingsInv
<1>2. editor[e] \in EditorRec /\ editor[e].at = "create" /\ editor[e].tier \in Tiers /\ editor[e].wanted.there
    BY <1>1 DEF SettingsTypeOK, RowsThere, WriteCreated
<1>3. PICK t \in Tiers, wanted \in TierRec :
        t = editor[e].tier /\ wanted = editor[e].wanted /\ wanted.there /\ wanted.isDefault \in BOOLEAN
    BY <1>2 DEF EditorRec, TierRec
<1>4. PICK new : new = [tiers EXCEPT ![t] = wanted]
    OBVIOUS
<1>5. new \in [Tiers -> TierRec] /\ new[t] = wanted /\ \A o \in Tiers \ {t} : new[o] = tiers[o]
    BY <1>1, <1>3, <1>4 DEF SettingsTypeOK
<1>6. SaveTiers(new)
    BY <1>3, <1>4 DEF WriteCreated
<1>7. {o \in Tiers : new[o].isDefault} \subseteq Defaults \cup {t}
    BY <1>5 DEF Defaults
<1>8. /\ bill' \in [Advertisers -> [shown : Int, charged : Int, same : BOOLEAN]]
      /\ tiers' = new /\ BillsHold'
    BY <1>1, <1>5, <1>6, <1>7, SaveEffect
<1>9. editor' \in [Editors -> EditorRec] /\ editor'[e] = NoEditor /\ \A f \in Editors \ {e} : editor'[f] = editor[f]
    BY <1>1, NoTierIs, EditorEffect DEF WriteCreated
<1>10. SettingsTypeOK'
    BY <1>1, <1>2, <1>5, <1>8, <1>9 DEF SettingsTypeOK, WriteCreated
<1>11. RowsThere'
    BY <1>1, <1>3, <1>5, <1>8, <1>9, NoTierIs DEF RowsThere
<1>12. ASSUME undone' = {}
       PROVE  Busy' = {} /\ AsAsked'
  <2>1. Busy = {e} /\ EditorOk(e)
      BY <1>2, <1>12, AloneAtWork DEF WriteCreated
  <2>2. Busy' = {}
      BY <1>9, <2>1, NoTierIs DEF Busy
  <2>3. standard' = IF wanted.isDefault THEN t ELSE standard
      BY <1>3 DEF WriteCreated
  <2>4. CASE wanted.isDefault
    <3>1. Defaults = {}
        BY <1>2, <1>3, <2>1, <2>4 DEF EditorOk
    <3>2. Defaults' = {t}
        BY <1>5, <1>8, <2>4, <3>1 DEF Defaults
    <3>. QED BY <2>2, <2>3, <2>4, <3>2, SettingsConstants DEF AsAsked
  <2>5. CASE ~wanted.isDefault
    <3>1. AsAsked /\ ~tiers[t].isDefault
        BY <1>2, <1>3, <2>1, <2>5 DEF EditorOk
    <3>2. Defaults' = Defaults
        BY <1>5, <1>8, <2>5, <3>1 DEF Defaults
    <3>. QED BY <2>2, <2>3, <2>5, <3>1, <3>2 DEF AsAsked
  <2>. QED BY <2>4, <2>5
<1>. QED BY <1>8, <1>10, <1>11, <1>12 DEF SettingsInv, OneEditor

LEMMA UpdatedKeeps ==
    ASSUME SettingsInv, NEW e \in Editors, WriteUpdated(e)
    PROVE  SettingsInv'
<1>1. SettingsTypeOK /\ RowsThere /\ OneEditor /\ BillsHold
    BY DEF SettingsInv
<1>2. editor[e] \in EditorRec /\ editor[e].at = "update" /\ editor[e].tier \in Tiers /\ editor[e].wanted.there
    BY <1>1 DEF SettingsTypeOK, RowsThere, WriteUpdated
<1>3. PICK t \in Tiers, wanted \in TierRec, read \in TierRec :
        /\ t = editor[e].tier /\ wanted = editor[e].wanted /\ read = editor[e].read
        /\ wanted.there /\ wanted.isDefault \in BOOLEAN /\ read.isDefault \in BOOLEAN
    BY <1>2 DEF EditorRec, TierRec
<1>4. tiers[t] \in TierRec
    BY <1>1 DEF SettingsTypeOK
<1>5. PICK row : row = [k \in DOMAIN NoTier |->
                          IF wanted[k] # read[k] THEN wanted[k] ELSE tiers[t][k]]
    OBVIOUS
<1>6. /\ row \in TierRec
      /\ row.there = (IF wanted.there # read.there THEN wanted.there ELSE tiers[t].there)
      /\ row.isDefault = (IF wanted.isDefault # read.isDefault THEN wanted.isDefault
                          ELSE tiers[t].isDefault)
    BY <1>3, <1>4, <1>5 DEF TierRec, NoTier
<1>7. PICK new : new = IF tiers[t].there THEN [tiers EXCEPT ![t] = row] ELSE tiers
    OBVIOUS
<1>8. /\ new \in [Tiers -> TierRec] /\ \A o \in Tiers \ {t} : new[o] = tiers[o]
      /\ new[t] = IF tiers[t].there THEN row ELSE tiers[t]
    BY <1>1, <1>3, <1>6, <1>7 DEF SettingsTypeOK
<1>9. SaveTiers(new)
    BY <1>3, <1>5, <1>7 DEF WriteUpdated
<1>10. {o \in Tiers : new[o].isDefault} \subseteq Defaults \cup {t}
    BY <1>8 DEF Defaults
<1>11. /\ bill' \in [Advertisers -> [shown : Int, charged : Int, same : BOOLEAN]]
       /\ tiers' = new /\ BillsHold'
    BY <1>1, <1>8, <1>9, <1>10, SaveEffect
<1>12. editor' \in [Editors -> EditorRec] /\ editor'[e] = NoEditor /\ \A f \in Editors \ {e} : editor'[f] = editor[f]
    BY <1>1, NoTierIs, EditorEffect DEF WriteUpdated
<1>13. SettingsTypeOK'
  <2>1. undone' \subseteq {"overlap", "resent", "unmarked", "cut"}
      BY <1>1 DEF SettingsTypeOK, WriteUpdated
  <2>2. standard' \in Tiers \cup {"none"}
      BY <1>1, <1>3 DEF SettingsTypeOK, WriteUpdated
  <2>. QED BY <1>1, <1>8, <1>11, <1>12, <2>1, <2>2 DEF SettingsTypeOK, WriteUpdated
<1>14. RowsThere'
  <2>1. \A o \in Tiers : new[o].isDefault => new[o].there
    <3>1. row.there = TRUE \/ ~tiers[t].there
        BY <1>3, <1>4, <1>6 DEF TierRec
    <3>. QED BY <1>1, <1>8, <3>1 DEF RowsThere
  <2>. QED BY <1>1, <1>11, <1>12, <2>1, NoTierIs DEF RowsThere
<1>15. ASSUME undone' = {}
       PROVE  Busy' = {} /\ AsAsked'
  <2>1. undone = {} /\ ~(read.isDefault /\ ~wanted.isDefault)
      BY <1>3, <1>15 DEF WriteUpdated
  <2>2. Busy = {e} /\ EditorOk(e)
      BY <1>2, <2>1, AloneAtWork
  <2>3. Busy' = {}
      BY <1>12, <2>2, NoTierIs DEF Busy
  <2>4. standard' = IF wanted.isDefault THEN t ELSE standard
      BY <1>3 DEF WriteUpdated
  <2>5. /\ tiers[t].there /\ tiers[t].isDefault = read.isDefault
        /\ wanted.isDefault /\ ~read.isDefault => Defaults = {}
        /\ ~(wanted.isDefault /\ ~read.isDefault) => AsAsked
      BY <1>2, <1>3, <2>2 DEF EditorOk
  <2>6. new[t] = row
      BY <1>8, <2>5
  <2>7. CASE wanted.isDefault /\ ~read.isDefault
    <3>1. row.isDefault
        BY <1>3, <1>6, <2>7
    <3>2. Defaults' = {t}
        BY <1>8, <1>11, <2>5, <2>6, <2>7, <3>1 DEF Defaults
    <3>. QED BY <2>3, <2>4, <2>7, <3>2, SettingsConstants DEF AsAsked
  <2>8. CASE wanted.isDefault /\ read.isDefault
    <3>1. row.isDefault = tiers[t].isDefault
        BY <1>3, <1>6, <2>8
    <3>2. Defaults' = Defaults
        BY <1>8, <1>11, <2>6, <3>1 DEF Defaults
    <3>3. t \in Defaults /\ AsAsked
        BY <2>5, <2>8 DEF Defaults
    <3>4. t = standard
        BY <3>3 DEF AsAsked
    <3>. QED BY <2>3, <2>4, <2>8, <3>2, <3>3, <3>4 DEF AsAsked
  <2>9. CASE ~wanted.isDefault /\ ~read.isDefault
    <3>1. row.isDefault = tiers[t].isDefault
        BY <1>3, <1>6, <2>9
    <3>2. Defaults' = Defaults
        BY <1>8, <1>11, <2>6, <3>1 DEF Defaults
    <3>. QED BY <2>3, <2>4, <2>5, <2>9, <3>2 DEF AsAsked
  <2>. QED BY <2>1, <2>7, <2>8, <2>9
<1>. QED BY <1>11, <1>13, <1>14, <1>15 DEF SettingsInv, OneEditor

LEMMA DestroyKeeps ==
    ASSUME SettingsInv, NEW e \in Editors, Destroy(e)
    PROVE  SettingsInv'
<1>1. SettingsTypeOK /\ RowsThere /\ OneEditor /\ BillsHold
    BY DEF SettingsInv
<1>2. editor[e] \in EditorRec /\ editor[e].at = "destroy" /\ editor[e].tier \in Tiers
    BY <1>1 DEF SettingsTypeOK, RowsThere, Destroy
<1>3. PICK t \in Tiers : t = editor[e].tier
    BY <1>2
<1>4. PICK new : new = [tiers EXCEPT ![t] = NoTier]
    OBVIOUS
<1>5. new \in [Tiers -> TierRec] /\ new[t] = NoTier /\ \A o \in Tiers \ {t} : new[o] = tiers[o]
    BY <1>1, <1>3, <1>4, NoTierIs DEF SettingsTypeOK
<1>6. SaveTiers(new)
    BY <1>3, <1>4 DEF Destroy
<1>7. {o \in Tiers : new[o].isDefault} \subseteq Defaults \cup {t}
    BY <1>5 DEF Defaults
<1>8. /\ bill' \in [Advertisers -> [shown : Int, charged : Int, same : BOOLEAN]]
      /\ tiers' = new /\ BillsHold'
    BY <1>1, <1>5, <1>6, <1>7, SaveEffect
<1>9. editor' \in [Editors -> EditorRec] /\ editor'[e] = NoEditor /\ \A f \in Editors \ {e} : editor'[f] = editor[f]
    BY <1>1, NoTierIs, EditorEffect DEF Destroy
<1>10. SettingsTypeOK'
    BY <1>1, <1>5, <1>8, <1>9 DEF SettingsTypeOK, Destroy
<1>11. RowsThere'
    BY <1>1, <1>5, <1>8, <1>9, NoTierIs DEF RowsThere
<1>12. ASSUME undone' = {}
       PROVE  Busy' = {} /\ AsAsked'
  <2>1. Busy = {e} /\ EditorOk(e)
      BY <1>2, <1>12, AloneAtWork DEF Destroy
  <2>2. Busy' = {}
      BY <1>9, <2>1, NoTierIs DEF Busy
  <2>3. AsAsked /\ ~tiers[t].isDefault
      BY <1>2, <1>3, <2>1 DEF EditorOk
  <2>4. Defaults' = Defaults
      BY <1>5, <1>8, <2>3, NoTierIs DEF Defaults
  <2>. QED BY <2>2, <2>3, <2>4 DEF AsAsked, Destroy
<1>. QED BY <1>8, <1>10, <1>11, <1>12 DEF SettingsInv, OneEditor

LEMMA CutKeeps ==
    ASSUME SettingsInv, NEW e \in Editors, CutSetting(e)
    PROVE  SettingsInv'
<1>1. SettingsTypeOK /\ RowsThere /\ OneEditor /\ BillsHold
    BY DEF SettingsInv
<1>2. editor' \in [Editors -> EditorRec] /\ editor'[e] = NoEditor /\ \A f \in Editors \ {e} : editor'[f] = editor[f]
    BY <1>1, NoTierIs, EditorEffect DEF CutSetting
<1>3. SettingsTypeOK'
    BY <1>1, <1>2 DEF SettingsTypeOK, CutSetting
<1>4. RowsThere'
    BY <1>1, <1>2, NoTierIs DEF RowsThere, CutSetting
<1>5. BillsHold'
    BY <1>1, TiersStay DEF CutSetting
<1>6. undone' # {}
    BY DEF CutSetting
<1>. QED BY <1>3, <1>4, <1>5, <1>6 DEF SettingsInv, OneEditor

\* Bills alone change: of one brand, to what the tiers make.
LEMMA BillKeeps ==
    ASSUME SettingsInv, NEW b \in Advertisers,
           NEW r \in [shown : Int, charged : Int, same : BOOLEAN],
           bill' = [bill EXCEPT ![b] = r], settings' \in 0 .. MaxSettings,
           r.same => /\ r.shown \in calculateBreakdown(OwnTiers(b))
                     /\ r.charged # 0 => r.charged \in calculateBreakdown({}),
           UNCHANGED <<tiers, editor, standard, undone>>
    PROVE  SettingsInv'
<1>1. SettingsTypeOK /\ RowsThere /\ OneEditor /\ BillsHold
    BY DEF SettingsInv
<1>2. bill' \in [Advertisers -> [shown : Int, charged : Int, same : BOOLEAN]]
      /\ bill'[b] = r /\ \A c \in Advertisers \ {b} : bill'[c] = bill[c]
    BY <1>1 DEF SettingsTypeOK
<1>3. SettingsTypeOK'
    BY <1>1, <1>2 DEF SettingsTypeOK
<1>4. RowsThere'
    BY <1>1 DEF RowsThere
<1>5. OneEditor'
    BY <1>1 DEF OneEditor, Busy, AsAsked, Defaults, EditorOk
<1>6. Defaults' = Defaults /\ calculateBreakdown({})' = calculateBreakdown({})
    BY DEF Defaults, calculateBreakdown, CommissionRate
<1>7. \A c \in Advertisers : calculateBreakdown(OwnTiers(c))' = calculateBreakdown(OwnTiers(c))
    BY DEF Defaults, calculateBreakdown, CommissionRate, OwnTiers
<1>8. BillsHold'
    BY <1>1, <1>2, <1>6, <1>7 DEF BillsHold
<1>. QED BY <1>3, <1>4, <1>5, <1>8 DEF SettingsInv

LEMMA ShowKeeps ==
    ASSUME SettingsInv, NEW b \in Advertisers, PopulateBreakdown(b)
    PROVE  SettingsInv'
<1>1. PICK total \in calculateBreakdown(OwnTiers(b)) :
        bill' = [bill EXCEPT ![b] = [shown |-> total, charged |-> 0, same |-> TRUE]]
    BY DEF PopulateBreakdown
<1>2. PICK r : r = [shown |-> total, charged |-> 0, same |-> TRUE]
    OBVIOUS
<1>3. total \in Int
    BY TotalsAreInts DEF SettingsInv, OwnTiers
<1>4. settings \in 0 .. MaxSettings /\ settings' = settings + 1 /\ settings < MaxSettings /\ MaxSettings \in Nat
    BY SettingsConstants DEF SettingsInv, SettingsTypeOK, PopulateBreakdown
<1>5. settings' \in 0 .. MaxSettings
    BY <1>4
<1>6. r \in [shown : Int, charged : Int, same : BOOLEAN] /\ r.shown = total /\ r.charged = 0
    BY <1>2, <1>3
<1>7. bill' = [bill EXCEPT ![b] = r] /\ UNCHANGED <<tiers, editor, standard, undone>>
    BY <1>1, <1>2 DEF PopulateBreakdown
<1>. QED BY <1>5, <1>6, <1>7, BillKeeps

LEMMA SubmitKeeps ==
    ASSUME SettingsInv, NEW b \in Advertisers, SubmitCampaign(b)
    PROVE  SettingsInv'
<1>1. PICK total \in calculateBreakdown({}) : bill' = [bill EXCEPT ![b].charged = total]
    BY DEF SubmitCampaign
<1>2. total \in Int
    BY TotalsAreInts DEF SettingsInv
<1>3. PICK r : r = [bill[b] EXCEPT !.charged = total]
    OBVIOUS
<1>4. bill[b] \in [shown : Int, charged : Int, same : BOOLEAN]
    BY DEF SettingsInv, SettingsTypeOK
<1>5. r \in [shown : Int, charged : Int, same : BOOLEAN] /\ r.shown = bill[b].shown
      /\ r.same = bill[b].same /\ r.charged = total
    BY <1>2, <1>3, <1>4
<1>6. bill' = [bill EXCEPT ![b] = r]
    BY <1>1, <1>3
<1>7. r.same => r.shown \in calculateBreakdown(OwnTiers(b)) /\ r.charged \in calculateBreakdown({})
    BY <1>5 DEF SettingsInv, BillsHold
<1>8. settings' \in 0 .. MaxSettings
    BY DEF SettingsInv, SettingsTypeOK, SubmitCampaign
<1>9. UNCHANGED <<tiers, editor, standard, undone>>
    BY DEF SubmitCampaign
<1>. QED BY <1>5, <1>6, <1>7, <1>8, <1>9, BillKeeps

\* The number of tiers that are marked is what the query finds more than one of.
LEMMA OneDefault ==
    ASSUME IsFiniteSet(Defaults), Cardinality(Defaults) <= 1
    PROVE  \E rate : CommissionRate({}) = {rate}
<1>1. CASE Defaults = {}
    BY <1>1 DEF CommissionRate
<1>2. CASE Defaults # {}
  <2>1. PICK d \in Defaults : TRUE
      BY <1>2
  <2>2. Cardinality(Defaults) \in Nat /\ Cardinality(Defaults) # 0
      BY <1>2, FS_CardinalityType, FS_EmptySet
  <2>3. Cardinality(Defaults) = 1
      BY <2>2
  <2>4. Defaults = {d}
      BY <2>1, <2>3, FS_Singleton
  <2>5. CommissionRate({}) = {tiers[d].rate}
      BY <2>4 DEF CommissionRate
  <2>. QED BY <2>5
<1>. QED BY <1>1, <1>2

LEMMA SettingsInit == InitSettings => SettingsInv
<1>. SUFFICES ASSUME InitSettings PROVE SettingsInv
    OBVIOUS
<1>1. Defaults = {} /\ Busy = {} /\ AsAsked
    BY NoTierIs DEF InitSettings, Defaults, Busy, AsAsked
<1>2. \A b \in Advertisers : bill[b] = [shown |-> 0, charged |-> 0, same |-> FALSE]
    BY DEF InitSettings
<1>3. BillsHold
    BY <1>1, <1>2, FS_EmptySet DEF BillsHold
<1>4. OneEditor
    BY <1>1 DEF OneEditor
<1>5. SettingsTypeOK /\ RowsThere
    BY NoTierIs, SettingsConstants DEF InitSettings, SettingsTypeOK, RowsThere
<1>. QED BY <1>3, <1>4, <1>5 DEF SettingsInv

LEMMA SettingsNext == SettingsInv /\ [NextSettings]_settingsVars => SettingsInv'
<1>. SUFFICES ASSUME SettingsInv, [NextSettings]_settingsVars PROVE SettingsInv'
    OBVIOUS
<1>1. ASSUME NEW b \in Advertisers, PopulateBreakdown(b) PROVE SettingsInv'
    BY <1>1, ShowKeeps
<1>2. ASSUME NEW b \in Advertisers, SubmitCampaign(b) PROVE SettingsInv'
    BY <1>2, SubmitKeeps
<1>3. ASSUME NEW e \in Editors, CreateCommissionTier(e) PROVE SettingsInv'
    BY <1>3, CreateKeeps
<1>4. ASSUME NEW e \in Editors, UpdateCommissionTier(e) PROVE SettingsInv'
    BY <1>4, UpdateKeeps
<1>5. ASSUME NEW e \in Editors, DeleteCommissionTier(e) PROVE SettingsInv'
    BY <1>5, DeleteKeeps
<1>6. ASSUME NEW e \in Editors, UnsetDefault(e) PROVE SettingsInv'
    BY <1>6, UnsetKeeps
<1>7. ASSUME NEW e \in Editors, WriteCreated(e) PROVE SettingsInv'
    BY <1>7, CreatedKeeps
<1>8. ASSUME NEW e \in Editors, WriteUpdated(e) PROVE SettingsInv'
    BY <1>8, UpdatedKeeps
<1>9. ASSUME NEW e \in Editors, Destroy(e) PROVE SettingsInv'
    BY <1>9, DestroyKeeps
<1>10. ASSUME NEW e \in Editors, CutSetting(e) PROVE SettingsInv'
    BY <1>10, CutKeeps
<1>11. CASE UNCHANGED settingsVars
  <2>1. UNCHANGED <<tiers, editor, standard, undone, bill, settings>>
      BY <1>11 DEF settingsVars
  <2>2. SettingsTypeOK' /\ RowsThere'
      BY <2>1 DEF SettingsInv, SettingsTypeOK, RowsThere
  <2>3. OneEditor'
      BY <2>1 DEF SettingsInv, OneEditor, Busy, AsAsked, Defaults, EditorOk
  <2>4. BillsHold'
      BY <2>1, TiersStay DEF SettingsInv
  <2>. QED BY <2>2, <2>3, <2>4 DEF SettingsInv
<1>. QED
    BY <1>1, <1>2, <1>3, <1>4, <1>5, <1>6, <1>7, <1>8, <1>9, <1>10, <1>11 DEF NextSettings

\* What the requests of staff to read and write tiers may hold, and where they may be: each
\* of them has its rows and its locals (admin-settings.service.ts), whatever their number.
THEOREM SettingsTypeCorrect == SpecSettings => []SettingsTypeOK
<1>1. SettingsInv => SettingsTypeOK
    BY DEF SettingsInv
<1>. QED BY <1>1, SettingsInit, SettingsNext, PTL DEF SpecSettings

\* Between requests of staff, none of which was cut off, ran beside another or sent the
\* default tier with its mark, the one tier that has the mark is the one that was made the
\* default last, and its rate is that of every brand without a tier of its own.
THEOREM DefaultIsKnown == SpecSettings => []DefaultRules
<1>1. SettingsInv => DefaultRules
  <2>. SUFFICES ASSUME SettingsInv, undone = {}, Busy = {}
                PROVE  /\ Defaults = {standard} \ {"none"}
                       /\ CommissionRate({}) =
                            IF standard = "none" THEN {15} ELSE {tiers[standard].rate}
      BY DEF DefaultRules
  <2>1. Defaults = {standard} \ {"none"}
      BY DEF SettingsInv, OneEditor, AsAsked
  <2>2. CASE standard = "none"
      BY <2>1, <2>2 DEF CommissionRate
  <2>3. CASE standard # "none"
    <3>1. Defaults = {standard}
        BY <2>1, <2>3
    <3>2. {tiers[t].rate : t \in Defaults} = {tiers[standard].rate}
        BY <3>1
    <3>. QED BY <2>1, <2>3, <3>1, <3>2 DEF CommissionRate
  <2>. QED BY <2>2, <2>3
<1>. QED BY <1>1, SettingsInit, SettingsNext, PTL DEF SpecSettings

\* A brand that is charged, with no tier changed since its campaign was shown to it, is
\* charged the total that it was shown, unless it has a tier of its own, which the checkout
\* does not ask for, or several tiers are marked as the default.
THEOREM ShownIsCharged == SpecSettings => []QuoteIsCharged
<1>1. SettingsInv => QuoteIsCharged
  <2>. SUFFICES ASSUME SettingsInv, NEW b \in Advertisers, bill[b].charged # 0, bill[b].same,
                       OwnTiers(b) = {}, ~(Cardinality(Defaults) > 1)
                PROVE  bill[b].charged = bill[b].shown
      BY DEF QuoteIsCharged
  <2>1. IsFiniteSet(Defaults)
      BY DEF SettingsInv, BillsHold
  <2>2. Cardinality(Defaults) <= 1
      BY <2>1, FS_CardinalityType
  <2>3. PICK rate : CommissionRate({}) = {rate}
      BY <2>1, <2>2, OneDefault
  <2>4. \A x, y \in calculateBreakdown({}) : x = y
      BY <2>3 DEF calculateBreakdown
  <2>5. bill[b].charged \in calculateBreakdown({}) /\ bill[b].shown \in calculateBreakdown({})
      BY DEF SettingsInv, BillsHold
  <2>. QED BY <2>4, <2>5
<1>. QED BY <1>1, SettingsInit, SettingsNext, PTL DEF SpecSettings

-----------------------------------------------------------------------------
(* Socials.                                                                *)

ConnRec == [row : Nat, handle : Handles \cup {"none"}, count : Nat]
CallRec == [at : {"idle", "upsert", "restat", "remove", "read", "write", "erase"},
            kind : {"none", "connect", "refresh", "disconnect", "deauthorize", "deletion"},
            user : Users \cup {"none"}, platform : Platforms \cup {"none"}, conn : ConnRec,
            count : Nat, read : [Platforms -> ConnRec], alone : BOOLEAN]

SocialsTypeOK ==
    /\ conns \in [Users -> [Platforms -> ConnRec]] /\ columns \in [Users -> [Platforms -> Nat]]
    /\ tier \in [Users -> 0 .. 4] /\ identity \in [Users -> Handles \cup {NoHandle}]
    /\ request \in [Calls -> CallRec] /\ synced \subseteq Users
    /\ begun \in 0 .. MaxRequests /\ cuts \in 0 .. MaxCuts

\* A request at work is about a user and a platform, and if it is alone no other at work is
\* about that user.
CallsStand ==
    \A c \in Calls : request[c].at # "idle" =>
        /\ request[c].user \in Users /\ request[c].platform \in Platforms
        /\ request[c].alone => Under(request[c].user) = {c}
        /\ request[c].at \in {"upsert", "restat"} => request[c].kind # "deletion"

\* What request m, being alone, knows of the connections cs.
Knows(m, cs) ==
    m.at # "idle" /\ m.alone =>
        /\ m.at = "write" => m.read = cs[m.user]
        /\ m.kind = "deletion" /\ m.at \in {"read", "write", "erase"} =>
             cs[m.user][m.platform] = NoConn
        /\ m.at = "erase" => m.kind = "deletion"

\* What a request that is alone has read is what there is, and a connection that it has
\* removed on the user's demand is gone.
AloneKnows == \A c \in Calls : Knows(request[c], conns)

\* A synchronised user has no request at work but one that is about to erase the login.
SyncedIsQuiet ==
    \A u \in synced : \A c \in Under(u) : request[c].at = "erase" /\ request[c].alone

SocialsInv == SocialsTypeOK /\ CallsStand /\ AloneKnows /\ SyncedIsQuiet /\ TierFollows

\* A request that has taken a step: it has ended, or is about the same as before.
SameCall(c, m) ==
    \/ m.at = "idle"
    \/ /\ m.user = request[c].user /\ m.platform = request[c].platform
       /\ m.kind = request[c].kind /\ m.alone = request[c].alone
       /\ m.at \in {"read", "write", "erase"}

LEMMA NoConnIs == NoConn \in ConnRec /\ NoConn.count = 0 /\ NoConn.handle = "none"
BY DEF NoConn, ConnRec

LEMMA NoCallIs == NoCall \in CallRec /\ NoCall.at = "idle"
BY NoConnIs DEF NoCall, CallRec

\* Of a set of numbers there is one no less than a given one of them and than v.
LEMMA OneOver ==
    ASSUME NEW S \in SUBSET Nat, NEW a \in S, NEW v
    PROVE  \E e \in S : e >= a /\ (v \in S => e >= v)
<1>1. a \in Nat /\ a >= a
    OBVIOUS
<1>2. ASSUME v \in S PROVE v >= v /\ (v >= a \/ a >= v)
    BY <1>2
<1>3. CASE v \in S /\ v >= a
    BY <1>2, <1>3
<1>4. CASE ~(v \in S /\ v >= a)
    BY <1>1, <1>2, <1>4
<1>. QED BY <1>3, <1>4

\* Among the counts of any of the platforms there is a largest.
LEMMA HasLargest ==
    ASSUME NEW f \in [Platforms -> Nat]
    PROVE  \E m \in {f[p] : p \in Platforms} \cup {0} : \A p \in Platforms : m >= f[p]
<1>0. PICK S : S = {f[p] : p \in Platforms} \cup {0}
    OBVIOUS
<1>1. S \in SUBSET Nat /\ 0 \in S /\ \A p \in Platforms : f[p] \in S
    BY <1>0
<1>2. PICK a \in S : a >= 0 /\ (f["instagram"] \in S => a >= f["instagram"])
    BY <1>1, OneOver
<1>3. PICK b \in S : b >= a /\ (f["tiktok"] \in S => b >= f["tiktok"])
    BY <1>1, OneOver
<1>4. PICK c \in S : c >= b /\ (f["youtube"] \in S => c >= f["youtube"])
    BY <1>1, OneOver
<1>5. PICK d \in S : d >= c /\ (f["twitter"] \in S => d >= f["twitter"])
    BY <1>1, OneOver
<1>6. PICK e \in S : e >= d /\ (f["facebook"] \in S => e >= f["facebook"])
    BY <1>1, OneOver
<1>7. a \in Nat /\ b \in Nat /\ c \in Nat /\ d \in Nat /\ e \in Nat
    BY <1>1
<1>8. ASSUME NEW p \in Platforms PROVE e >= f[p]
  <2>1. p \in {"instagram", "tiktok", "youtube", "twitter", "facebook"}
      BY SocialsConstants DEF SocialPlatform
  <2>2. f[p] \in Nat /\ f[p] \in S
      BY <1>1
  <2>. QED BY <1>2, <1>3, <1>4, <1>5, <1>6, <1>7, <2>1, <2>2
<1>. QED BY <1>0, <1>8

\* The tier that follows from counts is on the ladder.
LEMMA TierOnLadder ==
    ASSUME NEW P \in SUBSET Platforms, NEW f \in [P -> Nat]
    PROVE  ComputeTier(MaxFollowers(f)) \in 1 .. 4
<1>1. PICK g \in [Platforms -> Nat] : \A p \in P : g[p] = f[p]
  <2>1. [p \in Platforms |-> IF p \in P THEN f[p] ELSE 0] \in [Platforms -> Nat]
      OBVIOUS
  <2>. QED BY <2>1
<1>2. DOMAIN f = P
    OBVIOUS
<1>3. PICK h : h = [p \in Platforms |-> IF p \in P THEN f[p] ELSE 0]
    OBVIOUS
<1>4. h \in [Platforms -> Nat] /\ (\A p \in P : h[p] = f[p]) /\ (\A p \in Platforms \ P : h[p] = 0)
    BY <1>3
<1>5. PICK m \in {h[p] : p \in Platforms} \cup {0} : \A p \in Platforms : m >= h[p]
    BY <1>4, HasLargest
<1>6. m \in Nat
    BY <1>4
<1>7. m \in {f[p] : p \in P} \cup {0}
    BY <1>4
<1>8. \A y \in {f[p] : p \in P} \cup {0} : m >= y
    BY <1>4, <1>5, <1>6
<1>9. Max({f[p] : p \in P} \cup {0}) \in {f[p] : p \in P} \cup {0}
    BY <1>7, <1>8 DEF Max
<1>10. MaxFollowers(f) \in Nat
    BY <1>2, <1>9 DEF MaxFollowers
<1>11. ASSUME NEW n \in Nat PROVE ComputeTier(n) \in 1 .. 4
  <2>. DEFINE Fits(t) == /\ t > 1 => n >= <<0, 10000, 200000, 1000000>>[t]
                         /\ t < 4 => n < <<10000, 200000, 1000000>>[t]
  <2>1. \E t \in 1 .. 4 : Fits(t)
    <3>1. CASE n < 10000
        BY <3>1
    <3>2. CASE n >= 10000 /\ n < 200000
        BY <3>2
    <3>3. CASE n >= 200000 /\ n < 1000000
        BY <3>3
    <3>4. CASE n >= 1000000
        BY <3>4
    <3>. QED BY <3>1, <3>2, <3>3, <3>4
  <2>. QED BY <2>1 DEF ComputeTier
<1>. QED BY <1>10, <1>11

\* A step of a request leaves the others where they are.
LEMMA SocialCallEffect ==
    ASSUME SocialsInv, NEW c \in Calls, NEW m \in CallRec, request[c].at # "idle",
           SameCall(c, m), request' = [request EXCEPT ![c] = m]
    PROVE  /\ request' \in [Calls -> CallRec] /\ request'[c] = m
           /\ \A d \in Calls \ {c} : request'[d] = request[d]
           /\ \A u : Under(u)' \subseteq Under(u)
           /\ CallsStand'
<1>1. request \in [Calls -> CallRec] /\ CallsStand
    BY DEF SocialsInv, SocialsTypeOK
<1>2. /\ request' \in [Calls -> CallRec] /\ request'[c] = m
      /\ \A d \in Calls \ {c} : request'[d] = request[d]
    BY <1>1
<1>3. \A u : Under(u)' \subseteq Under(u)
    BY <1>2 DEF Under, SameCall
<1>4. ASSUME NEW d \in Calls, request'[d].at # "idle"
      PROVE  /\ request'[d].user \in Users /\ request'[d].platform \in Platforms
             /\ request'[d].alone => Under(request[d].user)' = {d}
             /\ request'[d].at \in {"upsert", "restat"} => request'[d].kind # "deletion"
  <2>1. /\ request[d].at # "idle" /\ request'[d].user = request[d].user
        /\ request'[d].platform = request[d].platform /\ request'[d].kind = request[d].kind
        /\ request'[d].alone = request[d].alone
        /\ request'[d].at \in {"upsert", "restat"} => request'[d] = request[d]
      BY <1>2, <1>4 DEF SameCall
  <2>2. PICK u : u = request'[d].user
      OBVIOUS
  <2>3. d \in Under(u)'
      BY <1>4, <2>2 DEF Under
  <2>4. request'[d].alone => Under(u) = {d}
      BY <1>1, <2>1, <2>2 DEF CallsStand
  <2>5. request'[d].alone => Under(u)' = {d}
      BY <1>3, <2>3, <2>4
  <2>6. Under(request[d].user)' = Under(u)'
      BY <2>2 DEF Under
  <2>. QED BY <1>1, <2>1, <2>5, <2>6 DEF CallsStand
<1>5. CallsStand'
    BY <1>4 DEF CallsStand
<1>. QED BY <1>2, <1>3, <1>5

\* While request c is at work, no other that is alone is about its user.
LEMMA OthersElsewhere ==
    ASSUME SocialsInv, NEW c \in Calls, request[c].at # "idle", NEW d \in Calls \ {c},
           request[d].at # "idle", request[d].alone
    PROVE  request[d].user # request[c].user
BY DEF SocialsInv, CallsStand, Under

\* A step of a request on the connections of its user.
LEMMA ConnsKeep ==
    ASSUME SocialsInv, NEW c \in Calls, NEW m \in CallRec, request[c].at \notin {"idle", "erase"},
           SameCall(c, m), m.at # "erase", request' = [request EXCEPT ![c] = m],
           conns' \in [Users -> [Platforms -> ConnRec]],
           \A w \in Users \ {request[c].user} : conns'[w] = conns[w], Knows(m, conns'),
           UNCHANGED <<columns, tier, identity, minimum, synced, socialBounds>>
    PROVE  SocialsInv'
<1>1. SocialsTypeOK /\ CallsStand /\ AloneKnows /\ SyncedIsQuiet /\ TierFollows
    BY DEF SocialsInv
<1>2. /\ request' \in [Calls -> CallRec] /\ request'[c] = m
      /\ \A d \in Calls \ {c} : request'[d] = request[d]
      /\ \A u : Under(u)' \subseteq Under(u)
      /\ CallsStand'
    BY SocialCallEffect
<1>3. SocialsTypeOK'
    BY <1>1, <1>2 DEF SocialsTypeOK, socialBounds
<1>4. AloneKnows'
  <2>1. ASSUME NEW d \in Calls \ {c} PROVE Knows(request[d], conns')
    <3>1. CASE request[d].at # "idle" /\ request[d].alone
      <4>1. request[d].user # request[c].user /\ request[d].user \in Users
          BY <1>1, <3>1, OthersElsewhere DEF CallsStand
      <4>. QED BY <1>1, <4>1 DEF AloneKnows, Knows
    <3>. QED BY <3>1 DEF Knows
  <2>. QED BY <1>2, <2>1 DEF AloneKnows
<1>5. request[c].user \notin synced /\ \A u \in synced : c \notin Under(u)
    BY <1>1 DEF SyncedIsQuiet, Under
<1>6. SyncedIsQuiet'
    BY <1>1, <1>2, <1>5 DEF SyncedIsQuiet
<1>7. TierFollows'
    BY SMTT(30), <1>1, <1>5 DEF TierFollows, SocialsTypeOK
<1>. QED BY <1>2, <1>3, <1>4, <1>6, <1>7 DEF SocialsInv

\* A request that begins.
LEMMA BeginKeeps ==
    ASSUME SocialsInv, NEW c \in Calls, NEW new \in CallRec, Begin(c, new),
           new.at \in {"upsert", "restat", "remove"}, new.user \in Users,
           new.platform \in Platforms, new.at \in {"upsert", "restat"} => new.kind # "deletion"
    PROVE  SocialsInv'
<1>1. SocialsTypeOK /\ CallsStand /\ AloneKnows /\ SyncedIsQuiet /\ TierFollows
    BY DEF SocialsInv
<1>2. PICK u \in Users : u = new.user
    OBVIOUS
<1>3. PICK a \in BOOLEAN : a = (Under(u) = {})
    OBVIOUS
<1>4. PICK r : r = [new EXCEPT !.alone = a]
    OBVIOUS
<1>5. /\ r \in CallRec /\ r.at = new.at /\ r.user = u /\ r.platform = new.platform
      /\ r.kind = new.kind /\ r.alone = a
    BY <1>2, <1>3, <1>4 DEF CallRec
<1>6. request[c].at = "idle" /\ c \notin Under(u)
    BY DEF Begin, Under
<1>7. request' = [d \in Calls |->
         IF d = c THEN r
         ELSE IF d \in Under(u) THEN [request[d] EXCEPT !.alone = FALSE] ELSE request[d]]
    BY <1>2, <1>3, <1>4 DEF Begin
<1>8. ASSUME NEW d \in Calls \ {c}
      PROVE  /\ request'[d] \in CallRec /\ request'[d].at = request[d].at
             /\ request'[d].user = request[d].user /\ request'[d].platform = request[d].platform
             /\ request'[d].kind = request[d].kind /\ request'[d].read = request[d].read
             /\ request'[d].alone => d \notin Under(u)
             /\ d \notin Under(u) => request'[d] = request[d]
  <2>1. request[d] \in CallRec
      BY <1>1 DEF SocialsTypeOK
  <2>2. CASE d \in Under(u)
    <3>1. request'[d] = [request[d] EXCEPT !.alone = FALSE]
        BY <1>7, <2>2
    <3>. QED BY <2>1, <2>2, <3>1 DEF CallRec
  <2>3. CASE d \notin Under(u)
      BY <1>7, <2>1, <2>3
  <2>. QED BY <2>2, <2>3
<1>9. request' \in [Calls -> CallRec] /\ request'[c] = r
    BY <1>5, <1>7, <1>8
<1>10. begun' \in 0 .. MaxRequests
  <2>1. begun \in 0 .. MaxRequests /\ begun' = begun + 1 /\ begun < MaxRequests /\ MaxRequests \in Nat
      BY <1>1, SocialsConstants DEF Begin, SocialsTypeOK
  <2>. QED BY <2>1
<1>11. SocialsTypeOK'
    BY <1>1, <1>9, <1>10 DEF SocialsTypeOK, Begin
<1>12. \A w \in Users \ {u} : Under(w)' = Under(w)
    BY <1>5, <1>6, <1>8, <1>9 DEF Under
<1>13. Under(u)' = Under(u) \cup {c}
    BY <1>5, <1>8, <1>9 DEF Under
<1>14. ASSUME NEW d \in Calls, request'[d].at # "idle"
       PROVE  /\ request'[d].user \in Users /\ request'[d].platform \in Platforms
              /\ request'[d].alone => Under(request[d].user)' = {d}
              /\ request'[d].at \in {"upsert", "restat"} => request'[d].kind # "deletion"
  <2>1. CASE d = c
    <3>1. Under(request[d].user)' = Under(u)'
        BY <1>5, <1>9, <2>1 DEF Under
    <3>. QED BY <1>3, <1>5, <1>9, <1>13, <2>1, <3>1
  <2>2. CASE d # c
    <3>1. PICK w : w = request[d].user
        OBVIOUS
    <3>2. Under(request[d].user)' = Under(w)' /\ Under(request[d].user) = Under(w)
        BY <1>8, <2>2, <3>1 DEF Under
    <3>3. w \in Users
        BY <1>1, <1>8, <1>14, <2>2, <3>1 DEF CallsStand
    <3>4. request'[d].alone => w # u
        BY <1>8, <1>14, <2>2, <3>1 DEF Under
    <3>5. request'[d].alone => Under(request[d].user)' = {d}
      <4>. SUFFICES ASSUME request'[d].alone PROVE Under(request[d].user)' = {d}
          OBVIOUS
      <4>1. request'[d] = request[d]
          BY <1>8, <2>2
      <4>2. Under(w) = {d}
          BY <1>1, <1>14, <3>2, <4>1 DEF CallsStand
      <4>. QED BY <1>12, <3>2, <3>3, <3>4, <4>2
    <3>. QED BY <1>1, <1>8, <1>14, <2>2, <3>5 DEF CallsStand
  <2>. QED BY <2>1, <2>2
<1>15. CallsStand'
    BY <1>14 DEF CallsStand
<1>16. AloneKnows'
  <2>1. conns' = conns
      BY DEF Begin
  <2>2. Knows(r, conns)
      BY <1>5 DEF Knows
  <2>3. ASSUME NEW d \in Calls \ {c} PROVE Knows(request'[d], conns)
    <3>1. CASE request'[d].alone
      <4>1. request'[d] = request[d]
          BY <1>8, <3>1
      <4>. QED BY <1>1, <4>1 DEF AloneKnows
    <3>2. CASE ~request'[d].alone
        BY <3>2 DEF Knows
    <3>. QED BY <3>1, <3>2
  <2>. QED BY <1>9, <2>1, <2>2, <2>3 DEF AloneKnows
<1>17. synced' = synced \ {u}
    BY <1>2 DEF Begin
<1>18. SyncedIsQuiet'
  <2>. SUFFICES ASSUME NEW w \in synced', NEW d \in Under(w)'
                PROVE  request'[d].at = "erase" /\ request'[d].alone
      BY DEF SyncedIsQuiet
  <2>1. w \in Users \ {u} /\ w \in synced
      BY <1>1, <1>17 DEF SocialsTypeOK
  <2>2. d \in Under(w)
      BY <1>12, <2>1
  <2>3. request[d].at = "erase" /\ request[d].alone
      BY <1>1, <2>1, <2>2 DEF SyncedIsQuiet
  <2>4. d \in Calls \ {c} /\ d \notin Under(u)
      BY <1>6, <2>1, <2>2, <2>3 DEF Under
  <2>. QED BY <1>8, <2>3, <2>4
<1>19. TierFollows'
    BY <1>1, <1>17 DEF TierFollows, Begin
<1>. QED BY <1>11, <1>15, <1>16, <1>18, <1>19 DEF SocialsInv

LEMMA ConnectKeeps ==
    ASSUME SocialsInv, NEW c \in Calls, NEW u \in Users, NEW p \in Platforms, Connect(c, u, p)
    PROVE  SocialsInv'
<1>1. PICK h \in Handles, n \in Counts :
        Begin(c, [NoCall EXCEPT !.at = "upsert", !.kind = "connect", !.user = u, !.platform = p,
                                !.conn = [row |-> begun + 1, handle |-> h, count |-> n]])
    BY DEF Connect
<1>2. PICK v : v = [row |-> begun + 1, handle |-> h, count |-> n]
    OBVIOUS
<1>3. n \in Nat /\ begun + 1 \in Nat
    BY SocialsConstants DEF SocialsInv, SocialsTypeOK
<1>4. v \in ConnRec
    BY <1>2, <1>3 DEF ConnRec
<1>5. PICK new : new = [NoCall EXCEPT !.at = "upsert", !.kind = "connect", !.user = u,
                                      !.platform = p, !.conn = v]
    OBVIOUS
<1>6. /\ new \in CallRec /\ new.at = "upsert" /\ new.kind = "connect" /\ new.user = u
      /\ new.platform = p
    BY <1>4, <1>5, NoCallIs DEF CallRec
<1>7. Begin(c, new)
    BY <1>1, <1>2, <1>5
<1>. QED BY <1>6, <1>7, BeginKeeps

LEMMA RefreshKeeps ==
    ASSUME SocialsInv, NEW c \in Calls, NEW u \in Users, NEW p \in Platforms, Refresh(c, u, p)
    PROVE  SocialsInv'
<1>1. PICK n \in Counts :
        Begin(c, [NoCall EXCEPT !.at = "restat", !.kind = "refresh", !.user = u,
                                !.platform = p, !.conn = conns[u][p], !.count = n])
    BY DEF Refresh
<1>2. PICK v : v = conns[u][p]
    OBVIOUS
<1>3. n \in Nat /\ v \in ConnRec
    BY <1>2, SocialsConstants DEF SocialsInv, SocialsTypeOK
<1>4. PICK new : new = [NoCall EXCEPT !.at = "restat", !.kind = "refresh", !.user = u,
                                      !.platform = p, !.conn = v, !.count = n]
    OBVIOUS
<1>5. /\ new \in CallRec /\ new.at = "restat" /\ new.kind = "refresh" /\ new.user = u
      /\ new.platform = p
    BY <1>3, <1>4, NoCallIs DEF CallRec
<1>6. Begin(c, new)
    BY <1>1, <1>2, <1>4
<1>. QED BY <1>5, <1>6, BeginKeeps

LEMMA DisconnectKeeps ==
    ASSUME SocialsInv, NEW c \in Calls, NEW u \in Users, NEW p \in Platforms,
           NEW kind \in {"disconnect", "deauthorize", "deletion"}, Disconnect(c, u, p, kind)
    PROVE  SocialsInv'
<1>1. PICK new : new = [NoCall EXCEPT !.at = "remove", !.kind = kind, !.user = u, !.platform = p]
    OBVIOUS
<1>2. new \in CallRec /\ new.at = "remove" /\ new.user = u /\ new.platform = p
    BY <1>1, NoCallIs DEF CallRec
<1>3. Begin(c, new)
    BY <1>1 DEF Disconnect
<1>. QED BY <1>2, <1>3, BeginKeeps

\* What a request that is at work is.
LEMMA AtWork ==
    ASSUME SocialsInv, NEW c \in Calls, request[c].at # "idle"
    PROVE  /\ request[c] \in CallRec /\ request[c].user \in Users /\ request[c].platform \in Platforms
           /\ request[c].conn \in ConnRec /\ request[c].read \in [Platforms -> ConnRec]
           /\ request[c].alone \in BOOLEAN
           /\ request[c].at \in {"upsert", "restat"} => request[c].kind # "deletion"
           /\ Knows(request[c], conns) /\ conns[request[c].user] \in [Platforms -> ConnRec]
BY DEF SocialsInv, SocialsTypeOK, CallsStand, AloneKnows, CallRec

LEMMA GoOnIs ==
    ASSUME SocialsInv, NEW c \in Calls, request[c].at # "idle",
           NEW at \in {"read", "write", "erase"}, GoOn(c, at)
    PROVE  \E m \in CallRec : /\ request' = [request EXCEPT ![c] = m] /\ m.at = at /\ SameCall(c, m)
                              /\ m.user = request[c].user /\ m.platform = request[c].platform
                              /\ m.kind = request[c].kind /\ m.alone = request[c].alone
<1>1. PICK m : m = [request[c] EXCEPT !.at = at]
    OBVIOUS
<1>2. /\ m \in CallRec /\ m.at = at
      /\ m.user = request[c].user /\ m.platform = request[c].platform
      /\ m.kind = request[c].kind /\ m.alone = request[c].alone
    BY <1>1, AtWork DEF CallRec
<1>3. request' = [request EXCEPT ![c] = m]
    BY <1>1 DEF GoOn
<1>4. SameCall(c, m)
    BY <1>2 DEF SameCall
<1>. QED BY <1>2, <1>3, <1>4

LEMMA DoneIs ==
    ASSUME NEW c \in Calls, Done(c)
    PROVE  request' = [request EXCEPT ![c] = NoCall] /\ SameCall(c, NoCall) /\ \A cs : Knows(NoCall, cs)
BY NoCallIs DEF Done, SameCall, Knows

\* A row of one user's connections is written.
LEMMA OneSocialRow ==
    ASSUME SocialsInv, NEW u \in Users, NEW p \in Platforms, NEW v \in ConnRec,
           conns' = [conns EXCEPT ![u][p] = v]
    PROVE  /\ conns' \in [Users -> [Platforms -> ConnRec]] /\ conns'[u][p] = v
           /\ \A w \in Users \ {u} : conns'[w] = conns[w]
BY DEF SocialsInv, SocialsTypeOK

LEMMA ConnUpsertKeeps ==
    ASSUME SocialsInv, NEW c \in Calls, Upsert(c)
    PROVE  SocialsInv'
<1>1. request[c].at = "upsert"
    BY DEF Upsert
<1>2. /\ request[c].user \in Users /\ request[c].platform \in Platforms /\ request[c].conn \in ConnRec
      /\ request[c].kind # "deletion" /\ conns[request[c].user] \in [Platforms -> ConnRec]
    BY <1>1, AtWork
<1>3. PICK u \in Users, p \in Platforms, v \in ConnRec :
        /\ u = request[c].user /\ p = request[c].platform
        /\ v = IF conns[u][p] = NoConn THEN request[c].conn
               ELSE [request[c].conn EXCEPT !.row = conns[u][p].row]
  <2>1. PICK u \in Users, p \in Platforms : u = request[c].user /\ p = request[c].platform
      BY <1>2
  <2>2. PICK old : old = conns[u][p]
      OBVIOUS
  <2>3. old \in ConnRec
      BY <1>2, <2>1, <2>2
  <2>4. [request[c].conn EXCEPT !.row = old.row] \in ConnRec
      BY <1>2, <2>3 DEF ConnRec
  <2>. QED BY <1>2, <2>1, <2>2, <2>4
<1>4. UNCHANGED <<columns, tier, identity, minimum, synced, socialBounds>>
    BY DEF Upsert
<1>5. CASE conns' = [conns EXCEPT ![u][p] = v] /\ GoOn(c, "read")
  <2>1. PICK m \in CallRec :
          /\ request' = [request EXCEPT ![c] = m] /\ m.at = "read" /\ SameCall(c, m)
          /\ m.kind = request[c].kind
      BY <1>1, <1>5, GoOnIs
  <2>2. Knows(m, conns')
      BY <1>2, <2>1 DEF Knows
  <2>3. conns' \in [Users -> [Platforms -> ConnRec]] /\ \A w \in Users \ {u} : conns'[w] = conns[w]
      BY <1>5, OneSocialRow
  <2>. QED BY <1>1, <1>3, <1>4, <2>1, <2>2, <2>3, ConnsKeep
<1>6. CASE Done(c) /\ UNCHANGED conns
  <2>1. conns' \in [Users -> [Platforms -> ConnRec]] /\ \A w \in Users \ {u} : conns'[w] = conns[w]
      BY <1>6 DEF SocialsInv, SocialsTypeOK
  <2>. QED BY <1>1, <1>3, <1>4, <1>6, <2>1, NoCallIs, DoneIs, ConnsKeep
<1>. QED BY <1>3, <1>5, <1>6 DEF Upsert

LEMMA UpdateStatsKeeps ==
    ASSUME SocialsInv, NEW c \in Calls, UpdateStats(c)
    PROVE  SocialsInv'
<1>1. request[c].at = "restat" /\ GoOn(c, "read")
    BY DEF UpdateStats
<1>2. /\ request[c].user \in Users /\ request[c].platform \in Platforms /\ request[c].count \in Nat
      /\ request[c].kind # "deletion" /\ conns[request[c].user] \in [Platforms -> ConnRec]
    BY <1>1, AtWork DEF CallRec
<1>3. PICK u \in Users, p \in Platforms : u = request[c].user /\ p = request[c].platform
    BY <1>2
<1>4. PICK v : v = [conns[u][p] EXCEPT !.count = request[c].count]
    OBVIOUS
<1>5. conns[u][p] \in ConnRec
    BY <1>2, <1>3
<1>6. v \in ConnRec
    BY SMTT(30), <1>2, <1>4, <1>5 DEF ConnRec
<1>7. conns' = [conns EXCEPT ![u][p] = v] \/ conns' = conns
    BY <1>3, <1>4 DEF UpdateStats
<1>8. conns' \in [Users -> [Platforms -> ConnRec]] /\ \A w \in Users \ {u} : conns'[w] = conns[w]
  <2>1. CASE conns' = [conns EXCEPT ![u][p] = v]
      BY <1>6, <2>1, OneSocialRow
  <2>2. CASE conns' = conns
      BY <2>2 DEF SocialsInv, SocialsTypeOK
  <2>. QED BY <1>7, <2>1, <2>2
<1>9. PICK m \in CallRec :
        /\ request' = [request EXCEPT ![c] = m] /\ m.at = "read" /\ SameCall(c, m)
        /\ m.kind = request[c].kind
    BY <1>1, GoOnIs
<1>10. Knows(m, conns')
    BY <1>2, <1>9 DEF Knows
<1>11. UNCHANGED <<columns, tier, identity, minimum, synced, socialBounds>>
    BY DEF UpdateStats
<1>. QED BY <1>1, <1>3, <1>8, <1>9, <1>10, <1>11, ConnsKeep

LEMMA RemoveKeeps ==
    ASSUME SocialsInv, NEW c \in Calls, RemoveByUserAndPlatform(c)
    PROVE  SocialsInv'
<1>1. request[c].at = "remove" /\ GoOn(c, "read")
    BY DEF RemoveByUserAndPlatform
<1>2. PICK u \in Users, p \in Platforms : u = request[c].user /\ p = request[c].platform
    BY <1>1, AtWork
<1>3. conns' = [conns EXCEPT ![u][p] = NoConn]
    BY <1>2 DEF RemoveByUserAndPlatform
<1>4. /\ conns' \in [Users -> [Platforms -> ConnRec]] /\ conns'[u][p] = NoConn
      /\ \A w \in Users \ {u} : conns'[w] = conns[w]
    BY <1>3, NoConnIs, OneSocialRow
<1>5. PICK m \in CallRec :
        /\ request' = [request EXCEPT ![c] = m] /\ m.at = "read" /\ SameCall(c, m)
        /\ m.user = u /\ m.platform = p
    BY <1>1, <1>2, GoOnIs
<1>6. Knows(m, conns')
    BY <1>4, <1>5 DEF Knows
<1>7. UNCHANGED <<columns, tier, identity, minimum, synced, socialBounds>>
    BY DEF RemoveByUserAndPlatform
<1>. QED BY <1>1, <1>2, <1>4, <1>5, <1>6, <1>7, ConnsKeep

LEMMA ReadKeeps ==
    ASSUME SocialsInv, NEW c \in Calls, ReadConnections(c)
    PROVE  SocialsInv'
<1>1. request[c].at = "read" /\ conns' = conns
      /\ UNCHANGED <<columns, tier, identity, minimum, synced, socialBounds>>
    BY DEF ReadConnections
<1>2. PICK read : read = conns[request[c].user]
    OBVIOUS
<1>3. read \in [Platforms -> ConnRec] /\ request[c] \in CallRec /\ Knows(request[c], conns)
    BY <1>1, <1>2, AtWork
<1>4. PICK m : m = [request[c] EXCEPT !.at = "write", !.read = read]
    OBVIOUS
<1>5. /\ m \in CallRec /\ m.at = "write" /\ m.read = read
      /\ m.user = request[c].user /\ m.platform = request[c].platform
      /\ m.kind = request[c].kind /\ m.alone = request[c].alone
    BY <1>3, <1>4 DEF CallRec
<1>6. request' = [request EXCEPT ![c] = m]
    BY <1>2, <1>3, <1>4 DEF ReadConnections, CallRec
<1>7. SameCall(c, m) /\ Knows(m, conns')
    BY <1>1, <1>2, <1>3, <1>5 DEF SameCall, Knows
<1>8. conns' \in [Users -> [Platforms -> ConnRec]]
    BY <1>1 DEF SocialsInv, SocialsTypeOK
<1>. QED BY <1>1, <1>5, <1>6, <1>7, <1>8, ConnsKeep

\* A step of a request that leaves the connections as they are.
LEMMA CallKeeps ==
    ASSUME SocialsInv, NEW c \in Calls, NEW m \in CallRec, request[c].at # "idle",
           SameCall(c, m), request' = [request EXCEPT ![c] = m], conns' = conns, Knows(m, conns)
    PROVE  request' \in [Calls -> CallRec] /\ CallsStand' /\ AloneKnows'
<1>1. /\ request' \in [Calls -> CallRec] /\ request'[c] = m /\ CallsStand'
      /\ \A d \in Calls \ {c} : request'[d] = request[d]
    BY SocialCallEffect
<1>2. \A d \in Calls : Knows(request[d], conns)
    BY DEF SocialsInv, AloneKnows
<1>. QED BY <1>1, <1>2 DEF AloneKnows

LEMMA CutCallKeeps ==
    ASSUME SocialsInv, NEW c \in Calls, Cut(c)
    PROVE  SocialsInv'
<1>1. /\ request[c].at # "idle" /\ Done(c)
      /\ UNCHANGED <<conns, columns, tier, identity, minimum, synced, begun>>
    BY DEF Cut
<1>2. request' \in [Calls -> CallRec] /\ CallsStand' /\ AloneKnows'
    BY <1>1, DoneIs, NoCallIs, CallKeeps
<1>3. cuts' \in 0 .. MaxCuts
  <2>1. cuts \in 0 .. MaxCuts /\ cuts' = cuts + 1 /\ cuts < MaxCuts /\ MaxCuts \in Nat
      BY SocialsConstants DEF SocialsInv, SocialsTypeOK, Cut
  <2>. QED BY <2>1
<1>4. SocialsTypeOK'
    BY <1>1, <1>2, <1>3 DEF SocialsInv, SocialsTypeOK
<1>5. SyncedIsQuiet'
  <2>1. /\ \A d \in Calls \ {c} : request'[d] = request[d]
        /\ \A u : Under(u)' \subseteq Under(u)
        /\ request'[c] = NoCall
      BY <1>1, DoneIs, NoCallIs, SocialCallEffect
  <2>2. \A u : c \notin Under(u)'
      BY <2>1, NoCallIs DEF Under
  <2>. QED BY <1>1, <2>1, <2>2 DEF SocialsInv, SyncedIsQuiet, Under
<1>6. TierFollows'
    BY <1>1 DEF SocialsInv, TierFollows
<1>. QED BY <1>2, <1>4, <1>5, <1>6 DEF SocialsInv

LEMMA SyncKeeps ==
    ASSUME SocialsInv, NEW c \in Calls, SyncUserAndTier(c)
    PROVE  SocialsInv'
<1>1. SocialsTypeOK /\ CallsStand /\ AloneKnows /\ SyncedIsQuiet /\ TierFollows
    BY DEF SocialsInv
<1>2. request[c].at = "write" /\ UNCHANGED <<conns, identity, minimum, socialBounds>>
    BY DEF SyncUserAndTier
<1>3. /\ request[c].user \in Users /\ request[c].read \in [Platforms -> ConnRec]
      /\ request[c].alone \in BOOLEAN /\ Knows(request[c], conns)
    BY <1>2, AtWork
<1>4. PICK u \in Users : u = request[c].user
    BY <1>3
<1>5. PICK m \in CallRec :
        /\ request' = [request EXCEPT ![c] = m] /\ SameCall(c, m) /\ Knows(m, conns)
        /\ m.at = "idle" \/ (m.at = "erase" /\ m.alone = request[c].alone)
  <2>1. CASE request[c].kind = "deletion"
    <3>1. GoOn(c, "erase")
        BY <2>1 DEF SyncUserAndTier
    <3>2. PICK m \in CallRec :
            /\ request' = [request EXCEPT ![c] = m] /\ m.at = "erase" /\ SameCall(c, m)
            /\ m.user = request[c].user /\ m.platform = request[c].platform
            /\ m.kind = request[c].kind /\ m.alone = request[c].alone
        BY <1>2, <3>1, GoOnIs
    <3>3. Knows(m, conns)
        BY <1>2, <1>3, <2>1, <3>2 DEF Knows
    <3>. QED BY <3>2, <3>3
  <2>2. CASE request[c].kind # "deletion"
    <3>1. Done(c)
        BY <2>2 DEF SyncUserAndTier
    <3>. QED BY <3>1, DoneIs, NoCallIs
  <2>. QED BY <2>1, <2>2
<1>6. request' \in [Calls -> CallRec] /\ CallsStand' /\ AloneKnows'
    BY <1>2, <1>5, CallKeeps
<1>7. PICK followers : followers = [p \in Platforms |-> request[c].read[p].count]
    OBVIOUS
<1>8. followers \in [Platforms -> Nat]
    BY <1>3, <1>7 DEF ConnRec
<1>9. /\ columns' = [columns EXCEPT ![u] = followers]
      /\ tier' = [tier EXCEPT ![u] = ComputeTier(MaxFollowers(followers))]
      /\ synced' = IF request[c].alone THEN synced \cup {u} ELSE synced
    BY <1>4, <1>7 DEF SyncUserAndTier
<1>10. ComputeTier(MaxFollowers(followers)) \in 0 .. 4
  <2>1. ComputeTier(MaxFollowers(followers)) \in 1 .. 4
      BY <1>8, TierOnLadder
  <2>. QED BY <2>1
<1>11. SocialsTypeOK'
    BY <1>1, <1>2, <1>6, <1>8, <1>9, <1>10 DEF SocialsTypeOK, socialBounds
<1>12. c \in Under(u) /\ u \notin synced
    BY <1>1, <1>2, <1>4 DEF SyncedIsQuiet, Under
<1>13. SyncedIsQuiet'
  <2>. SUFFICES ASSUME NEW w \in synced', NEW d \in Under(w)'
                PROVE  request'[d].at = "erase" /\ request'[d].alone
      BY DEF SyncedIsQuiet
  <2>1. /\ \A o \in Calls \ {c} : request'[o] = request[o]
        /\ Under(w)' \subseteq Under(w) /\ request'[c] = m
      BY <1>2, <1>5, SocialCallEffect
  <2>2. d \in Calls /\ request'[d].at # "idle"
      BY DEF Under
  <2>3. CASE w = u
    <3>1. request[c].alone
        BY <1>9, <1>12, <2>3
    <3>2. Under(u) = {c}
        BY <1>1, <1>2, <1>4, <3>1 DEF CallsStand
    <3>. QED BY <1>5, <2>1, <2>2, <2>3, <3>1, <3>2
  <2>4. CASE w # u
    <3>1. w \in synced
        BY <1>9, <2>4
    <3>2. d # c /\ d \in Under(w)
        BY <1>4, <2>1, <2>4 DEF Under
    <3>. QED BY <1>1, <2>1, <2>2, <3>1, <3>2 DEF SyncedIsQuiet
  <2>. QED BY <2>3, <2>4
<1>14. TierFollows'
  <2>. SUFFICES ASSUME NEW w \in synced'
                PROVE  /\ \A p \in Platforms : columns'[w][p] = conns'[w][p].count
                       /\ tier'[w] = ComputeTier(MaxFollowers(columns'[w]))
      BY DEF TierFollows
  <2>1. CASE w = u
    <3>1. request[c].read = conns[u]
        BY <1>2, <1>3, <1>4, <1>9, <1>12, <2>1 DEF Knows
    <3>2. columns'[u] = followers /\ tier'[u] = ComputeTier(MaxFollowers(followers))
        BY <1>1, <1>9 DEF SocialsTypeOK
    <3>. QED BY <1>2, <1>7, <2>1, <3>1, <3>2
  <2>2. CASE w # u
    <3>1. w \in synced /\ w \in Users
        BY <1>1, <1>9, <2>2 DEF SocialsTypeOK
    <3>2. columns'[w] = columns[w] /\ tier'[w] = tier[w]
        BY <1>1, <1>9, <2>2, <3>1 DEF SocialsTypeOK
    <3>. QED BY <1>1, <1>2, <3>1, <3>2 DEF TierFollows
  <2>. QED BY <2>1, <2>2
<1>. QED BY <1>6, <1>11, <1>13, <1>14 DEF SocialsInv

LEMMA EraseKeeps ==
    ASSUME SocialsInv, NEW c \in Calls, EraseLogin(c)
    PROVE  SocialsInv'
<1>1. SocialsTypeOK /\ CallsStand /\ AloneKnows /\ SyncedIsQuiet /\ TierFollows
    BY DEF SocialsInv
<1>2. /\ request[c].at = "erase" /\ Done(c) /\ UNCHANGED <<conns, tier, minimum, synced, socialBounds>>
    BY DEF EraseLogin
<1>3. PICK u \in Users, p \in Platforms : u = request[c].user /\ p = request[c].platform
    BY <1>2, AtWork
<1>4. /\ identity' = [identity EXCEPT ![u] = NoHandle]
      /\ columns' = [columns EXCEPT ![u][p] = 0]
    BY <1>3 DEF EraseLogin
<1>5. request' \in [Calls -> CallRec] /\ CallsStand' /\ AloneKnows'
    BY <1>2, DoneIs, NoCallIs, CallKeeps
<1>6. SocialsTypeOK'
    BY <1>1, <1>2, <1>4, <1>5 DEF SocialsTypeOK, socialBounds
<1>7. /\ \A d \in Calls \ {c} : request'[d] = request[d]
      /\ \A w : Under(w)' \subseteq Under(w)
      /\ request'[c] = NoCall
    BY <1>2, DoneIs, NoCallIs, SocialCallEffect
<1>8. \A w : c \notin Under(w)'
    BY <1>7, NoCallIs DEF Under
<1>9. SyncedIsQuiet'
    BY <1>1, <1>2, <1>7, <1>8 DEF SyncedIsQuiet, Under
<1>10. ASSUME u \in synced PROVE columns' = columns
  <2>1. c \in Under(u)
      BY <1>2, <1>3 DEF Under
  <2>2. request[c].alone
      BY <1>1, <1>10, <2>1 DEF SyncedIsQuiet
  <2>3. conns[u][p] = NoConn
      BY <1>1, <1>2, <1>3, <2>2 DEF AloneKnows, Knows
  <2>4. columns[u][p] = 0
      BY <1>1, <1>10, <2>3, NoConnIs DEF TierFollows
  <2>. QED BY <1>1, <1>4, <2>4 DEF SocialsTypeOK
<1>11. \A w \in synced : columns'[w] = columns[w]
  <2>1. \A w \in Users \ {u} : columns'[w] = columns[w]
      BY <1>1, <1>4 DEF SocialsTypeOK
  <2>. QED BY <1>1, <1>10, <2>1 DEF SocialsTypeOK
<1>12. TierFollows'
    BY <1>1, <1>2, <1>11 DEF TierFollows
<1>. QED BY <1>5, <1>6, <1>9, <1>12 DEF SocialsInv

LEMMA UpdateSocialsKeeps ==
    ASSUME SocialsInv, NEW u \in Users, UpdateSocials(u)
    PROVE  SocialsInv'
<1>1. SocialsTypeOK /\ CallsStand /\ AloneKnows /\ SyncedIsQuiet /\ TierFollows
    BY DEF SocialsInv
<1>2. PICK p \in SelfReported, n \in Counts \cup {0} : WriteColumns(u, columns[u], p, n)
    BY DEF UpdateSocials
<1>3. p \in Platforms /\ n \in Nat /\ SelfReported \in SUBSET Platforms
    BY <1>2, SocialsConstants DEF SelfReported
<1>4. /\ columns' = [columns EXCEPT ![u][p] = n] /\ synced' = synced \ {u}
      /\ UNCHANGED <<conns, identity, minimum, request, cuts>>
    BY <1>2 DEF WriteColumns
<1>5. columns[u] \in [Platforms -> Nat]
    BY <1>1 DEF SocialsTypeOK
<1>6. PICK written : written = [columns[u] EXCEPT ![p] = n]
    OBVIOUS
<1>7. PICK f : f = [q \in SelfReported |-> written[q]]
    OBVIOUS
<1>8. f \in [SelfReported -> Nat]
    BY <1>3, <1>5, <1>6, <1>7
<1>9. tier' = [tier EXCEPT ![u] = ComputeTier(MaxFollowers(f))]
    BY <1>2, <1>6, <1>7 DEF WriteColumns
<1>10. ComputeTier(MaxFollowers(f)) \in 0 .. 4
  <2>1. ComputeTier(MaxFollowers(f)) \in 1 .. 4
      BY <1>3, <1>8, TierOnLadder
  <2>. QED BY <2>1
<1>11. begun' \in 0 .. MaxRequests
  <2>1. begun \in 0 .. MaxRequests /\ begun' = begun + 1 /\ begun < MaxRequests /\ MaxRequests \in Nat
      BY <1>1, <1>2, SocialsConstants DEF WriteColumns, SocialsTypeOK
  <2>. QED BY <2>1
<1>12. SocialsTypeOK'
    BY <1>1, <1>3, <1>4, <1>9, <1>10, <1>11 DEF SocialsTypeOK
<1>13. CallsStand' /\ AloneKnows' /\ SyncedIsQuiet'
    BY <1>1, <1>4 DEF CallsStand, AloneKnows, SyncedIsQuiet, Under
<1>14. \A w \in synced' : columns'[w] = columns[w] /\ tier'[w] = tier[w] /\ w \in synced
    BY <1>1, <1>4, <1>9 DEF SocialsTypeOK
<1>15. TierFollows'
    BY <1>1, <1>4, <1>14 DEF TierFollows
<1>. QED BY <1>12, <1>13, <1>15 DEF SocialsInv

LEMMA SocialsInit == InitSocials => SocialsInv
<1>. SUFFICES ASSUME InitSocials PROVE SocialsInv
    OBVIOUS
<1>1. identity \in [Users -> Handles \cup {NoHandle}]
    BY DEF InitSocials
<1>2. SocialsTypeOK
    BY <1>1, NoConnIs, NoCallIs, SocialsConstants DEF InitSocials, SocialsTypeOK
<1>3. CallsStand /\ AloneKnows
    BY NoCallIs DEF InitSocials, CallsStand, AloneKnows, Knows
<1>4. SyncedIsQuiet /\ TierFollows
    BY DEF InitSocials, SyncedIsQuiet, TierFollows
<1>. QED BY <1>2, <1>3, <1>4 DEF SocialsInv

LEMMA SocialsNext == SocialsInv /\ [NextSocials]_socialVars => SocialsInv'
<1>. SUFFICES ASSUME SocialsInv, [NextSocials]_socialVars PROVE SocialsInv'
    OBVIOUS
<1>1. ASSUME NEW c \in Calls, NEW u \in Users, NEW p \in Platforms, Connect(c, u, p)
      PROVE SocialsInv'
    BY <1>1, ConnectKeeps
<1>2. ASSUME NEW c \in Calls, NEW u \in Users, NEW p \in Platforms, Refresh(c, u, p)
      PROVE SocialsInv'
    BY <1>2, RefreshKeeps
<1>3. ASSUME NEW c \in Calls, NEW u \in Users, NEW p \in Platforms, Disconnect(c, u, p, "disconnect")
      PROVE SocialsInv'
    BY <1>3, DisconnectKeeps
<1>4. \A p \in Platforms, h \in Handles : FindUserOf(p, h) \subseteq Users
    BY DEF FindUserOf, Owners
<1>5. ASSUME NEW c \in Calls, NEW p \in Platforms \cap Meta, HandleDeauthorize(c, p)
      PROVE SocialsInv'
    BY <1>4, <1>5, DisconnectKeeps DEF HandleDeauthorize
<1>6. ASSUME NEW c \in Calls, NEW p \in Platforms \cap Meta, HandleDataDeletion(c, p)
      PROVE SocialsInv'
    BY <1>4, <1>6, DisconnectKeeps DEF HandleDataDeletion
<1>7. ASSUME NEW c \in Calls,
             Upsert(c) \/ UpdateStats(c) \/ RemoveByUserAndPlatform(c)
             \/ ReadConnections(c) \/ SyncUserAndTier(c) \/ EraseLogin(c) \/ Cut(c)
      PROVE SocialsInv'
    BY <1>7, ConnUpsertKeeps, UpdateStatsKeeps, RemoveKeeps, ReadKeeps, SyncKeeps, EraseKeeps,
       CutCallKeeps
<1>8. ASSUME NEW u \in Users, UpdateSocials(u) PROVE SocialsInv'
    BY <1>8, UpdateSocialsKeeps
<1>9. CASE UNCHANGED socialVars
    BY <1>9 DEF socialVars, socialBounds, SocialsInv, SocialsTypeOK, CallsStand, AloneKnows,
                SyncedIsQuiet, TierFollows, Under
<1>. QED BY <1>1, <1>2, <1>3, <1>5, <1>6, <1>7, <1>8, <1>9 DEF NextSocials

\* Connections, columns, tiers and the requests on them have their types: a tier is one of
\* the ladder's four or none (social-platforms.ts), and a request is about one user's account
\* at one platform.
THEOREM SocialsTypeCorrect == SpecSocials => []SocialsTypeOK
<1>1. SocialsInv => SocialsTypeOK
    BY DEF SocialsInv
<1>. QED BY <1>1, SocialsInit, SocialsNext, PTL DEF SpecSocials

\* The columns of a user repeat the connections, and the tier follows from them, from the
\* write of a request that no other of the user overlapped until the next one begins, for any
\* number of users, requests, Meta's callbacks and processes killed between two statements.
THEOREM TierIsOfConnections == SpecSocials => []TierFollows
<1>1. SocialsInv => TierFollows
    BY DEF SocialsInv
<1>. QED BY <1>1, SocialsInit, SocialsNext, PTL DEF SpecSocials

-----------------------------------------------------------------------------
(* Profiles.                                                               *)

Reviews == [campaign : Reviewed, creator : People, stars : Stars]
Averages == {Average(rs) : rs \in SUBSET Reviews}
Totals == {Cardinality(rs) : rs \in SUBSET Reviews}

PersonRec == [username : UserNames \cup People, name : FullNames, code : Codes \cup {"none"},
              number : Numbers \cup {"none"}, holder : Holders \cup {"none"},
              avg : Averages, total : Totals]
WithUsername == [username : UserNames] \cup [username : UserNames, name : FullNames]
NameChange == WithUsername \cup [name : FullNames]
VerifiedChange == [code : Codes, number : Numbers, holder : Holders]
BlankChange == [code : Codes] \cup [code : Codes, holder : Holders]
PayoutChange == VerifiedChange \cup BlankChange
EditRec == [at : {"idle", "read", "save", "insert", "rate", "commit"},
            kind : {"none", "name", "payout", "review"}, user : People \cup {"none"},
            changes : {<<>>} \cup NameChange \cup PayoutChange, read : {<<>>} \cup PersonRec,
            name : FullNames \cup {"none"}, campaign : Reviewed \cup {"none"}, stars : Stars \cup {0}, avg : Averages,
            total : Totals, alone : BOOLEAN]

ProfilesTypeOK ==
    /\ person \in [People -> PersonRec] /\ reviews \subseteq Reviews
    /\ edit \in [Edits -> EditRec]
    /\ mixed \subseteq People /\ renamed \subseteq People /\ outpaced \subseteq People /\ raced \subseteq UserNames
    /\ edits \in 0 .. MaxEdits

\* What a request m asks for, and where it may be.
EditStands(m) ==
    \/ m = NoEdit
    \/ /\ m.kind = "name" /\ m.at \in {"read", "save"} /\ m.user \in People
       /\ m.changes \in NameChange /\ (m.at = "save" => m.read \in PersonRec)
    \/ /\ m.kind = "payout" /\ m.at \in {"read", "save"} /\ m.user \in People
       /\ m.changes \in PayoutChange /\ (m.at = "save" => m.read \in PersonRec)
       /\ m.name \in FullNames
       /\ \/ m.changes \in BlankChange
          \/ /\ m.changes \in VerifiedChange
             /\ m.changes.holder = HolderOf[m.changes.code, m.changes.number]
             /\ m.changes.holder \in Containing[m.name]
    \/ /\ m.kind = "review" /\ m.at \in {"insert", "rate", "commit"} /\ m.user \in People
       /\ m.campaign \in Reviewed /\ m.stars \in Stars

Peers(kind, u) == {d \in Edits : edit[d].kind = kind /\ edit[d].user = u}

\* A request that is alone has no other of its kind beside it.
EditsStand ==
    \A c \in Edits :
        /\ EditStands(edit[c])
        /\ edit[c] # NoEdit /\ edit[c].alone => Peers(edit[c].kind, edit[c].user) = {c}

\* The account in the row is the one that a payout's request, being alone, has read.
PayoutRead ==
    \A c \in Edits : edit[c].kind = "payout" /\ edit[c].at = "save" /\ edit[c].alone =>
        LET p == person[edit[c].user]
        IN  /\ edit[c].read.code = p.code /\ edit[c].read.number = p.number
            /\ edit[c].read.holder = p.holder

\* The rating that a review's request, being alone, is about to commit.
RatingRead ==
    \A c \in Edits : edit[c].at = "commit" /\ edit[c].alone =>
        /\ edit[c].avg = Average(Of(edit[c].user) \cup {Mine(c)})
        /\ edit[c].total = Cardinality(Of(edit[c].user) \cup {Mine(c)})

\* A name that was checked and asked for by one user is nobody else's, nor about to be.
NamesRead ==
    \A n : n \notin raced =>
        \A c \in Asking(n) : /\ Named(n) \subseteq {edit[c].user}
                             /\ \A d \in Asking(n) : edit[d].user = edit[c].user

\* A request that has taken a step: it has ended, or asks for the same as before.
SameEdit(c, m) ==
    \/ m = NoEdit
    \/ /\ m.kind = edit[c].kind /\ m.user = edit[c].user /\ m.changes = edit[c].changes
       /\ m.name = edit[c].name /\ m.campaign = edit[c].campaign /\ m.stars = edit[c].stars
       /\ m.alone = edit[c].alone

ProfilesInv == ProfilesTypeOK /\ EditsStand /\ PayoutRead /\ RatingRead /\ NamesRead
               /\ ChecksHold /\ RatingFollows

LEMMA NothingRated == Average({}) = 0 /\ Cardinality({}) = 0
BY FS_EmptySet DEF Average

\* What the columns are that a request asks to change.
LEMMA ChangeIs ==
    /\ \A w \in NameChange :
         /\ DOMAIN w \subseteq {"username", "name"}
         /\ "username" \in DOMAIN w => w["username"] \in UserNames
         /\ "name" \in DOMAIN w => w["name"] \in FullNames
    /\ \A w \in VerifiedChange :
         /\ DOMAIN w = {"code", "number", "holder"} /\ w.code \in Codes /\ w.number \in Numbers
         /\ w.holder \in Holders
    /\ \A w \in BlankChange :
         /\ DOMAIN w \subseteq {"code", "holder"} /\ "code" \in DOMAIN w /\ w["code"] \in Codes
         /\ "holder" \in DOMAIN w => w["holder"] \in Holders
BY DEF NameChange, WithUsername, VerifiedChange, BlankChange

LEMMA NoEditIs ==
    /\ NoEdit \in EditRec /\ EditStands(NoEdit) /\ NoEdit.at = "idle" /\ NoEdit.kind = "none"
    /\ 0 \in Averages /\ 0 \in Totals
<1>1. {} \in SUBSET Reviews
    OBVIOUS
<1>2. 0 \in Averages /\ 0 \in Totals
    BY <1>1, NothingRated DEF Averages, Totals
<1>. QED BY <1>2 DEF NoEdit, EditRec, EditStands

\* What the parts of the invariant say of one request.
LEMMA EditIs ==
    ASSUME ProfilesInv, NEW c \in Edits
    PROVE  /\ edit[c] \in EditRec /\ EditStands(edit[c])
           /\ edit[c].alone \in BOOLEAN /\ edit[c].user \in People \cup {"none"}
           /\ edit[c].at = "idle" \/ edit[c].kind = "none" => edit[c] = NoEdit
           /\ edit[c] # NoEdit => edit[c].user \in People /\ edit[c].kind # "none" /\ edit[c].at # "idle"
           /\ edit[c] # NoEdit /\ edit[c].alone => Peers(edit[c].kind, edit[c].user) = {c}
BY DEF ProfilesInv, ProfilesTypeOK, EditsStand, EditStands, EditRec

\* A step of a request leaves the others where they are.
LEMMA EditStep ==
    ASSUME ProfilesInv, NEW c \in Edits, NEW m \in EditRec, EditStands(m), edit[c] # NoEdit,
           SameEdit(c, m), edit' = [edit EXCEPT ![c] = m]
    PROVE  /\ edit' \in [Edits -> EditRec] /\ edit'[c] = m
           /\ \A d \in Edits \ {c} : edit'[d] = edit[d]
           /\ EditsStand'
<1>1. edit \in [Edits -> EditRec] /\ EditsStand
    BY DEF ProfilesInv, ProfilesTypeOK
<1>2. /\ edit' \in [Edits -> EditRec] /\ edit'[c] = m
      /\ \A d \in Edits \ {c} : edit'[d] = edit[d]
    BY <1>1
<1>3. \A d \in Edits : EditStands(edit[d])'
  <2>1. ASSUME NEW d \in Edits PROVE EditStands(edit'[d])
      BY <1>1, <1>2 DEF EditsStand
  <2>. QED BY <2>1 DEF EditStands
<1>4. ASSUME NEW k, NEW u, k # "none" PROVE Peers(k, u)' \subseteq Peers(k, u)
    BY <1>2, <1>4, NoEditIs DEF Peers, SameEdit
<1>5. ASSUME NEW d \in Edits, edit'[d] # NoEdit, edit'[d].alone
      PROVE  Peers(edit[d].kind, edit[d].user)' = {d}
  <2>1. /\ edit[d] # NoEdit /\ edit'[d].kind = edit[d].kind /\ edit'[d].user = edit[d].user
        /\ edit'[d].alone = edit[d].alone
      BY <1>2, <1>5 DEF SameEdit
  <2>2. PICK k, u : k = edit[d].kind /\ u = edit[d].user
      OBVIOUS
  <2>3. Peers(k, u) = {d} /\ k # "none"
      BY <1>1, <1>5, <2>1, <2>2, EditIs DEF EditsStand
  <2>4. Peers(k, u)' \subseteq {d}
      BY <1>4, <2>3
  <2>5. d \in Peers(k, u)'
      BY <2>1, <2>2 DEF Peers
  <2>6. Peers(edit[d].kind, edit[d].user)' = Peers(k, u)'
      BY <2>1, <2>2 DEF Peers
  <2>. QED BY <2>4, <2>5, <2>6
<1>6. EditsStand'
    BY <1>3, <1>5 DEF EditsStand
<1>. QED BY <1>2, <1>6

\* While request c is at work, no other of its kind that is alone is about its user.
LEMMA PeersElsewhere ==
    ASSUME ProfilesInv, NEW c \in Edits, edit[c] # NoEdit, NEW d \in Edits \ {c},
           edit[d] # NoEdit, edit[d].alone, edit[d].kind = edit[c].kind
    PROVE  edit[d].user # edit[c].user
BY EditIs DEF Peers

\* Names that no step gives anew stay checked.
LEMMA NamesKeep ==
    ASSUME ProfilesInv, NEW c \in Edits, NEW m \in EditRec, SameEdit(c, m),
           edit' = [edit EXCEPT ![c] = m], raced' = raced,
           \A n : Named(n)' \subseteq Named(n) \cup (IF c \in Asking(n) THEN {edit[c].user} ELSE {})
    PROVE  NamesRead'
<1>1. NamesRead /\ edit \in [Edits -> EditRec]
    BY DEF ProfilesInv, ProfilesTypeOK
<1>2. /\ edit'[c] = m /\ \A d \in Edits \ {c} : edit'[d] = edit[d]
    BY <1>1
<1>3. ASSUME NEW n, NEW d \in Asking(n)' PROVE d \in Asking(n) /\ edit'[d].user = edit[d].user
    BY <1>2, NoEditIs DEF SameEdit, Asking
<1>4. ASSUME NEW n, n \notin raced', NEW d \in Asking(n)'
      PROVE  /\ Named(n)' \subseteq {edit'[d].user}
             /\ \A o \in Asking(n)' : edit'[o].user = edit'[d].user
    BY <1>1, <1>3, <1>4 DEF NamesRead
<1>. QED BY <1>4 DEF NamesRead

\* A request that begins, with the requests of its kind beside it.
LEMMA StartKeeps ==
    ASSUME ProfilesInv, NEW c \in Edits, NEW new \in EditRec, Start(c, new), EditStands(new),
           new # NoEdit, new.at \in {"read", "insert"}, UNCHANGED <<person, reviews>>
    PROVE  /\ edit' \in [Edits -> EditRec] /\ edits' \in 0 .. MaxEdits
           /\ EditsStand' /\ PayoutRead' /\ RatingRead'
           /\ edit'[c].kind = new.kind /\ edit'[c].user = new.user /\ edit'[c].changes = new.changes
           /\ edit[c] = NoEdit
           /\ \A d \in Edits \ {c} : /\ edit'[d].kind = edit[d].kind /\ edit'[d].user = edit[d].user
                                     /\ edit'[d].changes = edit[d].changes
<1>1. /\ edit \in [Edits -> EditRec] /\ EditsStand /\ PayoutRead /\ RatingRead
    BY DEF ProfilesInv, ProfilesTypeOK
<1>2. new.kind # "none" /\ new.user \in People
    BY NoEditIs DEF EditStands
<1>3. PICK k \in {"name", "payout", "review"}, u \in People : k = new.kind /\ u = new.user
    BY <1>2 DEF EditRec
<1>4. Beside(new) = Peers(k, u)
    BY <1>3 DEF Beside, Peers
<1>5. edit[c] = NoEdit
    BY EditIs DEF Start
<1>6. c \notin Peers(k, u)
    BY <1>5, NoEditIs DEF Peers
<1>7. PICK a \in BOOLEAN : a = (Peers(k, u) = {})
    OBVIOUS
<1>8. PICK r : r = [new EXCEPT !.alone = a]
    OBVIOUS
<1>9. /\ r \in EditRec /\ r.kind = k /\ r.user = u /\ r.alone = a /\ r.at = new.at
      /\ r.changes = new.changes /\ r.campaign = new.campaign /\ r.stars = new.stars
      /\ r.read = new.read /\ r.name = new.name
    BY ZenonT(40), <1>3, <1>7, <1>8 DEF EditRec
<1>10. edit' = [d \in Edits |->
         IF d = c THEN r
         ELSE IF d \in Peers(k, u) THEN [edit[d] EXCEPT !.alone = FALSE] ELSE edit[d]]
    BY <1>4, <1>7, <1>8 DEF Start
<1>11. ASSUME NEW d \in Edits \ {c}
       PROVE  /\ edit'[d] \in EditRec /\ edit'[d].kind = edit[d].kind /\ edit'[d].user = edit[d].user
              /\ edit'[d].changes = edit[d].changes /\ edit'[d].at = edit[d].at
              /\ edit'[d].read = edit[d].read /\ edit'[d].campaign = edit[d].campaign
              /\ edit'[d].stars = edit[d].stars /\ edit'[d].name = edit[d].name
              /\ d \in Peers(k, u) => ~edit'[d].alone /\ edit[d] # NoEdit
              /\ d \notin Peers(k, u) => edit'[d] = edit[d]
  <2>1. edit[d] \in EditRec
      BY <1>1
  <2>2. CASE d \in Peers(k, u)
    <3>1. edit'[d] = [edit[d] EXCEPT !.alone = FALSE]
        BY <1>10, <2>2
    <3>2. edit[d] # NoEdit
        BY <2>2, NoEditIs DEF Peers
    <3>. QED BY <2>1, <2>2, <3>1, <3>2 DEF EditRec
  <2>3. CASE d \notin Peers(k, u)
      BY <1>10, <2>1, <2>3
  <2>. QED BY <2>2, <2>3
<1>12. edit'[c] = r
    BY <1>10
<1>13. edit' \in [Edits -> EditRec]
    BY <1>9, <1>10, <1>11
<1>14. edits' \in 0 .. MaxEdits
  <2>1. edits \in 0 .. MaxEdits /\ edits' = edits + 1 /\ edits < MaxEdits /\ MaxEdits \in Nat
      BY ProfilesConstants DEF ProfilesInv, ProfilesTypeOK, Start
  <2>. QED BY <2>1
<1>15. \A d \in Edits : EditStands(edit'[d])
  <2>1. EditStands(r)
      BY <1>3, <1>9, NoEditIs DEF EditStands
  <2>2. ASSUME NEW d \in Edits \ {c} PROVE EditStands(edit'[d])
    <3>1. EditStands(edit[d])
        BY <1>1 DEF EditsStand
    <3>2. CASE d \in Peers(k, u)
        BY <1>11, <3>1, <3>2 DEF EditStands
    <3>3. CASE d \notin Peers(k, u)
        BY <1>11, <3>1, <3>3
    <3>. QED BY <3>2, <3>3
  <2>. QED BY <1>12, <2>1, <2>2
<1>16. ASSUME NEW d \in Edits, edit'[d] # NoEdit, edit'[d].alone
       PROVE  Peers(edit[d].kind, edit[d].user)' = {d}
  <2>1. CASE d = c
    <3>1. Peers(edit[d].kind, edit[d].user)' = {o \in Edits : edit'[o].kind = k /\ edit'[o].user = u}
        BY <1>9, <1>12, <2>1 DEF Peers
    <3>2. Peers(k, u) = {}
        BY <1>7, <1>9, <1>12, <1>16, <2>1
    <3>. QED BY <1>9, <1>11, <1>12, <2>1, <3>1, <3>2 DEF Peers
  <2>2. CASE d # c
    <3>1. d \notin Peers(k, u) /\ edit'[d] = edit[d]
        BY <1>11, <1>16, <2>2
    <3>2. Peers(edit[d].kind, edit[d].user) = {d}
        BY <1>1, <1>16, <3>1 DEF EditsStand
    <3>3. edit[d].kind # k \/ edit[d].user # u
        BY <3>1 DEF Peers
    <3>4. Peers(edit[d].kind, edit[d].user)' =
            {o \in Edits : edit'[o].kind = edit[d].kind /\ edit'[o].user = edit[d].user}
        BY <3>1 DEF Peers
    <3>5. Peers(edit[d].kind, edit[d].user)' =
            {o \in Edits : edit[o].kind = edit[d].kind /\ edit[o].user = edit[d].user}
      <4>1. edit[d].kind # "none"
          BY <1>16, <3>1, EditIs
      <4>. QED BY <1>5, <1>9, <1>11, <1>12, <3>3, <3>4, <4>1, NoEditIs
    <3>. QED BY <3>2, <3>5 DEF Peers
  <2>. QED BY <2>1, <2>2
<1>17. EditsStand'
    BY <1>15, <1>16 DEF EditsStand, EditStands
<1>18. ASSUME NEW d \in Edits, edit'[d].at \in {"save", "commit"}, edit'[d].alone
       PROVE  d # c /\ edit'[d] = edit[d]
    BY <1>9, <1>11, <1>12, <1>18
<1>19. PayoutRead'
    BY <1>1, <1>18 DEF PayoutRead
<1>20. RatingRead'
    BY <1>1, <1>18 DEF RatingRead, Of, Mine
<1>. QED BY <1>3, <1>5, <1>9, <1>11, <1>12, <1>13, <1>14, <1>17, <1>19, <1>20

\* Rows, reviews and their histories are as they were.
LEMMA PeopleStay ==
    ASSUME ProfilesInv, UNCHANGED <<person, reviews, mixed, renamed, outpaced>>, raced \subseteq raced',
           raced' \subseteq UserNames
    PROVE  ChecksHold' /\ RatingFollows'
BY DEF ProfilesInv, ChecksHold, RatingFollows, Of

\* Whoever asks for a name is known to ask for it alone, or the name is raced.
LEMMA NameStarts ==
    ASSUME ProfilesInv, NEW c \in Edits, NEW u \in People, NEW w \in NameChange, Rename(c, u, w),
           raced \subseteq raced', raced' \subseteq UserNames,
           "username" \in DOMAIN w =>
             w.username \in raced' \/ (/\ Named(w.username) \subseteq {u}
                                     /\ \A d \in Asking(w.username) : edit[d].user = u)
    PROVE  ProfilesInv'
<1>1. PICK new : new = [NoEdit EXCEPT !.at = "read", !.kind = "name", !.user = u, !.changes = w]
    OBVIOUS
<1>2. /\ new \in EditRec /\ new.at = "read" /\ new.kind = "name" /\ new.user = u /\ new.changes = w
    BY <1>1, NoEditIs DEF EditRec
<1>3. EditStands(new) /\ new # NoEdit
    BY <1>2, NoEditIs DEF EditStands
<1>4. Start(c, new) /\ UNCHANGED <<person, reviews, mixed, renamed, outpaced>>
    BY <1>1 DEF Rename
<1>5. /\ edit' \in [Edits -> EditRec] /\ edits' \in 0 .. MaxEdits
      /\ EditsStand' /\ PayoutRead' /\ RatingRead'
      /\ edit'[c].kind = "name" /\ edit'[c].user = u /\ edit'[c].changes = w
      /\ edit[c] = NoEdit
      /\ \A d \in Edits \ {c} : /\ edit'[d].kind = edit[d].kind /\ edit'[d].user = edit[d].user
                                /\ edit'[d].changes = edit[d].changes
    BY <1>2, <1>3, <1>4, StartKeeps
<1>6. ProfilesTypeOK'
    BY <1>4, <1>5 DEF ProfilesInv, ProfilesTypeOK
<1>7. ASSUME NEW n, n \notin raced', NEW d \in Asking(n)'
      PROVE  /\ Named(n)' \subseteq {edit'[d].user}
             /\ \A o \in Asking(n)' : edit'[o].user = edit'[d].user
  <2>1. n \notin raced /\ Named(n)' = Named(n)
      BY <1>4, <1>7 DEF Named
  <2>2. ASSUME NEW o \in Asking(n)'
        PROVE  (o = c /\ "username" \in DOMAIN w /\ w.username = n /\ edit'[o].user = u)
               \/ (o \in Asking(n) /\ edit'[o].user = edit[o].user)
      BY <1>5 DEF Asking
  <2>3. CASE "username" \in DOMAIN w /\ w.username = n
    <3>1. Named(n) \subseteq {u} /\ \A o \in Asking(n) : edit[o].user = u
        BY <1>7, <2>3
    <3>. QED BY <2>1, <2>2, <3>1
  <2>4. CASE ~("username" \in DOMAIN w /\ w.username = n)
      BY <2>1, <2>2, <2>4 DEF ProfilesInv, NamesRead
  <2>. QED BY <2>3, <2>4
<1>8. NamesRead'
    BY <1>7 DEF NamesRead
<1>9. ChecksHold' /\ RatingFollows'
    BY <1>4, PeopleStay
<1>. QED BY <1>5, <1>6, <1>8, <1>9 DEF ProfilesInv

LEMMA InfoKeeps ==
    ASSUME ProfilesInv, NEW c \in Edits, NEW u \in People, UpdatePersonalInfo(c, u)
    PROVE  ProfilesInv'
<1>1. raced \subseteq UserNames
    BY DEF ProfilesInv, ProfilesTypeOK
<1>2. ASSUME NEW name \in FullNames, Rename(c, u, [name |-> name]), raced' = raced
      PROVE  ProfilesInv'
  <2>1. PICK w : w = [name |-> name]
      OBVIOUS
  <2>2. w \in NameChange /\ "username" \notin DOMAIN w
      BY <2>1 DEF NameChange
  <2>. QED BY <1>1, <1>2, <2>1, <2>2, NameStarts
<1>3. ASSUME NEW n \in UserNames, NEW name \in FullNames, Named(n) = {},
             Rename(c, u, [username |-> n]) \/ Rename(c, u, [username |-> n, name |-> name]),
             raced' = IF \E d \in Asking(n) : edit[d].user # u THEN raced \cup {n} ELSE raced
      PROVE  ProfilesInv'
  <2>1. PICK w \in WithUsername : w.username = n /\ Rename(c, u, w)
      BY <1>3 DEF WithUsername
  <2>2. w \in NameChange
      BY DEF NameChange
  <2>3. /\ raced \subseteq raced' /\ raced' \subseteq UserNames
        /\ n \in raced' \/ \A d \in Asking(n) : edit[d].user = u
      BY <1>1, <1>3
  <2>. QED BY <1>3, <2>1, <2>2, <2>3, NameStarts
<1>. QED BY <1>2, <1>3 DEF UpdatePersonalInfo

LEMMA BuildKeeps ==
    ASSUME ProfilesInv, NEW c \in Edits, NEW u \in People, BuildProfile(c, u)
    PROVE  ProfilesInv'
<1>1. PICK n \in UserNames : Rename(c, u, [username |-> n]) /\ raced' = raced \cup {n}
    BY DEF BuildProfile
<1>2. PICK w : w = [username |-> n]
    OBVIOUS
<1>3. w \in NameChange /\ w.username = n
    BY <1>2 DEF NameChange, WithUsername
<1>4. raced \subseteq UserNames
    BY DEF ProfilesInv, ProfilesTypeOK
<1>. QED BY <1>1, <1>2, <1>3, <1>4, NameStarts

\* A request of another kind begins.
LEMMA OtherStarts ==
    ASSUME ProfilesInv, NEW c \in Edits, NEW new \in EditRec, Start(c, new), EditStands(new),
           new # NoEdit, new.at \in {"read", "insert"}, new.kind # "name",
           UNCHANGED <<person, reviews, mixed, renamed, outpaced, raced>>
    PROVE  ProfilesInv'
<1>1. /\ edit' \in [Edits -> EditRec] /\ edits' \in 0 .. MaxEdits
      /\ EditsStand' /\ PayoutRead' /\ RatingRead'
      /\ edit'[c].kind = new.kind /\ edit[c] = NoEdit
      /\ \A d \in Edits \ {c} : /\ edit'[d].kind = edit[d].kind /\ edit'[d].user = edit[d].user
                                /\ edit'[d].changes = edit[d].changes
    BY StartKeeps
<1>2. ProfilesTypeOK'
    BY <1>1 DEF ProfilesInv, ProfilesTypeOK
<1>3. ASSUME NEW n PROVE Asking(n)' = Asking(n) /\ Named(n)' = Named(n)
    BY <1>1, NoEditIs DEF Asking, Named
<1>4. ASSUME NEW n, n \notin raced', NEW d \in Asking(n)'
      PROVE  /\ Named(n)' \subseteq {edit'[d].user}
             /\ \A o \in Asking(n)' : edit'[o].user = edit'[d].user
  <2>1. \A o \in Asking(n) : edit'[o].user = edit[o].user
      BY <1>1, NoEditIs DEF Asking
  <2>. QED BY <1>3, <1>4, <2>1 DEF ProfilesInv, NamesRead
<1>5. NamesRead'
    BY <1>4 DEF NamesRead
<1>6. raced \subseteq raced' /\ raced' \subseteq UserNames
    BY DEF ProfilesInv, ProfilesTypeOK
<1>7. ChecksHold' /\ RatingFollows'
    BY <1>6, PeopleStay
<1>. QED BY <1>1, <1>2, <1>5, <1>7 DEF ProfilesInv

LEMMA PayoutStarts ==
    ASSUME ProfilesInv, NEW c \in Edits, NEW u \in People, NEW w \in PayoutChange,
           SetPayout(c, u, w),
           \/ w \in BlankChange
           \/ /\ w \in VerifiedChange /\ w.holder = HolderOf[w.code, w.number]
              /\ w.holder \in Containing[person[u].name]
    PROVE  ProfilesInv'
<1>1. PICK name \in FullNames : name = person[u].name
    BY DEF ProfilesInv, ProfilesTypeOK, PersonRec
<1>2. PICK new : new = [NoEdit EXCEPT !.at = "read", !.kind = "payout", !.user = u, !.changes = w,
                                      !.name = name]
    OBVIOUS
<1>3. /\ new \in EditRec /\ new.at = "read" /\ new.kind = "payout" /\ new.user = u
      /\ new.changes = w /\ new.name = name
    BY <1>2, NoEditIs DEF EditRec
<1>4. EditStands(new) /\ new # NoEdit
    BY <1>1, <1>3, NoEditIs DEF EditStands
<1>5. Start(c, new) /\ UNCHANGED <<person, reviews, mixed, renamed, outpaced, raced>>
    BY <1>1, <1>2 DEF SetPayout
<1>. QED BY <1>3, <1>4, <1>5, OtherStarts

LEMMA PayoutKeeps ==
    ASSUME ProfilesInv, NEW c \in Edits, NEW u \in People, UpdatePayout(c, u)
    PROVE  ProfilesInv'
<1>1. ASSUME NEW code \in Codes, NEW number \in Numbers, Verified(c, u, code, number)
      PROVE  ProfilesInv'
  <2>1. PICK holder \in Holders : holder = HolderOf[code, number]
      BY ProfilesConstants
  <2>2. PICK w : w = [code |-> code, number |-> number, holder |-> holder]
      OBVIOUS
  <2>3. w \in VerifiedChange /\ w.code = code /\ w.number = number /\ w.holder = holder
      BY <2>2 DEF VerifiedChange
  <2>4. SetPayout(c, u, w) /\ holder \in Containing[person[u].name]
      BY <1>1, <2>1, <2>2 DEF Verified
  <2>. QED BY <2>1, <2>3, <2>4, PayoutStarts DEF PayoutChange
<1>2. ASSUME NEW w \in BlankChange, SetPayout(c, u, w) PROVE ProfilesInv'
    BY <1>2, PayoutStarts DEF PayoutChange
<1>3. ASSUME Unverified(c, u) PROVE \E w \in BlankChange : SetPayout(c, u, w)
    BY <1>3 DEF Unverified, BlankChange
<1>. QED BY <1>1, <1>2, <1>3 DEF UpdatePayout

LEMMA SubmitReviewKeeps ==
    ASSUME ProfilesInv, NEW c \in Edits, NEW u \in People, NEW k \in Reviewed, SubmitReview(c, k, u)
    PROVE  ProfilesInv'
<1>1. PICK stars \in Stars :
        Start(c, [NoEdit EXCEPT !.at = "insert", !.kind = "review", !.user = u,
                                 !.campaign = k, !.stars = stars])
    BY DEF SubmitReview
<1>2. PICK new : new = [NoEdit EXCEPT !.at = "insert", !.kind = "review", !.user = u,
                                      !.campaign = k, !.stars = stars]
    OBVIOUS
<1>3. /\ new \in EditRec /\ new.at = "insert" /\ new.kind = "review" /\ new.user = u
      /\ new.campaign = k /\ new.stars = stars
    BY <1>2, NoEditIs DEF EditRec
<1>4. EditStands(new) /\ new # NoEdit
    BY <1>3, NoEditIs DEF EditStands
<1>5. Start(c, new) /\ UNCHANGED <<person, reviews, mixed, renamed, outpaced, raced>>
    BY <1>1, <1>2 DEF SubmitReview
<1>. QED BY <1>3, <1>4, <1>5, OtherStarts

\* A step of a request that writes no row.
LEMMA ReadOnlyKeeps ==
    ASSUME ProfilesInv, NEW c \in Edits, NEW m \in EditRec, EditStands(m), edit[c] # NoEdit,
           SameEdit(c, m), edit' = [edit EXCEPT ![c] = m],
           UNCHANGED <<person, reviews, mixed, renamed, outpaced, raced, edits>>,
           m.kind = "payout" /\ m.at = "save" => m.read = person[m.user],
           m.at = "commit" =>
             LET mine == [campaign |-> m.campaign, creator |-> m.user, stars |-> m.stars]
             IN  /\ m.avg = Average(Of(m.user) \cup {mine})
                 /\ m.total = Cardinality(Of(m.user) \cup {mine})
    PROVE  ProfilesInv'
<1>1. /\ edit' \in [Edits -> EditRec] /\ edit'[c] = m
      /\ \A d \in Edits \ {c} : edit'[d] = edit[d]
      /\ EditsStand'
    BY EditStep
<1>2. ProfilesTypeOK'
    BY <1>1 DEF ProfilesInv, ProfilesTypeOK
<1>3. PayoutRead'
    BY <1>1 DEF ProfilesInv, PayoutRead
<1>4. RatingRead'
  <2>1. \A u : Of(u)' = Of(u)
      BY DEF Of
  <2>2. ASSUME NEW d \in Edits, edit'[d].at = "commit", edit'[d].alone
        PROVE  /\ edit'[d].avg = Average(Of(edit[d].user)' \cup {Mine(d)'})
               /\ edit'[d].total = Cardinality(Of(edit[d].user)' \cup {Mine(d)'})
    <3>1. PICK u, mine : /\ u = edit'[d].user
                         /\ mine = [campaign |-> edit'[d].campaign, creator |-> edit'[d].user,
                                    stars |-> edit'[d].stars]
        OBVIOUS
    <3>2. Of(edit[d].user)' = Of(u) /\ Mine(d)' = mine
        BY <3>1 DEF Of, Mine
    <3>3. edit'[d].avg = Average(Of(u) \cup {mine}) /\ edit'[d].total = Cardinality(Of(u) \cup {mine})
      <4>1. CASE d = c
          BY <1>1, <2>2, <3>1, <4>1
      <4>2. CASE d # c
        <5>1. edit'[d] = edit[d]
            BY <1>1, <4>2
        <5>2. Mine(d) = mine /\ u = edit[d].user
            BY <3>1, <5>1 DEF Mine
        <5>. QED BY <2>2, <5>1, <5>2 DEF ProfilesInv, RatingRead
      <4>. QED BY <4>1, <4>2
    <3>. QED BY <3>2, <3>3
  <2>. QED BY <2>2 DEF RatingRead
<1>5. \A n : Named(n)' = Named(n)
    BY DEF Named
<1>6. NamesRead'
    BY <1>5, NamesKeep
<1>7. raced \subseteq raced' /\ raced' \subseteq UserNames
    BY DEF ProfilesInv, ProfilesTypeOK
<1>8. ChecksHold' /\ RatingFollows'
    BY <1>7, PeopleStay
<1>. QED BY <1>1, <1>2, <1>3, <1>4, <1>6, <1>8 DEF ProfilesInv

LEMMA ReviewFindKeeps ==
    ASSUME ProfilesInv, NEW c \in Edits, FindRow(c)
    PROVE  ProfilesInv'
<1>1. edit[c].at = "read" /\ UNCHANGED <<person, reviews, mixed, renamed, outpaced, raced, edits>>
    BY DEF FindRow
<1>2. edit[c] \in EditRec /\ EditStands(edit[c]) /\ edit[c] # NoEdit /\ edit[c].user \in People
    BY <1>1, EditIs, NoEditIs
<1>3. PICK read \in PersonRec : read = person[edit[c].user]
    BY <1>2 DEF ProfilesInv, ProfilesTypeOK
<1>4. PICK m : m = [edit[c] EXCEPT !.at = "save", !.read = read]
    OBVIOUS
<1>5. /\ m \in EditRec /\ m.at = "save" /\ m.read = read /\ m.kind = edit[c].kind
      /\ m.user = edit[c].user /\ m.changes = edit[c].changes /\ m.campaign = edit[c].campaign
      /\ m.stars = edit[c].stars /\ m.alone = edit[c].alone /\ m.name = edit[c].name
    BY <1>2, <1>4 DEF EditRec
<1>6. edit' = [edit EXCEPT ![c] = m]
    BY <1>2, <1>3, <1>4 DEF FindRow, EditRec
<1>7. EditStands(m)
    BY <1>1, <1>2, <1>5, NoEditIs DEF EditStands
<1>8. SameEdit(c, m)
    BY <1>5 DEF SameEdit
<1>. QED BY <1>1, <1>2, <1>3, <1>5, <1>6, <1>7, <1>8, ReadOnlyKeeps

LEMMA CreateReviewKeeps ==
    ASSUME ProfilesInv, NEW c \in Edits, CreateReview(c)
    PROVE  ProfilesInv'
<1>1. edit[c].at = "insert" /\ UNCHANGED <<person, reviews, mixed, renamed, outpaced, raced, edits>>
    BY DEF CreateReview
<1>2. edit[c] \in EditRec /\ EditStands(edit[c]) /\ edit[c] # NoEdit
    BY <1>1, EditIs, NoEditIs
<1>3. PICK m : m = [edit[c] EXCEPT !.at = "rate"]
    OBVIOUS
<1>4. /\ m \in EditRec /\ m.at = "rate" /\ m.kind = edit[c].kind
      /\ m.user = edit[c].user /\ m.changes = edit[c].changes /\ m.campaign = edit[c].campaign
      /\ m.stars = edit[c].stars /\ m.alone = edit[c].alone /\ m.name = edit[c].name
    BY <1>2, <1>3 DEF EditRec
<1>5. EditStands(m) /\ SameEdit(c, m)
    BY <1>1, <1>2, <1>4, NoEditIs DEF EditStands, SameEdit
<1>6. CASE edit' = [edit EXCEPT ![c] = m]
    BY <1>1, <1>2, <1>4, <1>5, <1>6, ReadOnlyKeeps
<1>7. CASE edit' = [edit EXCEPT ![c] = NoEdit]
  <2>1. SameEdit(c, NoEdit)
      BY DEF SameEdit
  <2>. QED BY <1>1, <1>2, <1>7, <2>1, NoEditIs, ReadOnlyKeeps
<1>. QED BY <1>3, <1>6, <1>7 DEF CreateReview

LEMMA MineIsReview ==
    ASSUME ProfilesInv, NEW c \in Edits, edit[c].at \in {"rate", "commit"}
    PROVE  Mine(c) \in Reviews /\ edit[c].user \in People /\ edit[c] # NoEdit
           /\ edit[c].kind = "review" /\ Mine(c).creator = edit[c].user
BY EditIs, NoEditIs DEF Mine, Reviews, EditStands

LEMMA RateKeeps ==
    ASSUME ProfilesInv, NEW c \in Edits, RecalculateCreatorRating(c)
    PROVE  ProfilesInv'
<1>1. edit[c].at = "rate" /\ UNCHANGED <<person, reviews, mixed, renamed, outpaced, raced, edits>>
    BY DEF RecalculateCreatorRating
<1>2. edit[c] \in EditRec /\ EditStands(edit[c])
    BY EditIs
<1>3. Mine(c) \in Reviews /\ edit[c] # NoEdit
    BY <1>1, MineIsReview
<1>4. PICK all : all = Of(edit[c].user) \cup {Mine(c)}
    OBVIOUS
<1>5. all \in SUBSET Reviews
    BY <1>3, <1>4 DEF ProfilesInv, ProfilesTypeOK, Of
<1>6. PICK avg \in Averages, total \in Totals : avg = Average(all) /\ total = Cardinality(all)
    BY <1>5 DEF Averages, Totals
<1>7. PICK m : m = [edit[c] EXCEPT !.at = "commit", !.avg = avg, !.total = total]
    OBVIOUS
<1>8. /\ m \in EditRec /\ m.at = "commit" /\ m.avg = avg /\ m.total = total /\ m.kind = edit[c].kind
      /\ m.user = edit[c].user /\ m.changes = edit[c].changes /\ m.campaign = edit[c].campaign
      /\ m.stars = edit[c].stars /\ m.alone = edit[c].alone /\ m.name = edit[c].name
    BY ZenonT(40), <1>2, <1>6, <1>7 DEF EditRec
<1>9. edit' = [edit EXCEPT ![c] = m]
    BY <1>2, <1>4, <1>6, <1>7 DEF RecalculateCreatorRating, EditRec
<1>10. EditStands(m) /\ SameEdit(c, m)
    BY <1>1, <1>2, <1>8, NoEditIs DEF EditStands, SameEdit
<1>11. m.kind # "payout"
    BY <1>1, <1>8, MineIsReview
<1>12. /\ m.avg = Average(Of(m.user) \cup
                  {[campaign |-> m.campaign, creator |-> m.user, stars |-> m.stars]})
       /\ m.total = Cardinality(Of(m.user) \cup
                  {[campaign |-> m.campaign, creator |-> m.user, stars |-> m.stars]})
    BY <1>4, <1>6, <1>8 DEF Mine
<1>. QED BY <1>1, <1>3, <1>8, <1>9, <1>10, <1>11, <1>12, ReadOnlyKeeps

\* A request writes the row of its user, and ends.
LEMMA WriteKeeps ==
    ASSUME ProfilesInv, NEW c \in Edits, edit[c] # NoEdit, edit' = [edit EXCEPT ![c] = NoEdit],
           NEW u \in People, u = edit[c].user, NEW row \in PersonRec,
           person' = [person EXCEPT ![u] = row], raced' = raced, edits' = edits,
           row.username = person[u].username
             \/ c \in Asking(row.username),
           edit[c].kind # "payout" => row.code = person[u].code /\ row.number = person[u].number
                                      /\ row.holder = person[u].holder
    PROVE  /\ edit' \in [Edits -> EditRec] /\ person' \in [People -> PersonRec]
           /\ EditsStand' /\ PayoutRead' /\ NamesRead'
           /\ edit'[c] = NoEdit /\ \A d \in Edits \ {c} : edit'[d] = edit[d]
           /\ person'[u] = row /\ \A w \in People \ {u} : person'[w] = person[w]
           /\ \A v, w \in People : person'[v].username = person'[w].username =>
                v = w \/ person'[v].username \in raced'
<1>1. SameEdit(c, NoEdit)
    BY DEF SameEdit
<1>2. /\ edit' \in [Edits -> EditRec] /\ edit'[c] = NoEdit
      /\ \A d \in Edits \ {c} : edit'[d] = edit[d]
      /\ EditsStand'
    BY <1>1, NoEditIs, EditStep
<1>3. /\ person' \in [People -> PersonRec] /\ person'[u] = row
      /\ \A w \in People \ {u} : person'[w] = person[w]
    BY DEF ProfilesInv, ProfilesTypeOK
<1>4. PayoutRead'
  <2>1. ASSUME NEW d \in Edits, edit'[d].kind = "payout", edit'[d].at = "save", edit'[d].alone
        PROVE  /\ edit'[d].read.code = person'[edit'[d].user].code
               /\ edit'[d].read.number = person'[edit'[d].user].number
               /\ edit'[d].read.holder = person'[edit'[d].user].holder
    <3>1. d # c /\ edit'[d] = edit[d] /\ edit[d] # NoEdit
        BY <1>2, <2>1, NoEditIs
    <3>2. /\ edit[d].read.code = person[edit[d].user].code
          /\ edit[d].read.number = person[edit[d].user].number
          /\ edit[d].read.holder = person[edit[d].user].holder /\ edit[d].user \in People
        BY <2>1, <3>1, EditIs DEF ProfilesInv, PayoutRead
    <3>3. CASE edit[d].user = u
      <4>1. edit[c].kind # "payout"
          BY <2>1, <3>1, <3>3, PeersElsewhere
      <4>. QED BY <1>3, <3>1, <3>2, <3>3, <4>1
    <3>4. CASE edit[d].user # u
        BY <1>3, <3>1, <3>2, <3>4
    <3>. QED BY <3>3, <3>4
  <2>. QED BY <2>1 DEF PayoutRead
<1>5. \A n : Named(n)' \subseteq Named(n) \cup
             (IF c \in Asking(n) THEN {edit[c].user} ELSE {})
  <2>1. ASSUME NEW n, NEW w \in Named(n)'
        PROVE  w \in Named(n) \cup
             (IF c \in Asking(n) THEN {edit[c].user} ELSE {})
    <3>1. w \in People /\ person'[w].username = n
        BY DEF Named
    <3>. QED BY <1>3, <3>1 DEF Named
  <2>. QED BY <2>1
<1>6. NamesRead'
    BY <1>1, <1>5, NoEditIs, NamesKeep
<1>7. ASSUME NEW v \in People, NEW w \in People, person'[v].username = person'[w].username, v # w
      PROVE  person'[v].username \in raced
  <2>1. ASSUME NEW x \in People, x # u, person'[u].username = person'[x].username
        PROVE  person'[x].username \in raced
    <3>1. person'[x].username = person[x].username /\ row.username = person[x].username
        BY <1>3, <2>1
    <3>2. CASE row.username = person[u].username
        BY <2>1, <3>1, <3>2 DEF ProfilesInv, ChecksHold
    <3>3. CASE c \in Asking(row.username)
      <4>1. x \in Named(row.username)
          BY <3>1 DEF Named
      <4>. QED BY <2>1, <3>1, <3>3, <4>1 DEF ProfilesInv, NamesRead
    <3>. QED BY <3>2, <3>3
  <2>2. CASE v = u
      BY <1>7, <2>1, <2>2
  <2>3. CASE w = u
      BY <1>7, <2>1, <2>3
  <2>4. CASE v # u /\ w # u
      BY <1>3, <1>7, <2>4 DEF ProfilesInv, ChecksHold
  <2>. QED BY <2>2, <2>3, <2>4
<1>. QED BY <1>2, <1>3, <1>4, <1>6, <1>7

LEMMA SaveKeeps ==
    ASSUME ProfilesInv, NEW c \in Edits, SaveChanged(c)
    PROVE  ProfilesInv'
<1>1. /\ edit[c].at = "save" /\ edit' = [edit EXCEPT ![c] = NoEdit]
      /\ UNCHANGED <<reviews, outpaced, raced, edits>>
    BY DEF SaveChanged
<1>2. edit[c] \in EditRec /\ EditStands(edit[c]) /\ edit[c] # NoEdit /\ edit[c].alone \in BOOLEAN
    BY <1>1, EditIs, NoEditIs
<1>3. PICK u \in People : u = edit[c].user
    BY <1>2, EditIs
<1>4. PICK wanted, read : wanted = edit[c].changes /\ read = edit[c].read
    OBVIOUS
<1>5. /\ edit[c].kind \in {"name", "payout"} /\ read \in PersonRec
      /\ edit[c].kind = "name" => wanted \in NameChange
      /\ edit[c].kind = "payout" =>
           \/ wanted \in BlankChange
           \/ /\ wanted \in VerifiedChange /\ wanted.holder = HolderOf[wanted.code, wanted.number]
              /\ wanted.holder \in Containing[edit[c].name]
    BY <1>1, <1>2, <1>4, NoEditIs DEF EditStands
<1>6. PICK differing : differing = {k \in DOMAIN wanted : wanted[k] # read[k]}
    OBVIOUS
<1>7. PICK row : row = [k \in DOMAIN person[u] |->
                          IF k \in differing THEN wanted[k] ELSE person[u][k]]
    OBVIOUS
<1>8. person[u] \in PersonRec
    BY DEF ProfilesInv, ProfilesTypeOK
<1>9. person' = [person EXCEPT ![u] = row]
    BY <1>3, <1>4, <1>6, <1>7 DEF SaveChanged
<1>10. DOMAIN person[u] = {"username", "name", "code", "number", "holder", "avg", "total"}
    BY <1>8 DEF PersonRec
<1>11. edit[c].kind = "name" =>
         /\ row \in PersonRec /\ row.avg = person[u].avg /\ row.total = person[u].total
         /\ row.code = person[u].code /\ row.number = person[u].number
         /\ row.holder = person[u].holder
         /\ "name" \in differing \/ row.name = person[u].name
         /\ row.username = person[u].username \/ c \in Asking(row.username)
  <2>. SUFFICES ASSUME edit[c].kind = "name"
                PROVE  /\ row \in PersonRec /\ row.avg = person[u].avg /\ row.total = person[u].total
                       /\ row.code = person[u].code /\ row.number = person[u].number
                       /\ row.holder = person[u].holder
                       /\ "name" \in differing \/ row.name = person[u].name
                       /\ row.username = person[u].username \/ c \in Asking(row.username)
      OBVIOUS
  <2>1. /\ DOMAIN wanted \subseteq {"username", "name"}
        /\ "username" \in DOMAIN wanted => wanted["username"] \in UserNames
        /\ "name" \in DOMAIN wanted => wanted["name"] \in FullNames
      BY <1>5, ChangeIs
  <2>2. /\ row.code = person[u].code /\ row.number = person[u].number
        /\ row.holder = person[u].holder /\ row.avg = person[u].avg /\ row.total = person[u].total
        /\ row.name = IF "name" \in differing THEN wanted["name"] ELSE person[u].name
        /\ row.username = IF "username" \in differing THEN wanted["username"] ELSE person[u].username
      BY <1>6, <1>7, <1>10, <2>1
  <2>3. row.username = person[u].username \/ c \in Asking(row.username)
      BY <1>4, <1>6, <2>2 DEF Asking
  <2>4. row.name \in FullNames /\ row.username \in UserNames \cup People
      BY <1>6, <1>8, <2>1, <2>2 DEF PersonRec
  <2>5. row \in PersonRec
      BY <1>7, <1>8, <1>10, <2>2, <2>4 DEF PersonRec
  <2>. QED BY <2>2, <2>3, <2>5
<1>12. edit[c].kind = "payout" =>
         /\ row \in PersonRec /\ row.avg = person[u].avg /\ row.total = person[u].total
         /\ row.username = person[u].username /\ row.name = person[u].name
         /\ wanted \in VerifiedChange =>
              /\ row.code = IF wanted.code # read.code THEN wanted.code ELSE person[u].code
              /\ row.number = IF wanted.number # read.number THEN wanted.number ELSE person[u].number
              /\ row.holder = IF wanted.holder # read.holder THEN wanted.holder ELSE person[u].holder
  <2>1. ASSUME wanted \in VerifiedChange
        PROVE  /\ row \in PersonRec /\ row.avg = person[u].avg /\ row.total = person[u].total
               /\ row.username = person[u].username /\ row.name = person[u].name
               /\ row.code = IF wanted.code # read.code THEN wanted.code ELSE person[u].code
               /\ row.number = IF wanted.number # read.number THEN wanted.number ELSE person[u].number
               /\ row.holder = IF wanted.holder # read.holder THEN wanted.holder ELSE person[u].holder
    <3>1. DOMAIN wanted = {"code", "number", "holder"} /\ wanted.code \in Codes
          /\ wanted.number \in Numbers /\ wanted.holder \in Holders
        BY <2>1, ChangeIs
    <3>2. /\ row.username = person[u].username /\ row.name = person[u].name
          /\ row.avg = person[u].avg /\ row.total = person[u].total
          /\ row.code = IF wanted.code # read.code THEN wanted.code ELSE person[u].code
          /\ row.number = IF wanted.number # read.number THEN wanted.number ELSE person[u].number
          /\ row.holder = IF wanted.holder # read.holder THEN wanted.holder ELSE person[u].holder
        BY <1>6, <1>7, <1>10, <3>1
    <3>3. row \in PersonRec
        BY SMTT(30), <1>7, <1>8, <1>10, <3>1, <3>2 DEF PersonRec
    <3>. QED BY <3>2, <3>3
  <2>2. ASSUME wanted \in BlankChange
        PROVE  /\ row \in PersonRec /\ row.avg = person[u].avg /\ row.total = person[u].total
               /\ row.username = person[u].username /\ row.name = person[u].name
               /\ wanted \notin VerifiedChange
    <3>1. /\ DOMAIN wanted \subseteq {"code", "holder"} /\ wanted["code"] \in Codes
          /\ "holder" \in DOMAIN wanted => wanted["holder"] \in Holders
        BY <2>2, ChangeIs
    <3>2. /\ row.username = person[u].username /\ row.name = person[u].name
          /\ row.avg = person[u].avg /\ row.total = person[u].total
          /\ row.number = person[u].number
          /\ row.code = IF "code" \in differing THEN wanted["code"] ELSE person[u].code
          /\ row.holder = IF "holder" \in differing THEN wanted["holder"] ELSE person[u].holder
        BY <1>6, <1>7, <1>10, <3>1
    <3>3. row.code \in Codes \cup {"none"} /\ row.holder \in Holders \cup {"none"}
        BY <1>6, <1>8, <3>1, <3>2 DEF PersonRec
    <3>4. row \in PersonRec
        BY <1>7, <1>8, <1>10, <3>2, <3>3 DEF PersonRec
    <3>5. wanted \notin VerifiedChange
        BY <3>1, ChangeIs
    <3>. QED BY <3>2, <3>4, <3>5
  <2>. QED BY <1>5, <2>1, <2>2
<1>13. /\ edit' \in [Edits -> EditRec] /\ person' \in [People -> PersonRec]
       /\ EditsStand' /\ PayoutRead' /\ NamesRead'
       /\ edit'[c] = NoEdit /\ \A d \in Edits \ {c} : edit'[d] = edit[d]
       /\ person'[u] = row /\ \A w \in People \ {u} : person'[w] = person[w]
       /\ \A v, w \in People : person'[v].username = person'[w].username =>
            v = w \/ person'[v].username \in raced'
  <2>1. row \in PersonRec /\ (row.username = person[u].username \/ c \in Asking(row.username))
      BY <1>5, <1>11, <1>12
  <2>2. edit[c].kind # "payout" => row.code = person[u].code /\ row.number = person[u].number
                                   /\ row.holder = person[u].holder
      BY <1>5, <1>11
  <2>. QED BY <1>1, <1>2, <1>3, <1>9, <2>1, <2>2, WriteKeeps
<1>14. /\ edit[c].kind = "name" => mixed' = mixed
       /\ edit[c].kind = "payout" =>
            mixed' = IF edit[c].alone /\ "number" \in DOMAIN wanted THEN mixed \ {u} ELSE mixed \cup {u}
    BY <1>3, <1>4 DEF SaveChanged
<1>15. /\ edit[c].kind = "name" =>
            renamed' = IF "name" \in differing THEN renamed \cup {u} ELSE renamed
       /\ edit[c].kind = "payout" =>
            renamed' = IF edit[c].name = person[u].name THEN renamed \ {u} ELSE renamed \cup {u}
    BY <1>3, <1>4, <1>6 DEF SaveChanged
<1>16. ProfilesTypeOK'
    BY <1>1, <1>5, <1>13, <1>14, <1>15 DEF ProfilesInv, ProfilesTypeOK
<1>17. RatingRead'
  <2>1. \A d \in Edits : edit'[d].at = "commit" => edit'[d] = edit[d]
      BY <1>13, NoEditIs
  <2>. QED BY <1>1, <2>1 DEF ProfilesInv, RatingRead, Of, Mine
<1>18. RatingFollows'
  <2>1. \A w \in People : person'[w].avg = person[w].avg /\ person'[w].total = person[w].total
      BY <1>5, <1>11, <1>12, <1>13
  <2>2. \A w \in People : Of(w)' = Of(w)
      BY <1>1 DEF Of
  <2>. QED BY <1>1, <2>1, <2>2 DEF ProfilesInv, RatingFollows
<1>19. ASSUME NEW w \in People \ mixed', person'[w].code # "none"
       PROVE  /\ person'[w].holder = HolderOf[person'[w].code, person'[w].number]
              /\ w \in renamed' \/ person'[w].holder \in Containing[person'[w].name]
  <2>1. CASE w = u /\ edit[c].kind = "payout"
    <3>1. edit[c].alone /\ "number" \in DOMAIN wanted
        BY <1>2, <1>14, <1>19, <2>1
    <3>2. wanted \in VerifiedChange
        BY <1>5, <2>1, <3>1, ChangeIs
    <3>3. /\ read.code = person[u].code /\ read.number = person[u].number
          /\ read.holder = person[u].holder
        BY <1>1, <1>3, <1>4, <2>1, <3>1 DEF ProfilesInv, PayoutRead
    <3>4. /\ row.code = wanted.code /\ row.number = wanted.number /\ row.holder = wanted.holder
          /\ row.name = person[u].name
        BY <1>12, <2>1, <3>2, <3>3
    <3>5. wanted \notin BlankChange
        BY <3>1, ChangeIs
    <3>6. wanted.holder = HolderOf[wanted.code, wanted.number]
          /\ wanted.holder \in Containing[edit[c].name]
        BY <1>5, <2>1, <3>5
    <3>7. w \in renamed' \/ edit[c].name = person[u].name
        BY <1>15, <2>1
    <3>. QED BY <1>13, <2>1, <3>4, <3>6, <3>7
  <2>2. CASE w = u /\ edit[c].kind = "name"
    <3>1. w \notin mixed
        BY <1>14, <1>19, <2>2
    <3>2. /\ person'[w].code = person[w].code /\ person'[w].number = person[w].number
          /\ person'[w].holder = person[w].holder
          /\ w \in renamed' \/ (w \notin renamed /\ person'[w].name = person[w].name)
        BY <1>11, <1>13, <1>15, <2>2
    <3>. QED BY <1>19, <3>1, <3>2 DEF ProfilesInv, ChecksHold
  <2>3. CASE w # u
    <3>1. w \notin mixed /\ (w \in renamed => w \in renamed') /\ person'[w] = person[w]
        BY <1>5, <1>13, <1>14, <1>15, <1>19, <2>3
    <3>. QED BY <1>19, <3>1 DEF ProfilesInv, ChecksHold
  <2>. QED BY <1>5, <2>1, <2>2, <2>3
<1>20. ChecksHold'
    BY <1>13, <1>19 DEF ChecksHold
<1>. QED BY <1>13, <1>16, <1>17, <1>18, <1>20 DEF ProfilesInv

LEMMA CommitKeeps ==
    ASSUME ProfilesInv, NEW c \in Edits, CommitReview(c)
    PROVE  ProfilesInv'
<1>1. /\ edit[c].at = "commit" /\ edit' = [edit EXCEPT ![c] = NoEdit]
      /\ reviews' = reviews \cup {Mine(c)} /\ UNCHANGED <<mixed, renamed, raced, edits>>
    BY DEF CommitReview
<1>2. /\ Mine(c) \in Reviews /\ edit[c].user \in People /\ edit[c] # NoEdit
      /\ edit[c].kind = "review" /\ Mine(c).creator = edit[c].user
    BY <1>1, MineIsReview
<1>3. PICK u \in People : u = edit[c].user
    BY <1>2
<1>4. edit[c].avg \in Averages /\ edit[c].total \in Totals /\ edit[c].alone \in BOOLEAN
    BY EditIs DEF EditRec
<1>5. PICK row : row = [person[u] EXCEPT !.avg = edit[c].avg, !.total = edit[c].total]
    OBVIOUS
<1>6. person[u] \in PersonRec
    BY DEF ProfilesInv, ProfilesTypeOK
<1>7. /\ row \in PersonRec /\ row.avg = edit[c].avg /\ row.total = edit[c].total
      /\ row.username = person[u].username /\ row.name = person[u].name /\ row.code = person[u].code
      /\ row.number = person[u].number /\ row.holder = person[u].holder
    BY <1>4, <1>5, <1>6 DEF PersonRec
<1>8. person' = [person EXCEPT ![u] = row]
    BY <1>3, <1>5, <1>6 DEF CommitReview, ProfilesInv, ProfilesTypeOK, PersonRec
<1>9. /\ edit' \in [Edits -> EditRec] /\ person' \in [People -> PersonRec]
      /\ EditsStand' /\ PayoutRead' /\ NamesRead'
      /\ edit'[c] = NoEdit /\ \A d \in Edits \ {c} : edit'[d] = edit[d]
      /\ person'[u] = row /\ \A w \in People \ {u} : person'[w] = person[w]
      /\ \A v, w \in People : person'[v].username = person'[w].username =>
           v = w \/ person'[v].username \in raced'
    BY ZenonT(40), <1>1, <1>2, <1>3, <1>7, <1>8, WriteKeeps
<1>10. outpaced' = IF edit[c].alone THEN outpaced \ {u} ELSE outpaced \cup {u}
    BY <1>3 DEF CommitReview
<1>11. ProfilesTypeOK'
    BY <1>1, <1>2, <1>9, <1>10 DEF ProfilesInv, ProfilesTypeOK
<1>12. /\ \A w \in People \ {u} : Of(w)' = Of(w)
       /\ Of(u)' = Of(u) \cup {Mine(c)}
    BY <1>1, <1>2, <1>3 DEF Of
<1>13. RatingRead'
  <2>1. ASSUME NEW d \in Edits, edit'[d].at = "commit", edit'[d].alone
        PROVE  /\ edit'[d].avg = Average(Of(edit[d].user)' \cup {Mine(d)'})
               /\ edit'[d].total = Cardinality(Of(edit[d].user)' \cup {Mine(d)'})
    <3>1. d # c /\ edit'[d] = edit[d]
        BY <1>9, <2>1, NoEditIs
    <3>2. edit[d] # NoEdit /\ edit[d].kind = "review"
        BY <2>1, <3>1, MineIsReview
    <3>3. PICK w \in People \ {u} : w = edit[d].user
        BY <1>2, <1>3, <2>1, <3>1, <3>2, PeersElsewhere, EditIs
    <3>4. Of(edit[d].user)' = Of(w)' /\ Mine(d)' = Mine(d)
        BY <3>1, <3>3 DEF Of, Mine
    <3>5. edit[d].avg = Average(Of(w) \cup {Mine(d)}) /\ edit[d].total = Cardinality(Of(w) \cup {Mine(d)})
        BY <2>1, <3>1, <3>3 DEF ProfilesInv, RatingRead
    <3>. QED BY <1>12, <3>1, <3>4, <3>5
  <2>. QED BY <2>1 DEF RatingRead
<1>14. ASSUME NEW w \in People \ outpaced'
       PROVE  person'[w].avg = Average(Of(w)') /\ person'[w].total = Cardinality(Of(w)')
  <2>1. CASE w = u
    <3>1. edit[c].alone
        BY <1>10, <1>14, <2>1
    <3>2. /\ edit[c].avg = Average(Of(u) \cup {Mine(c)})
          /\ edit[c].total = Cardinality(Of(u) \cup {Mine(c)})
        BY <1>1, <1>3, <3>1 DEF ProfilesInv, RatingRead
    <3>. QED BY <1>7, <1>9, <1>12, <2>1, <3>2
  <2>2. CASE w # u
    <3>1. w \notin outpaced
        BY <1>10, <1>14, <2>2
    <3>. QED BY <1>9, <1>12, <2>2, <3>1 DEF ProfilesInv, RatingFollows
  <2>. QED BY <2>1, <2>2
<1>15. RatingFollows'
    BY <1>14 DEF RatingFollows
<1>16. ASSUME NEW w \in People \ mixed', person'[w].code # "none"
       PROVE  /\ person'[w].holder = HolderOf[person'[w].code, person'[w].number]
              /\ w \in renamed' \/ person'[w].holder \in Containing[person'[w].name]
  <2>1. /\ person'[w].code = person[w].code /\ person'[w].number = person[w].number
        /\ person'[w].holder = person[w].holder /\ person'[w].name = person[w].name
      BY <1>7, <1>9
  <2>. QED BY <1>1, <1>16, <2>1 DEF ProfilesInv, ChecksHold
<1>17. ChecksHold'
    BY <1>9, <1>16 DEF ChecksHold
<1>. QED BY <1>9, <1>11, <1>13, <1>15, <1>17 DEF ProfilesInv

LEMMA ProfilesInit == InitProfiles => ProfilesInv
<1>. SUFFICES ASSUME InitProfiles PROVE ProfilesInv
    OBVIOUS
<1>1. ASSUME NEW u \in People
      PROVE  /\ person[u] \in PersonRec /\ person[u].username = u /\ person[u].code = "none"
             /\ person[u].avg = 0 /\ person[u].total = 0
    BY NoEditIs, ProfilesConstants DEF InitProfiles, PersonRec
<1>2. person \in [People -> PersonRec]
    BY <1>1 DEF InitProfiles
<1>3. ProfilesTypeOK
    BY <1>2, NoEditIs, ProfilesConstants DEF InitProfiles, ProfilesTypeOK
<1>4. \A c \in Edits : edit[c] = NoEdit
    BY DEF InitProfiles
<1>5. EditsStand /\ PayoutRead /\ RatingRead /\ NamesRead
    BY <1>4, NoEditIs DEF EditsStand, PayoutRead, RatingRead, NamesRead, Asking
<1>6. ChecksHold
    BY <1>1 DEF ChecksHold
<1>7. \A u \in People : Of(u) = {}
    BY DEF InitProfiles, Of
<1>8. RatingFollows
    BY <1>1, <1>7, NothingRated DEF RatingFollows
<1>. QED BY <1>3, <1>5, <1>6, <1>8 DEF ProfilesInv

LEMMA ProfilesNext == ProfilesInv /\ [NextProfiles]_profileVars => ProfilesInv'
<1>. SUFFICES ASSUME ProfilesInv, [NextProfiles]_profileVars PROVE ProfilesInv'
    OBVIOUS
<1>1. ASSUME NEW c \in Edits, NEW u \in People,
             UpdatePersonalInfo(c, u) \/ BuildProfile(c, u) \/ UpdatePayout(c, u)
             \/ \E k \in Reviewed : SubmitReview(c, k, u)
      PROVE  ProfilesInv'
    BY <1>1, InfoKeeps, BuildKeeps, PayoutKeeps, SubmitReviewKeeps
<1>2. ASSUME NEW c \in Edits, FindRow(c) \/ SaveChanged(c) \/ CreateReview(c)
                              \/ RecalculateCreatorRating(c) \/ CommitReview(c)
      PROVE  ProfilesInv'
    BY <1>2, ReviewFindKeeps, SaveKeeps, CreateReviewKeeps, RateKeeps, CommitKeeps
<1>3. CASE UNCHANGED profileVars
  <2>1. UNCHANGED <<person, reviews, edit, mixed, renamed, outpaced, raced, edits>>
      BY <1>3 DEF profileVars
  <2>2. ProfilesTypeOK'
      BY <2>1 DEF ProfilesInv, ProfilesTypeOK
  <2>3. EditsStand' /\ PayoutRead'
      BY ZenonT(40), <2>1 DEF ProfilesInv, EditsStand, EditStands, PayoutRead, Peers
  <2>4. RatingRead' /\ RatingFollows'
      BY <2>1 DEF ProfilesInv, RatingRead, RatingFollows, Of, Mine
  <2>5. NamesRead'
      BY <2>1 DEF ProfilesInv, NamesRead, Named, Asking
  <2>6. ChecksHold'
      BY <2>1 DEF ProfilesInv, ChecksHold
  <2>. QED BY <2>2, <2>3, <2>4, <2>5, <2>6 DEF ProfilesInv
<1>. QED BY <1>1, <1>2, <1>3 DEF NextProfiles

\* Rows of users, reviews and the requests on them have their types: what a request reads,
\* saves and commits is what a row may hold, and a rating is the average of some reviews.
THEOREM ProfilesTypeCorrect == SpecProfiles => []ProfilesTypeOK
<1>1. ProfilesInv => ProfilesTypeOK
    BY DEF ProfilesInv
<1>. QED BY <1>1, ProfilesInit, ProfilesNext, PTL DEF SpecProfiles

\* Bank, number and account name in a row are one account that was looked up at the bank, and
\* the name on it contains the user's first or last, unless the last two updates of it
\* overlapped or the last had no number to look up (profile.service.ts:316-325), or the user's
\* name was changed since the two were compared (:53-54); and no two users have one user name,
\* unless it was asked for without the check of profile.service.ts or by two at one time.
THEOREM ChecksOutlastWrites == SpecProfiles => []ChecksHold
<1>1. ProfilesInv => ChecksHold
    BY DEF ProfilesInv
<1>. QED BY <1>1, ProfilesInit, ProfilesNext, PTL DEF SpecProfiles

\* The rating on a creator's row is the average and the number of the creator's committed
\* reviews, unless the last two transactions that wrote it overlapped.
THEOREM RatingIsOfReviews == SpecProfiles => []RatingFollows
<1>1. ProfilesInv => RatingFollows
    BY DEF ProfilesInv
<1>. QED BY <1>1, ProfilesInit, ProfilesNext, PTL DEF SpecProfiles

-----------------------------------------------------------------------------
(* Metrics.                                                                *)

Windows == Scheduled \cup {"manual"}
MediaRec == [status : {"none", "pending", "resolved", "unowned", "unauthorized"}, link : Nat,
             type : {"none", "STORY", "REEL"}, at : Int, windows : SUBSET Windows,
             owned : BOOLEAN]
SeenLists == UNION {[S -> MediaRec] : S \in SUBSET Posts}
JobRec == [at : {"idle", "register", "resolve", "ask", "answer", "capture", "store", "mark"},
           seen : SeenLists, todo : SUBSET Posts, post : Posts \cup {Nothing},
           windows : SUBSET Windows, window : Windows \cup {"none"}, read : MediaRec,
           quiet : BOOLEAN, since : Int]

MetricsTypeOK ==
    /\ link \in [Posts -> Nat] /\ media \in [Posts -> MediaRec] /\ connected \in BOOLEAN
    /\ hour \in 1 .. Len(Instants) /\ job \in [Jobs -> JobRec]
    /\ readings \in [Posts -> [Windows -> 0 .. 2]] /\ blurred \subseteq Posts
    /\ linked \in 0 .. MaxLinks /\ ticks \in 0 .. MaxTicks /\ manual \in 0 .. MaxManual
    /\ troubles \in 0 .. MaxTroubles

Listing(m) == m.at \in {"capture", "store", "mark"}
OnPost(m) == m.at \in {"store", "mark"} \/ (m.at = "capture" /\ m.windows # {})

\* Where a job may be: a tick takes the windows of a post that it has listed and is done
\* with listing, staff take a reading beyond the schedule.
JobStands(j, m) ==
    /\ m.at = "register" => \A p \in m.todo : p \in DOMAIN m.seen /\ m.seen[p].windows = {}
    /\ Listing(m) /\ j \in Workers => /\ m.todo \subseteq DOMAIN m.seen /\ m.windows \subseteq Scheduled
                                      /\ OnPost(m) => m.post \in DOMAIN m.seen \ m.todo
    /\ Listing(m) /\ j \in Staff => /\ m.windows \subseteq {"manual"} /\ m.todo = {}
                                    /\ m.post \in Posts
    /\ m.at \in {"ask", "answer"} => m.post \in Posts
    /\ j \in Staff => m.at \notin {"register", "resolve"}
    /\ m.at \in {"store", "mark"} =>
         /\ m.window \in IF j \in Workers THEN Scheduled ELSE {"manual"}
         /\ m.window \notin m.windows

\* What job m knows of post p while nothing has come between: the windows that are left to
\* it are not captured, and the row that it has read is the row.
UpToDate(m, p, row) ==
    /\ Listing(m) /\ p \in m.todo => row.windows \cap Scheduled \subseteq m.seen[p].windows
    /\ OnPost(m) /\ m.post = p => row.windows \cap m.windows \cap Scheduled = {}
    /\ m.at \in {"store", "mark"} /\ m.post = p =>
         /\ m.read.windows = row.windows /\ m.read.link = row.link
         /\ m.window \in Scheduled => m.window \notin row.windows

\* Job m has the reading of window w of post p behind it, and its mark ahead.
Marking(m, p, w) == m.at = "mark" /\ m.post = p /\ m.window = w

\* Posts that nothing has come between.
Sharp(p) ==
    /\ \A i, j \in Capturing(p) : i = j
    /\ \A i, j \in Workers :
         Listing(job[i]) /\ Listing(job[j]) /\ p \in DOMAIN job[i].seen /\ p \in DOMAIN job[j].seen =>
           i = j
    /\ \A j \in Jobs : UpToDate(job[j], p, media[p])
    /\ \A w \in Scheduled :
         /\ readings[p][w] \in {0, 1}
         /\ readings[p][w] = 1 <=>
              \/ w \in media[p].windows
              \/ \E j \in Jobs : Marking(job[j], p, w)

MetricsInv ==
    /\ MetricsTypeOK
    /\ \A j \in Jobs : JobStands(j, job[j])
    /\ \A p \in Posts \ blurred : Sharp(p)

\* What a job that takes a step was and is, as far as post p can tell: it captures p if it
\* did, or if nobody does; it lists p if it did, or if nobody does.
Unseen(j, m, p) ==
    /\ m.at \in {"store", "mark"} /\ m.post = p => j \in Capturing(p) \/ Capturing(p) = {}
    /\ j \in Workers /\ Listing(m) /\ p \in DOMAIN m.seen =>
         (Listing(job[j]) /\ p \in DOMAIN job[j].seen) \/ p \notin Listed

LEMMA WindowsAre ==
    /\ Scheduled = {"t24h", "t7d", "t30d", "story"} /\ "manual" \notin Scheduled
    /\ Scheduled \subseteq Windows /\ "none" \notin Windows /\ "manual" \in Windows
BY DEF Scheduled, CaptureWindows, Windows

LEMMA NoMediaIs == NoMedia \in MediaRec /\ NoMedia.windows = {}
BY DEF NoMedia, MediaRec

LEMMA SeedIs == \A l \in Nat : Seed(l) \in MediaRec /\ Seed(l).windows = {}
BY NoMediaIs DEF Seed, MediaRec

LEMMA ListIs ==
    ASSUME NEW S \in SUBSET Posts, NEW f \in [S -> MediaRec]
    PROVE  f \in SeenLists /\ DOMAIN f = S
BY DEF SeenLists

LEMMA ListHas ==
    ASSUME NEW f \in SeenLists
    PROVE  DOMAIN f \subseteq Posts /\ \A p \in DOMAIN f : f[p] \in MediaRec
BY DEF SeenLists

LEMMA IdleIs ==
    /\ Idle \in JobRec /\ Idle.at = "idle" /\ \A j \in Jobs : JobStands(j, Idle)
    /\ \A p, row : UpToDate(Idle, p, row)
<1>1. PICK f : f = [p \in {} |-> NoMedia]
    OBVIOUS
<1>2. f \in SeenLists
  <2>1. f \in [{} -> MediaRec]
      BY <1>1
  <2>2. {} \in SUBSET Posts
      OBVIOUS
  <2>. QED BY <2>1, <2>2 DEF SeenLists
<1>3. Idle \in JobRec
    BY <1>1, <1>2, NoMediaIs DEF Idle, JobRec
<1>4. Idle.at = "idle"
    BY DEF Idle
<1>. QED BY <1>3, <1>4 DEF JobStands, UpToDate, Listing, OnPost

LEMMA JobIs ==
    ASSUME MetricsInv, NEW j \in Jobs
    PROVE  /\ job[j] \in JobRec /\ JobStands(j, job[j]) /\ job[j].seen \in SeenLists
           /\ job[j].todo \in SUBSET Posts /\ job[j].windows \in SUBSET Windows
           /\ job[j].read \in MediaRec /\ job[j].post \in Posts \cup {Nothing}
           /\ job[j].window \in Windows \cup {"none"}
BY DEF MetricsInv, MetricsTypeOK, JobRec

LEMMA NowIs == MetricsInv => Now \in Nat
BY SMTT(30), MetricsConstants DEF MetricsInv, MetricsTypeOK, Now

\* A step of a job leaves the others where they are.
LEMMA JobStep ==
    ASSUME MetricsInv, NEW j \in Jobs, NEW m \in JobRec, JobStands(j, m),
           job' = [job EXCEPT ![j] = m]
    PROVE  /\ job' \in [Jobs -> JobRec] /\ job'[j] = m
           /\ \A i \in Jobs \ {j} : job'[i] = job[i]
           /\ \A i \in Jobs : JobStands(i, job'[i])
BY DEF MetricsInv, MetricsTypeOK

\* A step that captures nothing and resets nothing of a post.
LEMMA StaysSharp ==
    ASSUME MetricsInv, NEW j \in Jobs, NEW m \in JobRec, job' = [job EXCEPT ![j] = m],
           NEW p \in Posts, p \notin blurred, media'[p].windows = media[p].windows,
           media'[p].link = media[p].link, readings'[p] = readings[p],
           Unseen(j, m, p), UpToDate(m, p, media[p]),
           \A w \in Scheduled : Marking(m, p, w) <=> Marking(job[j], p, w)
    PROVE  Sharp(p)'
<1>1. Sharp(p) /\ job \in [Jobs -> JobRec]
    BY DEF MetricsInv, MetricsTypeOK
<1>2. job'[j] = m /\ \A i \in Jobs \ {j} : job'[i] = job[i]
    BY <1>1
<1>3. \A i, k \in Capturing(p)' : i = k
    BY <1>1, <1>2 DEF Sharp, Unseen, Capturing
<1>4. ASSUME NEW i \in Workers, NEW k \in Workers, Listing(job'[i]), Listing(job'[k]),
             p \in DOMAIN job'[i].seen, p \in DOMAIN job'[k].seen, i # k
      PROVE  FALSE
  <2>1. i \in Jobs /\ k \in Jobs
      BY DEF Jobs
  <2>2. ASSUME NEW o \in Workers, o # j, Listing(job[o]), p \in DOMAIN job[o].seen,
               j \in Workers, Listing(m), p \in DOMAIN m.seen
        PROVE  FALSE
    <3>1. p \in Listed
        BY <2>2 DEF Listed, Listing
    <3>2. Listing(job[j]) /\ p \in DOMAIN job[j].seen
        BY <2>2, <3>1 DEF Unseen
    <3>. QED BY <1>1, <2>2, <3>2 DEF Sharp
  <2>3. CASE i = j
      BY <1>2, <1>4, <2>1, <2>2, <2>3
  <2>4. CASE k = j
      BY <1>2, <1>4, <2>1, <2>2, <2>4
  <2>5. CASE i # j /\ k # j
      BY <1>1, <1>2, <1>4, <2>1, <2>5 DEF Sharp
  <2>. QED BY <2>3, <2>4, <2>5
<1>5. \A i \in Jobs : UpToDate(job'[i], p, media'[p])
  <2>1. \A i \in Jobs : UpToDate(job'[i], p, media[p])
      BY <1>1, <1>2 DEF Sharp
  <2>. QED BY <2>1 DEF UpToDate
<1>6. ASSUME NEW w \in Scheduled
      PROVE  /\ readings'[p][w] \in {0, 1}
             /\ readings'[p][w] = 1 <=>
                  w \in media'[p].windows \/ \E i \in Jobs : Marking(job'[i], p, w)
  <2>1. (\E i \in Jobs : Marking(job'[i], p, w)) <=> \E i \in Jobs : Marking(job[i], p, w)
      BY <1>2
  <2>. QED BY <1>1, <2>1 DEF Sharp
<1>. QED BY <1>3, <1>4, <1>5, <1>6 DEF Sharp, UpToDate, Listing, OnPost, Marking

\* A step of a job that writes nothing of any post's windows or readings.
LEMMA QuietStep ==
    ASSUME MetricsInv, NEW j \in Jobs, NEW m \in JobRec, JobStands(j, m),
           job' = [job EXCEPT ![j] = m], media' \in [Posts -> MediaRec],
           \A p \in Posts : media'[p].windows = media[p].windows /\ media'[p].link = media[p].link,
           readings' = readings, blurred \subseteq blurred', blurred' \subseteq Posts,
           UNCHANGED <<link, connected, hour, linked>>, ticks' \in 0 .. MaxTicks,
           manual' \in 0 .. MaxManual, troubles' \in 0 .. MaxTroubles,
           \A p \in Posts \ blurred' :
             /\ Unseen(j, m, p) /\ UpToDate(m, p, media[p])
             /\ \A w \in Scheduled : Marking(m, p, w) <=> Marking(job[j], p, w)
    PROVE  MetricsInv'
<1>1. /\ job' \in [Jobs -> JobRec] /\ \A i \in Jobs : JobStands(i, job'[i])
    BY JobStep
<1>2. MetricsTypeOK'
    BY <1>1 DEF MetricsInv, MetricsTypeOK
<1>3. ASSUME NEW p \in Posts \ blurred' PROVE Sharp(p)'
    BY <1>3, StaysSharp
<1>. QED BY <1>1, <1>2, <1>3 DEF MetricsInv, JobStands, Listing, OnPost

\* A job that is neither capturing nor listing afterwards.
LEMMA OtherJob ==
    ASSUME NEW j \in Jobs, NEW m, m.at \notin {"capture", "store", "mark"}, NEW p
    PROVE  Unseen(j, m, p) /\ (\A row : UpToDate(m, p, row)) /\ \A w : ~Marking(m, p, w)
BY DEF Unseen, UpToDate, Listing, OnPost, Marking

\* A step of a job that was not marking a reading, to where it captures nothing.
LEMMA AsideStep ==
    ASSUME MetricsInv, NEW j \in Jobs, NEW m \in JobRec, JobStands(j, m),
           job' = [job EXCEPT ![j] = m], m.at \notin {"capture", "store", "mark"},
           job[j].at # "mark", media' \in [Posts -> MediaRec],
           \A p \in Posts : media'[p].windows = media[p].windows /\ media'[p].link = media[p].link,
           UNCHANGED <<link, readings, blurred, connected, hour, linked>>, ticks' \in 0 .. MaxTicks,
           manual' \in 0 .. MaxManual, troubles' \in 0 .. MaxTroubles
    PROVE  MetricsInv'
<1>1. blurred \subseteq blurred' /\ blurred' \subseteq Posts
    BY DEF MetricsInv, MetricsTypeOK
<1>2. \A p, w : ~Marking(job[j], p, w)
    BY DEF Marking
<1>. QED BY <1>1, <1>2, OtherJob, QuietStep

LEMMA BoundsAre ==
    MetricsInv => /\ linked \in 0 .. MaxLinks /\ ticks \in 0 .. MaxTicks
                  /\ manual \in 0 .. MaxManual /\ troubles \in 0 .. MaxTroubles
                  /\ media \in [Posts -> MediaRec] /\ link \in [Posts -> Nat]
BY DEF MetricsInv, MetricsTypeOK

LEMMA SpoilIs == ASSUME MetricsInv, Spoil(1) PROVE troubles' \in 0 .. MaxTroubles
<1>1. troubles \in 0 .. MaxTroubles /\ troubles + 1 <= MaxTroubles /\ troubles' = troubles + 1
      /\ MaxTroubles \in Nat
    BY BoundsAre, MetricsConstants DEF Spoil
<1>. QED BY <1>1

LEMMA UpToIs == ASSUME NEW n, NEW S, NEW T \in UpTo(n, S) PROVE T \subseteq S
BY DEF UpTo, kSubset

LEMMA RegisterKeeps ==
    ASSUME MetricsInv, NEW j \in Workers, RegisterNewLiveLinks(j)
    PROVE  MetricsInv'
<1>0. j \in Jobs /\ j \notin Staff
    BY SMTT(30), MetricsConstants DEF Jobs
<1>1. PICK subs \in UpTo(ResolveBatch, NeedRegistration) :
        LET mine == {p \in Posts : p[1] \in subs /\ link[p] # 0}
        IN  job' = [job EXCEPT ![j] = [Idle EXCEPT
                      !.at = "register", !.todo = mine, !.seen = [p \in mine |-> Seed(link[p])]]]
    BY DEF RegisterNewLiveLinks
<1>2. PICK mine : mine = {p \in Posts : p[1] \in subs /\ link[p] # 0}
    OBVIOUS
<1>3. PICK seen : seen = [p \in mine |-> Seed(link[p])]
    OBVIOUS
<1>4. mine \in SUBSET Posts
    BY <1>2
<1>5. seen \in [mine -> MediaRec] /\ \A p \in mine : seen[p].windows = {}
    BY <1>3, <1>4, SeedIs, BoundsAre
<1>6. seen \in SeenLists /\ DOMAIN seen = mine
    BY <1>4, <1>5, ListIs
<1>7. PICK m : m = [Idle EXCEPT !.at = "register", !.todo = mine, !.seen = seen]
    OBVIOUS
<1>8. m \in JobRec /\ m.at = "register" /\ m.todo = mine /\ m.seen = seen
    BY <1>4, <1>6, <1>7, IdleIs DEF JobRec
<1>9. JobStands(j, m)
    BY <1>0, <1>5, <1>6, <1>8 DEF JobStands, Listing, OnPost
<1>10. job' = [job EXCEPT ![j] = m]
    BY <1>1, <1>2, <1>3, <1>7
<1>11. ticks \in 0 .. MaxTicks /\ ticks' = ticks + 1 /\ ticks < MaxTicks /\ MaxTicks \in Nat
    BY BoundsAre, MetricsConstants DEF RegisterNewLiveLinks
<1>12. ticks' \in 0 .. MaxTicks
    BY <1>11
<1>. QED BY <1>0, <1>8, <1>9, <1>10, <1>12, BoundsAre, AsideStep DEF RegisterNewLiveLinks

LEMMA PendingKeeps ==
    ASSUME MetricsInv, NEW j \in Workers, FindPending(j)
    PROVE  MetricsInv'
<1>0. j \in Jobs /\ j \notin Staff
    BY MetricsConstants DEF Jobs
<1>1. PICK batch \in UpTo(ResolveBatch, Pending) :
         job' = [job EXCEPT ![j] = [Idle EXCEPT !.at = "resolve", !.todo = batch]]
    BY DEF FindPending
<1>2. batch \in SUBSET Posts
    BY UpToIs DEF Pending
<1>3. PICK m : m = [Idle EXCEPT !.at = "resolve", !.todo = batch]
    OBVIOUS
<1>4. m \in JobRec /\ m.at = "resolve"
    BY <1>2, <1>3, IdleIs DEF JobRec
<1>5. JobStands(j, m)
    BY <1>0, <1>4 DEF JobStands, Listing, OnPost
<1>. QED BY <1>0, <1>1, <1>3, <1>4, <1>5, BoundsAre, AsideStep DEF FindPending, metricsBounds

LEMMA ResolveNextKeeps ==
    ASSUME MetricsInv, NEW j \in Workers, ResolveNext(j)
    PROVE  MetricsInv'
<1>0. j \in Jobs /\ j \notin Staff
    BY MetricsConstants DEF Jobs
<1>1. PICK p \in job[j].todo :
        job' = [job EXCEPT ![j].at = "ask", ![j].post = p, ![j].todo = @ \ {p}]
    BY DEF ResolveNext
<1>2. job[j] \in JobRec /\ job[j].todo \in SUBSET Posts
    BY <1>0, JobIs
<1>3. PICK todo \in SUBSET Posts : todo = job[j].todo \ {p}
    BY <1>2
<1>4. PICK m : m = [job[j] EXCEPT !.at = "ask", !.post = p, !.todo = todo]
    OBVIOUS
<1>5. m \in JobRec /\ m.at = "ask" /\ m.post = p /\ p \in Posts
    BY <1>2, <1>3, <1>4 DEF JobRec
<1>6. JobStands(j, m)
    BY <1>0, <1>5 DEF JobStands, Listing, OnPost
<1>7. job' = [job EXCEPT ![j] = m]
    BY <1>0, <1>1, <1>2, <1>3, <1>4 DEF JobRec, MetricsInv, MetricsTypeOK
<1>. QED BY <1>0, <1>5, <1>6, <1>7, BoundsAre, AsideStep DEF ResolveNext, metricsBounds

LEMMA AskKeepsJobs ==
    ASSUME MetricsInv, NEW j \in Jobs, job[j].at = "ask", NEW new \in MediaRec,
           job' = [job EXCEPT ![j].read = new, ![j].at = "answer"],
           UNCHANGED <<link, media, connected, hour, readings, blurred, linked, ticks, manual>>,
           troubles' \in 0 .. MaxTroubles
    PROVE  MetricsInv'
<1>1. job[j] \in JobRec /\ JobStands(j, job[j])
    BY JobIs
<1>2. PICK m : m = [job[j] EXCEPT !.read = new, !.at = "answer"]
    OBVIOUS
<1>3. m \in JobRec /\ m.at = "answer" /\ m.post = job[j].post
    BY <1>1, <1>2 DEF JobRec
<1>4. JobStands(j, m)
    BY <1>1, <1>3 DEF JobStands, Listing, OnPost
<1>5. job' = [job EXCEPT ![j] = m]
    BY <1>1, <1>2 DEF JobRec, MetricsInv, MetricsTypeOK
<1>. QED BY <1>3, <1>4, <1>5, BoundsAre, AsideStep

LEMMA PlatformKeeps ==
    ASSUME MetricsInv, NEW j \in Jobs, AskPlatform(j)
    PROVE  MetricsInv'
<1>1. /\ job[j].at = "ask"
      /\ UNCHANGED <<link, media, connected, hour, readings, blurred, linked, ticks, manual>>
    BY DEF AskPlatform
<1>2. PICK p \in Posts : p = job[j].post
    BY <1>1, JobIs DEF JobStands
<1>3. PICK row \in MediaRec : row = media[p]
    BY BoundsAre
<1>4. Resolved(row) \subseteq MediaRec
  <2>1. ASSUME NEW type \in {"STORY", "REEL"}, NEW at \in {0, Now}
        PROVE  [row EXCEPT !.status = "resolved", !.owned = TRUE, !.type = type, !.at = at] \in MediaRec
    <3>1. at \in Int
        BY NowIs
    <3>. QED BY <3>1 DEF MediaRec
  <2>. QED BY <2>1 DEF Resolved
<1>5. Failed(row) \subseteq MediaRec
    BY ZenonT(40) DEF Failed, MediaRec
<1>6. [row EXCEPT !.status = "unauthorized", !.owned = FALSE] \in MediaRec
    BY DEF MediaRec
<1>7. CASE connected /\ (\E new \in Resolved(row) : job' = [job EXCEPT ![j].read = new, ![j].at = "answer"])
           /\ UNCHANGED troubles
    BY <1>1, <1>4, <1>7, BoundsAre, AskKeepsJobs
<1>8. CASE connected /\ Spoil(1) /\ \E new \in Failed(row) \cup {row} :
             job' = [job EXCEPT ![j].read = new, ![j].at = "answer"]
    BY <1>1, <1>5, <1>8, SpoilIs, AskKeepsJobs
<1>9. CASE ~connected /\ UNCHANGED troubles
           /\ job' = [job EXCEPT ![j].at = "answer", ![j].read =
                        [row EXCEPT !.status = "unauthorized", !.owned = FALSE]]
  <2>1. PICK new \in MediaRec : new = [row EXCEPT !.status = "unauthorized", !.owned = FALSE]
      BY <1>6
  <2>2. job[j] \in JobRec
      BY JobIs
  <2>3. PICK m : m = [job[j] EXCEPT !.at = "answer", !.read = new]
      OBVIOUS
  <2>4. m = [job[j] EXCEPT !.read = new, !.at = "answer"]
      BY <2>2, <2>3 DEF JobRec
  <2>5. job' = [job EXCEPT ![j] = m]
      BY <1>9, <2>1, <2>2, <2>3 DEF JobRec, MetricsInv, MetricsTypeOK
  <2>6. job' = [job EXCEPT ![j].read = new, ![j].at = "answer"]
      BY <2>2, <2>4, <2>5 DEF JobRec, MetricsInv, MetricsTypeOK
  <2>. QED BY <1>1, <1>9, <2>6, BoundsAre, AskKeepsJobs
<1>. QED BY <1>2, <1>3, <1>7, <1>8, <1>9 DEF AskPlatform

\* An outcome names neither the link of a row nor its windows.
LEMMA ResolutionIs ==
    ASSUME MetricsInv, NEW j \in Jobs, WriteResolution(j)
    PROVE  /\ media' \in [Posts -> MediaRec]
           /\ \A o \in Posts : media'[o].windows = media[o].windows /\ media'[o].link = media[o].link
<1>1. job[j].at = "answer"
    BY DEF WriteResolution
<1>2. /\ job[j] \in JobRec /\ JobStands(j, job[j]) /\ job[j].read \in MediaRec
    BY JobIs
<1>3. PICK p \in Posts : p = job[j].post
    BY <1>1, <1>2 DEF JobStands
<1>4. PICK row \in MediaRec : row = media[p]
    BY BoundsAre
<1>5. PICK told : told = [row EXCEPT !.status = job[j].read.status, !.owned = job[j].read.owned,
                                     !.type = job[j].read.type, !.at = job[j].read.at]
    OBVIOUS
<1>6. told \in MediaRec /\ told.windows = row.windows /\ told.link = row.link
    BY <1>2, <1>5 DEF MediaRec
<1>7. PICK failed : failed = [row EXCEPT !.status = job[j].read.status, !.owned = FALSE]
    OBVIOUS
<1>8. failed \in MediaRec /\ failed.windows = row.windows /\ failed.link = row.link
    BY <1>2, <1>7 DEF MediaRec
<1>9. PICK new \in {told, row, failed} : media' = [media EXCEPT ![p] = new]
  <2>1. CASE job[j].read.status = "resolved"
    <3>1. media' = [media EXCEPT ![p] = told]
        BY <1>3, <1>4, <1>5, <2>1 DEF WriteResolution
    <3>. QED BY <3>1
  <2>2. CASE job[j].read.status = "pending"
    <3>1. media' = [media EXCEPT ![p] = row]
        BY <1>3, <1>4, <2>2 DEF WriteResolution
    <3>. QED BY <3>1
  <2>3. CASE job[j].read.status \notin {"resolved", "pending"}
    <3>1. media' = [media EXCEPT ![p] = failed]
        BY <1>3, <1>4, <1>7, <2>3 DEF WriteResolution
    <3>. QED BY <3>1
  <2>. QED BY <2>1, <2>2, <2>3
<1>. QED BY <1>4, <1>6, <1>8, <1>9, BoundsAre

LEMMA WriteResolutionKeeps ==
    ASSUME MetricsInv, NEW j \in Jobs, WriteResolution(j)
    PROVE  MetricsInv'
<1>1. /\ job[j].at = "answer" /\ job' = [job EXCEPT ![j] = AfterPost(j)]
      /\ UNCHANGED <<link, connected, hour, readings, blurred, linked, ticks, manual, troubles>>
    BY DEF WriteResolution, metricsBounds
<1>2. /\ job[j] \in JobRec /\ JobStands(j, job[j]) /\ job[j].read \in MediaRec
    BY JobIs
<1>11. PICK m : m = AfterPost(j)
    OBVIOUS
<1>12. m \in JobRec /\ JobStands(j, m) /\ m.at \in {"idle", "resolve"}
  <2>1. CASE j \in Staff
      BY <1>11, <2>1, IdleIs DEF AfterPost
  <2>2. CASE j \notin Staff
    <3>1. m = [job[j] EXCEPT !.at = "resolve", !.post = Nothing, !.read = NoMedia]
        BY <1>11, <2>2 DEF AfterPost
    <3>2. m \in JobRec /\ m.at = "resolve"
        BY <1>2, <3>1, NoMediaIs DEF JobRec
    <3>. QED BY <2>2, <3>2 DEF JobStands, Listing, OnPost
  <2>. QED BY <2>1, <2>2
<1>. QED BY <1>1, <1>11, <1>12, ResolutionIs, BoundsAre, AsideStep

\* A job with a post in hand.
LEMMA PostIs ==
    ASSUME MetricsInv, NEW j \in Jobs, OnPost(job[j])
    PROVE  /\ job[j].post \in Posts
           /\ j \in Workers => /\ job[j].post \in DOMAIN job[j].seen \ job[j].todo
                               /\ j \notin Staff /\ job[j].windows \subseteq Scheduled
           /\ j \in Staff => job[j].todo = {} /\ job[j].windows \subseteq {"manual"}
<1>1. JobStands(j, job[j]) /\ DOMAIN job[j].seen \subseteq Posts /\ Listing(job[j])
    BY JobIs, ListHas DEF OnPost, Listing
<1>2. j \in Workers \/ j \in Staff
    BY DEF Jobs
<1>. QED BY <1>1, <1>2, MetricsConstants DEF JobStands

\* Another link in a row that nobody captures.
LEMMA ResetIsSharp ==
    ASSUME MetricsInv, NEW j \in Jobs, NEW m \in JobRec, job' = [job EXCEPT ![j] = m],
           job[j].at = "register", m.at = "register", NEW p \in Posts, p \notin blurred,
           Capturing(p) = {}, media'[p].windows = {}, readings'[p] = NoReadings
    PROVE  Sharp(p)'
<1>1. Sharp(p) /\ job \in [Jobs -> JobRec]
    BY DEF MetricsInv, MetricsTypeOK
<1>2. job'[j] = m /\ \A i \in Jobs \ {j} : job'[i] = job[i]
    BY <1>1
<1>3. \A i \in Jobs : ~(job'[i].post = p /\ job'[i].at \in {"store", "mark"})
    BY <1>2 DEF Capturing
<1>4. \A i, k \in Capturing(p)' : i = k
    BY <1>3 DEF Capturing
<1>5. \A i, k \in Workers :
         Listing(job'[i]) /\ Listing(job'[k]) /\ p \in DOMAIN job'[i].seen
         /\ p \in DOMAIN job'[k].seen => i = k
    BY <1>1, <1>2 DEF Sharp, Listing, Jobs
<1>6. \A i \in Jobs : UpToDate(job'[i], p, media'[p])
    BY <1>3 DEF UpToDate
<1>7. \A w \in Scheduled : readings'[p][w] = 0 /\ w \notin media'[p].windows
                           /\ ~\E i \in Jobs : Marking(job'[i], p, w)
    BY <1>3 DEF NoReadings, Marking
<1>. QED BY <1>4, <1>5, <1>6, <1>7 DEF Sharp, UpToDate, Listing, OnPost, Marking

LEMMA UpsertMediaKeeps ==
    ASSUME MetricsInv, NEW j \in Workers, UpsertMedia(j)
    PROVE  MetricsInv'
<1>0. j \in Jobs /\ j \notin Staff
    BY MetricsConstants DEF Jobs
<1>1. job[j] \in JobRec /\ JobStands(j, job[j]) /\ job[j].seen \in SeenLists
      /\ job[j].todo \in SUBSET Posts
    BY <1>0, JobIs
<1>2. PICK p \in job[j].todo :
        LET seed == job[j].seen[p]
            new == media[p].link # seed.link
        IN  /\ job[j].at = "register"
            /\ media' = [media EXCEPT ![p] = IF new THEN seed ELSE @]
            /\ readings' = [readings EXCEPT ![p] = IF new THEN NoReadings ELSE @]
            /\ blurred' = IF new /\ (Capturing(p) # {} \/ p \in Listed) THEN blurred \cup {p}
                           ELSE blurred
            /\ job' = [job EXCEPT ![j].todo = @ \ {p}]
            /\ UNCHANGED <<link, connected, hour, skipped, metricsBounds>>
    BY DEF UpsertMedia
<1>3. p \in Posts /\ p \in DOMAIN job[j].seen /\ job[j].seen[p].windows = {}
    BY <1>1, <1>2 DEF JobStands
<1>4. PICK seed \in MediaRec : seed = job[j].seen[p]
    BY <1>1, <1>3, ListHas
<1>5. seed.windows = {}
    BY <1>3, <1>4
<1>6. PICK todo \in SUBSET Posts : todo = job[j].todo \ {p}
    BY <1>1
<1>7. PICK m : m = [job[j] EXCEPT !.todo = todo]
    OBVIOUS
<1>8. m \in JobRec /\ m.at = "register" /\ m.todo = todo /\ m.seen = job[j].seen
    BY <1>1, <1>2, <1>6, <1>7 DEF JobRec
<1>9. JobStands(j, m)
    BY <1>0, <1>1, <1>2, <1>6, <1>8 DEF JobStands, Listing, OnPost
<1>10. job' = [job EXCEPT ![j] = m]
    BY <1>0, <1>2, <1>6, <1>7 DEF JobRec, MetricsInv, MetricsTypeOK
<1>11. \A o \in Posts : Unseen(j, m, o) /\ (\A row : UpToDate(m, o, row))
                        /\ \A w : ~Marking(m, o, w) /\ ~Marking(job[j], o, w)
    BY <1>0, <1>2, <1>8, OtherJob
<1>12. NoReadings \in [Windows -> 0 .. 2]
    BY DEF NoReadings, Windows
<1>13. /\ job' \in [Jobs -> JobRec] /\ \A i \in Jobs : JobStands(i, job'[i])
    BY <1>0, <1>8, <1>9, <1>10, JobStep
<1>14. /\ media' \in [Posts -> MediaRec] /\ readings' \in [Posts -> [Windows -> 0 .. 2]]
       /\ blurred' \subseteq Posts /\ blurred \subseteq blurred'
    BY <1>2, <1>3, <1>4, <1>12 DEF MetricsInv, MetricsTypeOK
<1>15. MetricsTypeOK'
    BY <1>2, <1>13, <1>14 DEF MetricsInv, MetricsTypeOK, metricsBounds
<1>16. ASSUME NEW o \in Posts \ blurred' PROVE Sharp(o)'
  <2>1. o \in Posts /\ o \notin blurred
      BY <1>14
  <2>2. CASE o = p /\ media[p].link # seed.link
    <3>1. Capturing(o) = {}
        BY <1>2, <1>4, <1>16, <2>2
    <3>2. media'[o].windows = {} /\ readings'[o] = NoReadings
        BY <1>2, <1>4, <1>5, <2>1, <2>2 DEF MetricsInv, MetricsTypeOK
    <3>. QED BY <1>0, <1>2, <1>8, <1>10, <2>1, <3>1, <3>2, ResetIsSharp
  <2>3. CASE ~(o = p /\ media[p].link # seed.link)
    <3>1. media'[o] = media[o] /\ readings'[o] = readings[o]
        BY <1>2, <1>4, <2>1, <2>3 DEF MetricsInv, MetricsTypeOK
    <3>. QED BY <1>0, <1>8, <1>10, <1>11, <2>1, <3>1, StaysSharp
  <2>. QED BY <2>2, <2>3
<1>. QED BY <1>13, <1>15, <1>16 DEF MetricsInv, JobStands, Listing, OnPost

LEMMA CandidatesKeep ==
    ASSUME MetricsInv, NEW j \in Workers, FindCandidates(j)
    PROVE  MetricsInv'
<1>0. j \in Jobs /\ j \notin Staff
    BY MetricsConstants DEF Jobs
<1>1. PICK batch \in UpTo(CaptureBatch, Candidates) :
         /\ job' = [job EXCEPT ![j] = [Idle EXCEPT !.at = "capture", !.todo = batch, !.since = Now,
                                                !.seen = [p \in batch |-> media[p]]]]
         /\ blurred' = blurred \cup (batch \cap Listed)
    BY DEF FindCandidates
<1>2. batch \in SUBSET Posts
    BY UpToIs DEF Candidates
<1>3. PICK seen : seen = [p \in batch |-> media[p]]
    OBVIOUS
<1>4. seen \in [batch -> MediaRec] /\ \A p \in batch : seen[p] = media[p]
    BY <1>2, <1>3, BoundsAre
<1>5. seen \in SeenLists /\ DOMAIN seen = batch
    BY <1>2, <1>4, ListIs
<1>6. PICK now \in Int : now = Now
    BY NowIs
<1>7. PICK m : m = [Idle EXCEPT !.at = "capture", !.todo = batch, !.since = now, !.seen = seen]
    OBVIOUS
<1>8. Idle.windows = {} /\ Idle.window = "none"
    BY DEF Idle
<1>9. m \in JobRec /\ m.at = "capture" /\ m.todo = batch /\ m.seen = seen /\ m.windows = {}
    BY <1>2, <1>5, <1>6, <1>7, <1>8, IdleIs DEF JobRec
<1>10. JobStands(j, m)
    BY <1>0, <1>5, <1>9 DEF JobStands, Listing, OnPost
<1>11. job' = [job EXCEPT ![j] = m]
    BY <1>1, <1>3, <1>6, <1>7
<1>12. blurred \subseteq blurred' /\ blurred' \subseteq Posts
    BY <1>1, <1>2 DEF MetricsInv, MetricsTypeOK
<1>13. ASSUME NEW p \in Posts \ blurred'
       PROVE  /\ Unseen(j, m, p) /\ UpToDate(m, p, media[p])
              /\ \A w \in Scheduled : Marking(m, p, w) <=> Marking(job[j], p, w)
  <2>1. p \in batch => p \notin Listed
      BY <1>1, <1>13
  <2>2. Unseen(j, m, p)
      BY <1>5, <1>9, <2>1 DEF Unseen
  <2>3. UpToDate(m, p, media[p])
      BY <1>4, <1>9 DEF UpToDate, OnPost
  <2>4. job[j].at = "resolve"
      BY DEF FindCandidates
  <2>. QED BY <1>9, <2>2, <2>3, <2>4 DEF Marking
<1>14. /\ media' \in [Posts -> MediaRec] /\ readings' = readings
       /\ UNCHANGED <<link, media, connected, hour, linked>>
       /\ ticks' \in 0 .. MaxTicks /\ manual' \in 0 .. MaxManual /\ troubles' \in 0 .. MaxTroubles
    BY BoundsAre DEF FindCandidates, metricsBounds
<1>. QED BY <1>0, <1>9, <1>10, <1>11, <1>12, <1>13, <1>14, QuietStep

LEMMA CaptureNextKeeps ==
    ASSUME MetricsInv, NEW j \in Workers, CaptureNext(j)
    PROVE  MetricsInv'
<1>0. j \in Jobs /\ j \notin Staff
    BY MetricsConstants DEF Jobs
<1>1. job[j] \in JobRec /\ JobStands(j, job[j]) /\ job[j].seen \in SeenLists
      /\ job[j].todo \in SUBSET Posts
    BY <1>0, JobIs
<1>2. PICK p \in job[j].todo :
        /\ job[j].at = "capture" /\ job[j].windows = {}
        /\ job' = [job EXCEPT ![j].post = p, ![j].todo = @ \ {p},
                              ![j].windows = DueWindows(job[j].seen[p], Now)]
        /\ UNCHANGED <<link, media, connected, hour, readings, blurred, skipped, metricsBounds>>
    BY DEF CaptureNext
<1>3. p \in Posts /\ job[j].todo \subseteq DOMAIN job[j].seen
    BY <1>0, <1>1, <1>2 DEF JobStands, Listing
<1>4. PICK due : due = DueWindows(job[j].seen[p], Now)
    OBVIOUS
<1>5. due \subseteq Scheduled /\ due \cap job[j].seen[p].windows = {}
    BY <1>4 DEF DueWindows, Scheduled
<1>6. due \in SUBSET Windows
    BY <1>5, WindowsAre
<1>7. PICK todo \in SUBSET Posts : todo = job[j].todo \ {p}
    BY <1>1
<1>8. PICK m : m = [job[j] EXCEPT !.post = p, !.todo = todo, !.windows = due]
    OBVIOUS
<1>9. /\ m \in JobRec /\ m.at = "capture" /\ m.post = p /\ m.todo = todo /\ m.windows = due
      /\ m.seen = job[j].seen
    BY <1>1, <1>2, <1>3, <1>6, <1>7, <1>8 DEF JobRec
<1>10. JobStands(j, m)
    BY <1>0, <1>2, <1>3, <1>5, <1>7, <1>9 DEF JobStands, Listing, OnPost
<1>11. job' = [job EXCEPT ![j] = m]
    BY <1>0, <1>2, <1>4, <1>7, <1>8 DEF JobRec, MetricsInv, MetricsTypeOK
<1>12. ASSUME NEW o \in Posts \ blurred
       PROVE  /\ Unseen(j, m, o) /\ UpToDate(m, o, media[o])
              /\ \A w \in Scheduled : Marking(m, o, w) <=> Marking(job[j], o, w)
  <2>1. UpToDate(job[j], o, media[o])
      BY <1>0, <1>12 DEF MetricsInv, Sharp
  <2>2. Unseen(j, m, o)
      BY <1>2, <1>9 DEF Unseen, Listing
  <2>3. p = o => media[o].windows \cap Scheduled \subseteq job[j].seen[o].windows
      BY <1>2, <2>1 DEF UpToDate, Listing
  <2>4. UpToDate(m, o, media[o])
      BY <1>2, <1>5, <1>7, <1>9, <2>1, <2>3 DEF UpToDate, Listing
  <2>. QED BY <1>2, <1>9, <2>2, <2>4 DEF Marking
<1>13. /\ media' \in [Posts -> MediaRec] /\ readings' = readings
       /\ UNCHANGED <<link, media, connected, hour, linked, blurred>> /\ blurred \subseteq Posts
       /\ ticks' \in 0 .. MaxTicks /\ manual' \in 0 .. MaxManual /\ troubles' \in 0 .. MaxTroubles
    BY <1>2, BoundsAre DEF MetricsInv, MetricsTypeOK, metricsBounds
<1>. QED BY <1>0, <1>9, <1>10, <1>11, <1>12, <1>13, QuietStep

LEMMA EndTickKeeps ==
    ASSUME MetricsInv, NEW j \in Workers, EndTick(j)
    PROVE  MetricsInv'
BY IdleIs, BoundsAre, AsideStep DEF EndTick, Jobs, metricsBounds

\* A job that has done with a window without a reading.
LEMMA GivesUpKeeps ==
    ASSUME MetricsInv, NEW j \in Jobs, job[j].at = "capture", NEW w \in job[j].windows,
           job' = [job EXCEPT ![j] = GivenUp(j, w)],
           media' \in [Posts -> MediaRec],
           \A p \in Posts : media'[p].windows = media[p].windows /\ media'[p].link = media[p].link,
           UNCHANGED <<link, connected, hour, readings, blurred, linked, ticks, manual>>,
           troubles' \in 0 .. MaxTroubles
    PROVE  MetricsInv'
<1>1. job[j] \in JobRec /\ JobStands(j, job[j]) /\ job[j].windows \in SUBSET Windows
    BY JobIs
<1>2. blurred \subseteq blurred' /\ blurred' \subseteq Posts /\ readings' = readings
      /\ ticks' \in 0 .. MaxTicks /\ manual' \in 0 .. MaxManual
      /\ UNCHANGED <<link, connected, hour, linked>>
    BY BoundsAre DEF MetricsInv, MetricsTypeOK
<1>3. CASE j \in Staff
  <2>1. job' = [job EXCEPT ![j] = Idle]
      BY <1>3 DEF GivenUp
  <2>. QED BY <1>2, <2>1, IdleIs, BoundsAre, AsideStep
<1>4. CASE j \notin Staff
  <2>1. PICK left \in SUBSET Windows : left = job[j].windows \ {w}
      BY <1>1
  <2>2. PICK m : m = [job[j] EXCEPT !.windows = left, !.quiet = FALSE]
      OBVIOUS
  <2>3. /\ m \in JobRec /\ m.at = "capture" /\ m.windows = left /\ m.todo = job[j].todo
        /\ m.seen = job[j].seen /\ m.post = job[j].post
      BY <1>1, <2>1, <2>2 DEF JobRec
  <2>4. job' = [job EXCEPT ![j] = m]
    <3>1. GivenUp(j, w) = m
        BY <1>1, <1>4, <2>1, <2>2 DEF JobRec, GivenUp
    <3>. QED BY <3>1
  <2>5. JobStands(j, m)
      BY <1>1, <1>4, <2>1, <2>3 DEF JobStands, Listing, OnPost
  <2>6. ASSUME NEW o \in Posts \ blurred
        PROVE  /\ Unseen(j, m, o) /\ UpToDate(m, o, media[o])
               /\ \A v \in Scheduled : Marking(m, o, v) <=> Marking(job[j], o, v)
    <3>1. UpToDate(job[j], o, media[o])
        BY <2>6 DEF MetricsInv, Sharp
    <3>2. Unseen(j, m, o)
        BY <2>3 DEF Unseen, Listing
    <3>3. UpToDate(m, o, media[o])
        BY <2>1, <2>3, <3>1 DEF UpToDate, Listing, OnPost
    <3>. QED BY <2>3, <3>2, <3>3 DEF Marking
  <2>. QED BY <1>2, <2>3, <2>4, <2>5, <2>6, QuietStep
<1>. QED BY <1>3, <1>4

LEMMA UnauthorizedIs ==
    ASSUME MetricsInv, NEW p \in Posts, media' = [media EXCEPT ![p].status = "unauthorized"]
    PROVE  /\ media' \in [Posts -> MediaRec]
           /\ \A o \in Posts : media'[o].windows = media[o].windows /\ media'[o].link = media[o].link
<1>1. PICK row \in MediaRec : row = media[p]
    BY BoundsAre
<1>2. PICK new : new = [row EXCEPT !.status = "unauthorized"]
    OBVIOUS
<1>3. new \in MediaRec /\ new.windows = row.windows /\ new.link = row.link
    BY <1>2 DEF MediaRec
<1>4. media' = [media EXCEPT ![p] = new]
    BY <1>1, <1>2
<1>. QED BY <1>1, <1>3, <1>4, BoundsAre

LEMMA FetchKeeps ==
    ASSUME MetricsInv, NEW j \in Jobs, Fetch(j)
    PROVE  MetricsInv'
<1>1. /\ job[j].at = "capture"
      /\ UNCHANGED <<link, connected, hour, readings, skipped, linked, ticks, manual>>
    BY DEF Fetch
<1>2. PICK w \in job[j].windows :
        LET p == job[j].post
            unauthorized == media' = [media EXCEPT ![p].status = "unauthorized"]
        IN   \/ /\ media[p].status # "resolved" \/ ~connected
                /\ IF media[p].status # "resolved" THEN UNCHANGED media ELSE unauthorized
                /\ job' = [job EXCEPT ![j] = GivenUp(j, w)]
                /\ UNCHANGED <<blurred, troubles>>
             \/ /\ media[p].status = "resolved" /\ connected
                /\ job' = [job EXCEPT ![j] = [OneWindow(j, w) EXCEPT !.at = "store"]]
                /\ blurred' = IF Capturing(p) = {} THEN blurred ELSE blurred \cup {p}
                /\ UNCHANGED <<media, troubles>>
             \/ /\ media[p].status = "resolved" /\ connected /\ Spoil(1)
                /\ unauthorized \/ UNCHANGED media
                /\ job' = [job EXCEPT ![j] = GivenUp(j, w)]
                /\ UNCHANGED blurred
    BY DEF Fetch
<1>3. OnPost(job[j])
    BY <1>1 DEF OnPost
<1>4. PICK p \in Posts : p = job[j].post
    BY <1>3, PostIs
<1>5. CASE /\ media' = [media EXCEPT ![p].status = "unauthorized"] \/ UNCHANGED media
           /\ job' = [job EXCEPT ![j] = GivenUp(j, w)]
           /\ UNCHANGED blurred
           /\ UNCHANGED troubles \/ Spoil(1)
  <2>1. troubles' \in 0 .. MaxTroubles
      BY <1>5, SpoilIs, BoundsAre
  <2>2. /\ media' \in [Posts -> MediaRec]
        /\ \A o \in Posts : media'[o].windows = media[o].windows /\ media'[o].link = media[o].link
    <3>1. CASE media' = [media EXCEPT ![p].status = "unauthorized"]
        BY <3>1, UnauthorizedIs
    <3>2. CASE UNCHANGED media
        BY <3>2, BoundsAre
    <3>. QED BY <1>5, <3>1, <3>2
  <2>. QED BY <1>1, <1>5, <2>1, <2>2, GivesUpKeeps
<1>6. CASE /\ job' = [job EXCEPT ![j] = [OneWindow(j, w) EXCEPT !.at = "store"]]
           /\ blurred' = IF Capturing(p) = {} THEN blurred ELSE blurred \cup {p}
           /\ UNCHANGED <<media, troubles>>
  <2>1. job[j] \in JobRec /\ JobStands(j, job[j]) /\ job[j].windows \in SUBSET Windows
      BY JobIs
  <2>2. PICK left \in SUBSET Windows : left = job[j].windows \ {w}
      BY <2>1
  <2>3. PICK row \in MediaRec : row = media[p]
      BY BoundsAre
  <2>4. PICK m : m = [job[j] EXCEPT !.windows = left, !.window = w, !.read = row, !.at = "store"]
      OBVIOUS
  <2>5. /\ m \in JobRec /\ m.at = "store" /\ m.windows = left /\ m.todo = job[j].todo
        /\ m.seen = job[j].seen /\ m.post = p /\ m.window = w /\ m.read = row
      BY <1>4, <2>1, <2>2, <2>3, <2>4 DEF JobRec
  <2>6. [OneWindow(j, w) EXCEPT !.at = "store"] = m
      BY <1>4, <2>1, <2>2, <2>3, <2>4 DEF OneWindow, JobRec
  <2>7. job' = [job EXCEPT ![j] = m]
      BY <1>6, <2>6
  <2>8. JobStands(j, m)
    <3>1. j \in Workers => w \in Scheduled /\ left \subseteq Scheduled
                           /\ p \in DOMAIN job[j].seen \ job[j].todo
        BY <1>3, <1>4, <2>2, PostIs
    <3>2. j \in Staff => w = "manual" /\ left \subseteq {"manual"} /\ job[j].todo = {}
        BY <1>3, <2>2, PostIs
    <3>3. j \in Workers => job[j].todo \subseteq DOMAIN job[j].seen
        BY <1>1, <2>1 DEF JobStands, Listing
    <3>4. (j \in Workers /\ j \notin Staff) \/ (j \in Staff /\ j \notin Workers)
        BY MetricsConstants DEF Jobs
    <3>5. w \notin left
        BY <2>2
    <3>. QED BY <2>5, <3>1, <3>2, <3>3, <3>4, <3>5 DEF JobStands, Listing, OnPost
  <2>9. blurred \subseteq blurred' /\ blurred' \subseteq Posts
      BY <1>6 DEF MetricsInv, MetricsTypeOK
  <2>10. ASSUME NEW o \in Posts \ blurred'
         PROVE  /\ Unseen(j, m, o) /\ UpToDate(m, o, media[o])
                /\ \A v \in Scheduled : Marking(m, o, v) <=> Marking(job[j], o, v)
    <3>1. UpToDate(job[j], o, media[o])
        BY <2>9, <2>10 DEF MetricsInv, Sharp
    <3>2. o = p => Capturing(o) = {}
        BY <1>6, <2>10
    <3>3. Unseen(j, m, o)
        BY <1>1, <2>5, <3>2 DEF Unseen, Listing
    <3>4. UpToDate(m, o, media[o])
        BY <1>1, <1>3, <1>4, <2>2, <2>3, <2>5, <3>1 DEF UpToDate, Listing, OnPost
    <3>. QED BY <1>1, <2>5, <3>3, <3>4 DEF Marking
  <2>11. /\ media' \in [Posts -> MediaRec] /\ readings' = readings
         /\ UNCHANGED <<link, media, connected, hour, linked>>
         /\ ticks' \in 0 .. MaxTicks /\ manual' \in 0 .. MaxManual /\ troubles' \in 0 .. MaxTroubles
      BY <1>1, <1>6, BoundsAre
  <2>. QED BY <2>5, <2>7, <2>8, <2>9, <2>10, <2>11, QuietStep
<1>. QED BY <1>2, <1>4, <1>5, <1>6

LEMMA SnapshotKeeps ==
    ASSUME MetricsInv, NEW j \in Jobs, CreateSnapshot(j)
    PROVE  MetricsInv'
<1>1. /\ job[j].at = "store" /\ job' = [job EXCEPT ![j].at = "mark"]
      /\ UNCHANGED <<link, media, connected, hour, blurred, linked, ticks, manual, troubles>>
    BY DEF CreateSnapshot, Become, metricsBounds
<1>2. PICK p \in Posts : p = job[j].post
    BY <1>1, PostIs DEF OnPost
<1>3. job[j] \in JobRec /\ JobStands(j, job[j]) /\ job \in [Jobs -> JobRec]
    BY JobIs DEF MetricsInv, MetricsTypeOK
<1>4. PICK w : w = job[j].window
    OBVIOUS
<1>5. w \in Windows
    BY <1>1, <1>3, <1>4, WindowsAre DEF JobStands
<1>6. PICK m : m = [job[j] EXCEPT !.at = "mark"]
    OBVIOUS
<1>7. /\ m \in JobRec /\ m.at = "mark" /\ m.post = p /\ m.window = w /\ m.todo = job[j].todo
      /\ m.seen = job[j].seen /\ m.windows = job[j].windows /\ m.read = job[j].read
    BY <1>2, <1>3, <1>4, <1>6 DEF JobRec
<1>8. job' = [job EXCEPT ![j] = m]
    BY <1>1, <1>3, <1>6
<1>9. JobStands(j, m)
    BY <1>1, <1>2, <1>3, <1>4, <1>7 DEF JobStands, Listing, OnPost
<1>10. PICK mine \in BOOLEAN : mine = (media[p].link = job[j].read.link)
    OBVIOUS
<1>11. PICK n : n = IF mine /\ readings[p][w] < 2 THEN readings[p][w] + 1 ELSE readings[p][w]
    OBVIOUS
<1>12. readings' = [readings EXCEPT ![p][w] = n]
    BY <1>2, <1>4, <1>10, <1>11 DEF CreateSnapshot
<1>13. readings \in [Posts -> [Windows -> 0 .. 2]] /\ readings[p][w] \in 0 .. 2
    BY <1>5 DEF MetricsInv, MetricsTypeOK
<1>14. n \in 0 .. 2
    BY <1>11, <1>13
<1>15. /\ readings' \in [Posts -> [Windows -> 0 .. 2]] /\ readings'[p][w] = n
       /\ \A v \in Windows \ {w} : readings'[p][v] = readings[p][v]
       /\ \A o \in Posts \ {p} : readings'[o] = readings[o]
  <2>1. PICK f : f = [readings[p] EXCEPT ![w] = n]
      OBVIOUS
  <2>2. f \in [Windows -> 0 .. 2] /\ f[w] = n /\ \A v \in Windows \ {w} : f[v] = readings[p][v]
      BY <1>5, <1>13, <1>14, <2>1
  <2>3. readings' = [readings EXCEPT ![p] = f]
      BY <1>12, <2>1
  <2>. QED BY <1>13, <2>2, <2>3
<1>16. /\ job' \in [Jobs -> JobRec] /\ job'[j] = m /\ \A i \in Jobs \ {j} : job'[i] = job[i]
       /\ \A i \in Jobs : JobStands(i, job'[i])
    BY <1>7, <1>8, <1>9, JobStep
<1>17. MetricsTypeOK'
    BY <1>1, <1>15, <1>16 DEF MetricsInv, MetricsTypeOK
<1>18. ASSUME NEW o \in Posts \ blurred PROVE Sharp(o)'
  <2>1. Sharp(o) /\ UpToDate(job[j], o, media[o])
      BY <1>18 DEF MetricsInv, Sharp
  <2>2. Unseen(j, m, o) /\ UpToDate(m, o, media[o])
    <3>1. Unseen(j, m, o)
        BY <1>1, <1>2, <1>7 DEF Unseen, Listing, Capturing
    <3>2. Listing(m) /\ Listing(job[j]) /\ OnPost(m) /\ OnPost(job[j])
        BY <1>1, <1>7 DEF Listing, OnPost
    <3>3. UpToDate(m, o, media[o])
        BY <1>1, <1>2, <1>4, <1>7, <2>1, <3>2 DEF UpToDate
    <3>. QED BY <3>1, <3>3
  <2>3. CASE o # p
    <3>1. \A v \in Scheduled : Marking(m, o, v) <=> Marking(job[j], o, v)
        BY <1>2, <1>7, <2>3 DEF Marking
    <3>. QED BY <1>1, <1>7, <1>8, <1>15, <1>18, <2>2, <2>3, <3>1, StaysSharp
  <2>4. CASE o = p
    <3>1. j \in Capturing(p) /\ \A i \in Capturing(p) : i = j
        BY <1>1, <1>2, <2>1, <2>4 DEF Sharp, Capturing
    <3>2. \A i \in Jobs, v \in Windows : ~Marking(job[i], p, v)
        BY <1>1, <3>1 DEF Marking, Capturing
    <3>3. \A v \in Windows : (\E i \in Jobs : Marking(job'[i], p, v)) <=> v = w
        BY <1>7, <1>16, <3>2 DEF Marking
    <3>4. w \in Scheduled => mine /\ w \notin media[p].windows
        BY <1>1, <1>2, <1>4, <1>10, <2>1, <2>4 DEF UpToDate
    <3>5. ASSUME NEW v \in Scheduled
          PROVE  /\ readings'[p][v] \in {0, 1}
                 /\ readings'[p][v] = 1 <=>
                      v \in media'[p].windows \/ \E i \in Jobs : Marking(job'[i], p, v)
      <4>1. v \in Windows
          BY WindowsAre
      <4>2. readings[p][v] \in {0, 1} /\ (readings[p][v] = 1 <=> v \in media[p].windows)
          BY <2>1, <2>4, <3>2, <4>1 DEF Sharp
      <4>3. CASE v = w
        <5>1. readings[p][w] = 0 /\ mine
            BY <3>4, <4>2, <4>3
        <5>2. n = 1
            BY <1>11, <5>1
        <5>. QED BY <1>15, <3>3, <4>1, <4>3, <5>2
      <4>4. CASE v # w
          BY <1>1, <1>15, <3>3, <4>1, <4>2, <4>4
      <4>. QED BY <4>3, <4>4
    <3>6. \A i, k \in Capturing(p)' : i = k
        BY <1>7, <1>16, <3>1 DEF Capturing
    <3>7. \A i, k \in Workers :
             Listing(job'[i]) /\ Listing(job'[k]) /\ p \in DOMAIN job'[i].seen
             /\ p \in DOMAIN job'[k].seen => i = k
      <4>1. \A i \in Jobs : Listing(job'[i]) <=> Listing(job[i])
          BY <1>1, <1>7, <1>16 DEF Listing
      <4>2. \A i \in Jobs : job'[i].seen = job[i].seen
          BY <1>7, <1>16
      <4>. QED BY <2>1, <2>4, <4>1, <4>2 DEF Sharp, Jobs
    <3>8. \A i \in Jobs : UpToDate(job'[i], p, media'[p])
        BY <1>1, <1>16, <2>1, <2>2, <2>4 DEF Sharp
    <3>. QED BY <2>4, <3>5, <3>6, <3>7, <3>8 DEF Sharp, UpToDate, Listing, OnPost, Marking
  <2>. QED BY <2>3, <2>4
<1>. QED BY <1>1, <1>16, <1>17, <1>18 DEF MetricsInv, JobStands, Listing, OnPost

LEMMA MarkKeeps ==
    ASSUME MetricsInv, NEW j \in Jobs, MarkCaptured(j)
    PROVE  MetricsInv'
<1>1. /\ job[j].at = "mark"
      /\ UNCHANGED <<link, readings, connected, hour, blurred, linked, ticks, manual, troubles>>
    BY DEF MarkCaptured, metricsBounds
<1>2. PICK p \in Posts : p = job[j].post
    BY <1>1, PostIs DEF OnPost
<1>3. job[j] \in JobRec /\ JobStands(j, job[j]) /\ job \in [Jobs -> JobRec]
      /\ job[j].read \in MediaRec
    BY JobIs DEF MetricsInv, MetricsTypeOK
<1>4. PICK w : w = job[j].window
    OBVIOUS
<1>5. /\ w \in Windows /\ (j \in Staff => w = "manual")
    BY <1>1, <1>3, <1>4, WindowsAre, MetricsConstants DEF JobStands
<1>6. PICK m : m = IF j \in Staff THEN Idle
                   ELSE [job[j] EXCEPT !.at = "capture", !.window = "none", !.read = NoMedia]
    OBVIOUS
<1>7. /\ m \in JobRec /\ m.at \in {"idle", "capture"}
      /\ m.at = "capture" => /\ m.post = p /\ m.todo = job[j].todo /\ m.seen = job[j].seen
                             /\ m.windows = job[j].windows /\ j \notin Staff
    BY <1>2, <1>3, <1>6, IdleIs, NoMediaIs DEF JobRec
<1>8. job' = [job EXCEPT ![j] = m]
    BY <1>3, <1>6 DEF MarkCaptured
<1>9. JobStands(j, m)
  <2>1. CASE m.at = "idle"
      BY <2>1 DEF JobStands, Listing, OnPost
  <2>2. CASE m.at = "capture"
      BY <1>1, <1>2, <1>3, <1>7, <2>2 DEF JobStands, Listing, OnPost
  <2>. QED BY <1>7, <2>1, <2>2
<1>10. PICK row \in MediaRec : row = media[p]
    BY BoundsAre
<1>11. PICK windows \in SUBSET Windows : windows = job[j].read.windows \cup {w}
    BY <1>3, <1>5 DEF MediaRec
<1>12. PICK new : new = [row EXCEPT !.windows = windows]
    OBVIOUS
<1>13. new \in MediaRec /\ new.windows = windows /\ new.link = row.link
    BY <1>12 DEF MediaRec
<1>14. media' = [media EXCEPT ![p] = new]
    BY <1>2, <1>4, <1>10, <1>11, <1>12 DEF MarkCaptured
<1>15. media' \in [Posts -> MediaRec] /\ media'[p] = new
       /\ \A o \in Posts \ {p} : media'[o] = media[o]
    BY <1>13, <1>14, BoundsAre
<1>16. /\ job' \in [Jobs -> JobRec] /\ job'[j] = m /\ \A i \in Jobs \ {j} : job'[i] = job[i]
       /\ \A i \in Jobs : JobStands(i, job'[i])
    BY <1>7, <1>8, <1>9, JobStep
<1>17. MetricsTypeOK'
    BY <1>1, <1>15, <1>16 DEF MetricsInv, MetricsTypeOK
<1>18. ASSUME NEW o \in Posts \ blurred PROVE Sharp(o)'
  <2>1. Sharp(o) /\ UpToDate(job[j], o, media[o])
      BY <1>18 DEF MetricsInv, Sharp
  <2>2. Unseen(j, m, o)
      BY <1>1, <1>7 DEF Unseen, Listing
  <2>3. CASE o # p
    <3>1. \A v \in Scheduled : Marking(m, o, v) <=> Marking(job[j], o, v)
        BY <1>2, <1>7, <2>3 DEF Marking
    <3>2. UpToDate(m, o, media[o])
        BY <1>1, <1>2, <1>7, <2>1, <2>3 DEF UpToDate, Listing, OnPost
    <3>. QED BY <1>1, <1>7, <1>8, <1>15, <1>18, <2>2, <2>3, <3>1, <3>2, StaysSharp
  <2>4. CASE o = p
    <3>1. j \in Capturing(p) /\ \A i \in Capturing(p) : i = j
        BY <1>1, <1>2, <2>1, <2>4 DEF Sharp, Capturing
    <3>2. windows = row.windows \cup {w}
        BY <1>1, <1>2, <1>10, <1>11, <2>1, <2>4 DEF UpToDate
    <3>3. \A i \in Jobs, v \in Windows : ~Marking(job'[i], p, v)
        BY <1>7, <1>16, <3>1 DEF Marking, Capturing
    <3>4. \A v \in Windows : (\E i \in Jobs : Marking(job[i], p, v)) <=> v = w
      <4>1. \A i \in Jobs, v \in Windows : Marking(job[i], p, v) => i = j
          BY <3>1 DEF Marking, Capturing
      <4>2. \A v \in Windows : Marking(job[j], p, v) <=> v = w
          BY <1>1, <1>2, <1>4 DEF Marking
      <4>. QED BY <4>1, <4>2
    <3>5. ASSUME NEW v \in Scheduled
          PROVE  /\ readings'[p][v] \in {0, 1}
                 /\ readings'[p][v] = 1 <=>
                      v \in media'[p].windows \/ \E i \in Jobs : Marking(job'[i], p, v)
      <4>1. v \in Windows
          BY WindowsAre
      <4>2. readings[p][v] \in {0, 1} /\ (readings[p][v] = 1 <=> v \in row.windows \/ v = w)
          BY <1>10, <2>1, <2>4, <3>4, <4>1 DEF Sharp
      <4>. QED BY <1>1, <1>13, <1>15, <3>2, <3>3, <4>1, <4>2
    <3>6. \A i, k \in Capturing(p)' : i = k
        BY <1>7, <1>16, <3>1 DEF Capturing
    <3>7. \A i, k \in Workers :
             Listing(job'[i]) /\ Listing(job'[k]) /\ p \in DOMAIN job'[i].seen
             /\ p \in DOMAIN job'[k].seen => i = k
      <4>1. \A i \in Jobs : Listing(job'[i]) => Listing(job[i]) /\ job'[i].seen = job[i].seen
          BY <1>1, <1>7, <1>16 DEF Listing
      <4>. QED BY <2>1, <2>4, <4>1 DEF Sharp, Jobs
    <3>8. ASSUME NEW i \in Jobs PROVE UpToDate(job'[i], p, media'[p])
      <4>1. job'[i].at \notin {"store", "mark"} \/ job'[i].post # p
          BY <1>7, <1>16, <3>1 DEF Capturing
      <4>2. media'[p].windows = row.windows \cup {w}
          BY <1>13, <1>15, <3>2
      <4>3. UpToDate(job[i], p, row)
          BY <1>10, <2>1, <2>4 DEF Sharp
      <4>4. CASE i = j
        <5>1. p \notin job[j].todo \/ job[j].todo = {}
            BY <1>1, <1>2, PostIs DEF OnPost, Jobs
        <5>2. w \notin job[j].windows
            BY <1>1, <1>3, <1>4 DEF JobStands
        <5>3. row.windows \cap job[j].windows \cap Scheduled = {}
            BY <1>1, <1>2, <4>3, <4>4 DEF UpToDate, OnPost
        <5>. QED BY <1>7, <1>16, <4>1, <4>2, <4>4, <5>1, <5>2, <5>3 DEF UpToDate, Listing, OnPost
      <4>5. CASE i # j /\ j \in Staff
        <5>1. media'[p].windows \cap Scheduled = row.windows \cap Scheduled
            BY <1>5, <4>2, <4>5, WindowsAre
        <5>2. job'[i] = job[i]
            BY <1>16, <4>5
        <5>. QED BY <4>1, <4>3, <5>1, <5>2 DEF UpToDate
      <4>6. CASE i # j /\ j \in Workers
        <5>1. job'[i] = job[i]
            BY <1>16, <4>6
        <5>2. p \in DOMAIN job[j].seen
            BY <1>1, <1>2, <4>6, PostIs DEF OnPost
        <5>3. CASE i \in Workers
          <6>1. ~(Listing(job[i]) /\ p \in DOMAIN job[i].seen)
              BY <1>1, <2>1, <2>4, <4>6, <5>2, <5>3 DEF Sharp, Listing
          <6>2. Listing(job[i]) => p \notin job[i].todo
              BY <5>3, <6>1, JobIs DEF JobStands
          <6>3. OnPost(job[i]) => job[i].post # p
              BY <5>3, <6>1, PostIs DEF OnPost, Listing
          <6>. QED BY <5>1, <6>2, <6>3 DEF UpToDate, OnPost
        <5>4. CASE i \in Staff
          <6>1. Listing(job[i]) => job[i].todo = {} /\ job[i].windows \subseteq {"manual"}
              BY <5>4, JobIs DEF JobStands
          <6>2. job[i].windows \cap Scheduled = {} \/ ~OnPost(job[i])
              BY <6>1, WindowsAre DEF OnPost, Listing
          <6>. QED BY <4>1, <5>1, <6>1, <6>2 DEF UpToDate, OnPost
        <5>. QED BY <5>3, <5>4 DEF Jobs
      <4>. QED BY <4>4, <4>5, <4>6 DEF Jobs
    <3>. QED BY <2>4, <3>5, <3>6, <3>7, <3>8 DEF Sharp, UpToDate, Listing, OnPost, Marking
  <2>. QED BY <2>3, <2>4
<1>. QED BY <1>1, <1>16, <1>17, <1>18 DEF MetricsInv, JobStands, Listing, OnPost

LEMMA AskStaffKeeps ==
    ASSUME MetricsInv, NEW j \in Staff, NEW p \in Posts, ResolveAgain(j, p) \/ CaptureNow(j, p)
    PROVE  MetricsInv'
<1>0. j \in Jobs /\ j \notin Workers
    BY MetricsConstants DEF Jobs
<1>1. PICK m : /\ m \in {[Idle EXCEPT !.at = "ask", !.post = p],
                         [Idle EXCEPT !.at = "capture", !.post = p, !.windows = {"manual"}]}
               /\ AskStaff(j, p, m)
    BY DEF ResolveAgain, CaptureNow
<1>2. Idle.todo = {} /\ Idle.windows = {}
    BY DEF Idle
<1>3. /\ m \in JobRec /\ m.post = p /\ m.at \in {"ask", "capture"} /\ m.todo = {}
      /\ m.windows \subseteq {"manual"} /\ (m.at = "ask" => m.windows = {})
  <2>1. {"manual"} \in SUBSET Windows /\ Idle \in JobRec
      BY IdleIs, WindowsAre
  <2>2. CASE m = [Idle EXCEPT !.at = "ask", !.post = p]
      BY <1>2, <2>1, <2>2 DEF JobRec
  <2>3. CASE m = [Idle EXCEPT !.at = "capture", !.post = p, !.windows = {"manual"}]
    <3>1. PICK set \in SUBSET Windows : set = {"manual"}
        BY <2>1
    <3>2. m = [Idle EXCEPT !.at = "capture", !.post = p, !.windows = set]
        BY <2>3, <3>1
    <3>3. m \in JobRec /\ m.post = p /\ m.at = "capture" /\ m.todo = {} /\ m.windows = set
        BY <1>2, <2>1, <3>2 DEF JobRec
    <3>. QED BY <3>1, <3>3
  <2>. QED BY <1>1, <2>2, <2>3
<1>4. JobStands(j, m)
    BY <1>0, <1>3 DEF JobStands, Listing, OnPost
<1>5. /\ job[j].at = "idle" /\ job' = [job EXCEPT ![j] = m]
      /\ UNCHANGED <<link, media, connected, hour, readings, blurred, linked, ticks, troubles>>
      /\ manual < MaxManual /\ manual' = manual + 1
    BY <1>1 DEF AskStaff
<1>6. manual' \in 0 .. MaxManual
  <2>1. manual \in 0 .. MaxManual /\ MaxManual \in Nat
      BY BoundsAre, MetricsConstants
  <2>. QED BY <1>5, <2>1
<1>7. ASSUME NEW o \in Posts \ blurred
      PROVE  /\ Unseen(j, m, o) /\ UpToDate(m, o, media[o])
             /\ \A w \in Scheduled : Marking(m, o, w) <=> Marking(job[j], o, w)
  <2>1. Unseen(j, m, o)
      BY <1>0, <1>3 DEF Unseen
  <2>2. m.windows \cap Scheduled = {}
      BY <1>3, WindowsAre
  <2>3. UpToDate(m, o, media[o])
      BY <1>3, <2>2 DEF UpToDate
  <2>. QED BY <1>3, <1>5, <2>1, <2>3 DEF Marking
<1>8. /\ media' \in [Posts -> MediaRec] /\ blurred \subseteq blurred' /\ blurred' \subseteq Posts
      /\ ticks' \in 0 .. MaxTicks /\ troubles' \in 0 .. MaxTroubles
    BY <1>5, BoundsAre DEF MetricsInv, MetricsTypeOK
<1>. QED BY <1>0, <1>3, <1>4, <1>5, <1>6, <1>7, <1>8, QuietStep

LEMMA CutJobKeeps ==
    ASSUME MetricsInv, NEW j \in Jobs, CutJob(j)
    PROVE  MetricsInv'
<1>1. /\ Spoil(1) /\ job' = [job EXCEPT ![j] = Idle]
      /\ blurred' = IF job[j].at = "mark" THEN blurred \cup {job[j].post} ELSE blurred
      /\ UNCHANGED <<link, media, connected, hour, readings, linked, ticks, manual>>
    BY DEF CutJob
<1>2. job[j].at = "mark" => job[j].post \in Posts
    BY PostIs DEF OnPost
<1>3. blurred \subseteq blurred' /\ blurred' \subseteq Posts
    BY <1>1, <1>2 DEF MetricsInv, MetricsTypeOK
<1>4. ASSUME NEW o \in Posts \ blurred'
      PROVE  /\ Unseen(j, Idle, o) /\ UpToDate(Idle, o, media[o])
             /\ \A w \in Scheduled : Marking(Idle, o, w) <=> Marking(job[j], o, w)
  <2>1. \A w : ~Marking(job[j], o, w)
      BY <1>1, <1>4 DEF Marking
  <2>2. Unseen(j, Idle, o) /\ \A w : ~Marking(Idle, o, w)
      BY IdleIs DEF Unseen, Listing, Marking
  <2>. QED BY <2>1, <2>2, IdleIs
<1>5. /\ media' \in [Posts -> MediaRec] /\ troubles' \in 0 .. MaxTroubles
      /\ ticks' \in 0 .. MaxTicks /\ manual' \in 0 .. MaxManual
    BY <1>1, BoundsAre, SpoilIs
<1>. QED BY <1>1, <1>3, <1>4, <1>5, IdleIs, QuietStep

\* A step of the creator, or of time.
LEMMA AroundKeeps ==
    ASSUME MetricsInv, UNCHANGED <<media, job, readings, blurred, ticks, manual>>,
           link' \in [Posts -> Nat], connected' \in BOOLEAN, hour' \in 1 .. Len(Instants),
           linked' \in 0 .. MaxLinks, troubles' \in 0 .. MaxTroubles
    PROVE  MetricsInv'
<1>1. MetricsTypeOK'
    BY DEF MetricsInv, MetricsTypeOK
<1>2. \A p \in Posts \ blurred : Sharp(p)'
    BY DEF MetricsInv, Sharp, Capturing, UpToDate, Listing, OnPost, Marking
<1>. QED BY <1>1, <1>2 DEF MetricsInv, JobStands, Listing, OnPost

LEMMA CreatorKeeps ==
    ASSUME MetricsInv, (\E p \in Posts : SubmitLink(p)) \/ Reconnect \/ Later
    PROVE  MetricsInv'
<1>1. /\ link \in [Posts -> Nat] /\ connected \in BOOLEAN /\ hour \in 1 .. Len(Instants)
      /\ linked \in 0 .. MaxLinks /\ troubles \in 0 .. MaxTroubles /\ MaxLinks \in Nat
    BY MetricsConstants DEF MetricsInv, MetricsTypeOK
<1>2. ASSUME NEW p \in Posts, SubmitLink(p) PROVE MetricsInv'
  <2>1. linked < MaxLinks /\ linked' = linked + 1 /\ link' = [link EXCEPT ![p] = @ + 1]
        /\ UNCHANGED <<media, connected, hour, job, readings, blurred, ticks, manual, troubles>>
      BY <1>2 DEF SubmitLink
  <2>2. linked' \in 0 .. MaxLinks /\ link' \in [Posts -> Nat]
      BY <1>1, <2>1
  <2>. QED BY <1>1, <2>1, <2>2, AroundKeeps
<1>3. CASE Reconnect
  <2>1. troubles' \in 0 .. MaxTroubles
      BY <1>1, <1>3, SpoilIs DEF Reconnect
  <2>2. connected' \in BOOLEAN
      BY <1>3 DEF Reconnect
  <2>. QED BY <1>1, <1>3, <2>1, <2>2, AroundKeeps DEF Reconnect
<1>4. CASE Later
  <2>1. Len(Instants) \in Nat
      BY MetricsConstants
  <2>2. hour < Len(Instants) /\ hour' = hour + 1
      BY <1>4 DEF Later
  <2>3. hour' \in 1 .. Len(Instants)
      BY <1>1, <2>1, <2>2
  <2>. QED BY <1>1, <1>4, <2>3, AroundKeeps DEF Later, metricsBounds
<1>. QED BY <1>2, <1>3, <1>4

LEMMA MetricsInit == InitMetrics => MetricsInv
<1>. SUFFICES ASSUME InitMetrics PROVE MetricsInv
    OBVIOUS
<1>1. Len(Instants) \in Nat /\ 1 \in 1 .. Len(Instants)
    BY MetricsConstants
<1>2. job \in [Jobs -> JobRec] /\ \A j \in Jobs : job[j] = Idle
    BY IdleIs DEF InitMetrics
<1>3. media \in [Posts -> MediaRec] /\ \A p \in Posts : media[p].windows = {}
    BY NoMediaIs DEF InitMetrics
<1>4. NoReadings \in [Windows -> 0 .. 2] /\ \A w \in Scheduled : NoReadings[w] = 0
    BY DEF NoReadings, Windows
<1>5. readings \in [Posts -> [Windows -> 0 .. 2]] /\ \A p \in Posts : readings[p] = NoReadings
    BY <1>4 DEF InitMetrics
<1>6. MetricsTypeOK
    BY <1>1, <1>2, <1>3, <1>5, MetricsConstants DEF InitMetrics, MetricsTypeOK
<1>7. ASSUME NEW p \in Posts PROVE Sharp(p)
  <2>1. \A j \in Jobs : job[j].at = "idle"
      BY <1>2, IdleIs
  <2>2. \A j \in Jobs : ~Listing(job[j]) /\ UpToDate(job[j], p, media[p]) /\ \A w : ~Marking(job[j], p, w)
      BY <1>2, <2>1, IdleIs DEF Listing, Marking
  <2>. QED BY <1>3, <1>4, <1>5, <2>1, <2>2 DEF Sharp, Capturing, Jobs
<1>. QED BY <1>2, <1>6, <1>7, IdleIs DEF MetricsInv

LEMMA MetricsNext == MetricsInv /\ [NextMetrics]_metricsVars => MetricsInv'
<1>. SUFFICES ASSUME MetricsInv, [NextMetrics]_metricsVars PROVE MetricsInv'
    OBVIOUS
<1>1. CASE UNCHANGED metricsVars
  <2>1. UNCHANGED <<link, media, connected, hour, job, readings, blurred, linked, ticks, manual,
                    troubles>>
      BY <1>1 DEF metricsVars, metricsBounds
  <2>. QED BY <2>1, AroundKeeps DEF MetricsInv, MetricsTypeOK
<1>2. CASE (\E p \in Posts : SubmitLink(p)) \/ Reconnect \/ Later
    BY <1>2, CreatorKeeps
<1>3. ASSUME NEW j \in Workers,
             \/ RegisterNewLiveLinks(j) \/ UpsertMedia(j) \/ FindPending(j) \/ ResolveNext(j)
             \/ FindCandidates(j) \/ CaptureNext(j) \/ EndTick(j)
      PROVE  MetricsInv'
    BY <1>3, RegisterKeeps, UpsertMediaKeeps, PendingKeeps, ResolveNextKeeps, CandidatesKeep,
       CaptureNextKeeps, EndTickKeeps
<1>4. ASSUME NEW j \in Staff, NEW p \in Posts, ResolveAgain(j, p) \/ CaptureNow(j, p)
      PROVE  MetricsInv'
    BY <1>4, AskStaffKeeps
<1>5. ASSUME NEW j \in Jobs,
             \/ AskPlatform(j) \/ WriteResolution(j)
             \/ Fetch(j) \/ CreateSnapshot(j) \/ MarkCaptured(j) \/ CutJob(j)
      PROVE  MetricsInv'
    BY <1>5, PlatformKeeps, WriteResolutionKeeps, FetchKeeps, SnapshotKeeps, MarkKeeps, CutJobKeeps
<1>. QED BY <1>1, <1>2, <1>3, <1>4, <1>5 DEF NextMetrics

\* The rows of posts, the locals of the ticks and the readings keep their shape.
THEOREM MetricsTypeCorrect == SpecMetrics => []MetricsTypeOK
<1>1. MetricsInv => MetricsTypeOK
    BY DEF MetricsInv
<1>. QED BY <1>1, MetricsInit, MetricsNext, PTL DEF SpecMetrics

\* A scheduled reading of a post is taken once, through failures, retries and ticks that
\* overlap elsewhere, and no window counts as captured that has no snapshot, whatever the
\* number of posts, workers, ticks and requests of staff (post-metrics.service.ts:85-118).
THEOREM ReadingsTakenOnce == SpecMetrics => []ReadOnce
<1>1. MetricsInv => ReadOnce
    BY DEF MetricsInv, ReadOnce, Sharp
<1>. QED BY <1>1, MetricsInit, MetricsNext, PTL DEF SpecMetrics

-----------------------------------------------------------------------------
(* What a tick owes.                                                       *)

\* Windows of post p that job m has yet to take.
InHand(m, p) ==
    {w \in Windows : /\ m.post = p
                     /\ w \in m.windows \/ (m.at \in {"store", "mark"} /\ w = m.window)}

\* A quiet tick has taken what was due of a post when it listed it, or has it in hand.
Served(m, p, row) ==
    Listing(m) /\ m.quiet /\ p \in DOMAIN m.seen \ m.todo =>
        DueWindows(m.seen[p], m.since) \subseteq row.windows \cup InHand(m, p)

TickInv ==
    /\ skipped = {} /\ \A j \in Jobs : job[j].since <= Now
    /\ \A j \in Workers : \A p \in Posts \ blurred : Served(job[j], p, media[p])

LEMMA TickInit == InitMetrics => TickInv
<1>. SUFFICES ASSUME InitMetrics PROVE TickInv
    OBVIOUS
<1>1. Now \in Nat
    BY MetricsInit, NowIs
<1>2. \A j \in Jobs : job[j] = Idle
    BY DEF InitMetrics
<1>3. Idle.since = 0 /\ Idle.at = "idle"
    BY DEF Idle
<1>4. \A j \in Jobs : job[j].since <= Now
    BY <1>1, <1>2, <1>3
<1>5. \A j \in Jobs, p \in Posts : Served(job[j], p, media[p])
    BY <1>2, <1>3 DEF Served, Listing
<1>. QED BY <1>4, <1>5 DEF TickInv, InitMetrics, Jobs

\* A step of one job, by which no post loses windows that another has listed.
LEMMA TickStep ==
    ASSUME MetricsInv, TickInv, NEW j \in Jobs, NEW m, job' = [job EXCEPT ![j] = m], m.since <= Now,
           hour' = hour, skipped' = {}, blurred \subseteq blurred',
           \A p \in Posts \ blurred' : p \in Listed => media[p].windows \subseteq media'[p].windows,
           j \in Workers => \A p \in Posts \ blurred' : Served(m, p, media'[p])
    PROVE  TickInv'
<1>1. job'[j] = m /\ \A i \in Jobs \ {j} : job'[i] = job[i]
    BY DEF MetricsInv, MetricsTypeOK
<1>2. \A i \in Jobs : job'[i].since <= Now'
    BY <1>1 DEF TickInv, Now
<1>3. ASSUME NEW i \in Workers, NEW p \in Posts \ blurred' PROVE Served(job'[i], p, media'[p])
  <2>1. CASE i = j
      BY <1>1, <1>3, <2>1
  <2>2. CASE i # j
    <3>1. job'[i] = job[i] /\ Served(job[i], p, media[p])
        BY <1>1, <2>2 DEF TickInv, Jobs
    <3>2. Listing(job[i]) /\ p \in DOMAIN job[i].seen => p \in Listed
        BY DEF Listing, Listed
    <3>. QED BY <3>1, <3>2 DEF Served
  <2>. QED BY <2>1, <2>2
<1>. QED BY <1>2, <1>3 DEF TickInv

\* A step of a job to where it lists no posts.
LEMMA AsideTick ==
    ASSUME MetricsInv, TickInv, NEW j \in Jobs, NEW m, job' = [job EXCEPT ![j] = m], m.since <= Now,
           ~Listing(m) \/ j \in Staff, hour' = hour, skipped' = {}, blurred \subseteq blurred',
           \A p \in Posts \ blurred' : p \in Listed => media[p].windows \subseteq media'[p].windows
    PROVE  TickInv'
<1>1. j \in Workers => ~Listing(m)
    BY MetricsConstants
<1>. QED BY <1>1, TickStep DEF Served

LEMMA SinceIs ==
    ASSUME MetricsInv, TickInv, NEW j \in Jobs
    PROVE  /\ Idle.since <= Now /\ job[j].since <= Now /\ Now \in Int /\ job[j].since \in Int
           /\ ~Listing(Idle) /\ skipped = {}
<1>1. Idle.since = 0 /\ Idle.at = "idle"
    BY DEF Idle
<1>. QED BY <1>1, NowIs, JobIs DEF TickInv, JobRec, Listing

LEMMA RegisterTicks ==
    ASSUME MetricsInv, TickInv, NEW j \in Workers,
           RegisterNewLiveLinks(j) \/ FindPending(j)
    PROVE  TickInv'
<1>0. j \in Jobs
    BY DEF Jobs
<1>1. CASE RegisterNewLiveLinks(j)
  <2>1. PICK subs \in UpTo(ResolveBatch, NeedRegistration) :
          LET mine == {p \in Posts : p[1] \in subs /\ link[p] # 0}
          IN  job' = [job EXCEPT ![j] = [Idle EXCEPT
                        !.at = "register", !.todo = mine, !.seen = [p \in mine |-> Seed(link[p])]]]
      BY <1>1 DEF RegisterNewLiveLinks
  <2>2. PICK mine : mine = {p \in Posts : p[1] \in subs /\ link[p] # 0}
      OBVIOUS
  <2>3. PICK seen : seen = [p \in mine |-> Seed(link[p])]
      OBVIOUS
  <2>4. PICK m : m = [Idle EXCEPT !.at = "register", !.todo = mine, !.seen = seen]
      OBVIOUS
  <2>5. m.at = "register" /\ m.since = Idle.since
      BY <2>4, IdleIs DEF JobRec
  <2>6. job' = [job EXCEPT ![j] = m]
      BY <2>1, <2>2, <2>3, <2>4
  <2>7. ~Listing(m) /\ m.since <= Now
      BY SMTT(30), <1>0, <2>5, SinceIs DEF Listing
  <2>8. hour' = hour /\ skipped' = {} /\ blurred' = blurred /\ media' = media
      BY <1>0, <1>1, SinceIs DEF RegisterNewLiveLinks
  <2>. QED BY <1>0, <2>6, <2>7, <2>8, AsideTick
<1>2. CASE FindPending(j)
  <2>1. PICK batch \in UpTo(ResolveBatch, Pending) :
           job' = [job EXCEPT ![j] = [Idle EXCEPT !.at = "resolve", !.todo = batch]]
      BY <1>2 DEF FindPending
  <2>2. PICK m : m = [Idle EXCEPT !.at = "resolve", !.todo = batch]
      OBVIOUS
  <2>3. m.at = "resolve" /\ m.since = Idle.since
      BY <2>2, IdleIs DEF JobRec
  <2>4. ~Listing(m) /\ m.since <= Now
      BY <1>0, <2>3, SinceIs DEF Listing
  <2>5. hour' = hour /\ skipped' = {} /\ blurred' = blurred /\ media' = media
      BY <1>0, <1>2, SinceIs DEF FindPending
  <2>. QED BY <1>0, <2>1, <2>2, <2>4, <2>5, AsideTick
<1>. QED BY <1>1, <1>2

LEMMA UpsertTicks ==
    ASSUME MetricsInv, TickInv, NEW j \in Workers, UpsertMedia(j)
    PROVE  TickInv'
<1>0. j \in Jobs
    BY DEF Jobs
<1>1. PICK p \in job[j].todo :
        LET seed == job[j].seen[p]
            new == media[p].link # seed.link
        IN  /\ job[j].at = "register"
            /\ media' = [media EXCEPT ![p] = IF new THEN seed ELSE @]
            /\ readings' = [readings EXCEPT ![p] = IF new THEN NoReadings ELSE @]
            /\ blurred' = IF new /\ (Capturing(p) # {} \/ p \in Listed) THEN blurred \cup {p}
                           ELSE blurred
            /\ job' = [job EXCEPT ![j].todo = @ \ {p}]
            /\ UNCHANGED <<link, connected, hour, skipped, metricsBounds>>
    BY DEF UpsertMedia
<1>2. PICK todo : todo = job[j].todo \ {p}
    OBVIOUS
<1>3. PICK m : m = [job[j] EXCEPT !.todo = todo]
    OBVIOUS
<1>4. m.at = "register" /\ m.since = job[j].since
    BY <1>0, <1>1, <1>3, JobIs DEF JobRec
<1>5. job' = [job EXCEPT ![j] = m]
    BY <1>0, <1>1, <1>2, <1>3, JobIs DEF JobRec, MetricsInv, MetricsTypeOK
<1>6. ~Listing(m) /\ m.since <= Now
    BY <1>0, <1>4, SinceIs DEF Listing
<1>7. hour' = hour /\ skipped' = {} /\ blurred \subseteq blurred'
    BY <1>0, <1>1, SinceIs
<1>8. ASSUME NEW o \in Posts \ blurred', o \in Listed PROVE media'[o] = media[o]
  <2>1. o = p => media[p].link = job[j].seen[p].link
      BY <1>1, <1>8
  <2>. QED BY <1>1, <2>1, BoundsAre
<1>. QED BY <1>0, <1>5, <1>6, <1>7, <1>8, AsideTick

LEMMA ResolveTicks ==
    ASSUME MetricsInv, TickInv, NEW j \in Jobs,
           ResolveNext(j) \/ AskPlatform(j) \/ WriteResolution(j) \/ CutJob(j)
    PROVE  TickInv'
<1>0. job[j] \in JobRec /\ job \in [Jobs -> JobRec]
    BY JobIs DEF MetricsInv, MetricsTypeOK
<1>1. CASE ResolveNext(j)
  <2>1. PICK p \in job[j].todo :
          job' = [job EXCEPT ![j].at = "ask", ![j].post = p, ![j].todo = @ \ {p}]
      BY <1>1 DEF ResolveNext
  <2>2. PICK todo : todo = job[j].todo \ {p}
      OBVIOUS
  <2>3. PICK m : m = [job[j] EXCEPT !.at = "ask", !.post = p, !.todo = todo]
      OBVIOUS
  <2>4. m.at = "ask" /\ m.since = job[j].since
      BY <1>0, <2>3 DEF JobRec
  <2>5. job' = [job EXCEPT ![j] = m]
      BY <1>0, <2>1, <2>2, <2>3 DEF JobRec
  <2>6. ~Listing(m) /\ m.since <= Now
      BY <2>4, SinceIs DEF Listing
  <2>7. hour' = hour /\ skipped' = {} /\ blurred' = blurred /\ media' = media
      BY <1>1, SinceIs DEF ResolveNext
  <2>. QED BY <2>5, <2>6, <2>7, AsideTick
<1>2. CASE AskPlatform(j)
  <2>1. PICK new : \/ job' = [job EXCEPT ![j].read = new, ![j].at = "answer"]
                   \/ job' = [job EXCEPT ![j].at = "answer", ![j].read = new]
      BY <1>2 DEF AskPlatform
  <2>2. PICK m : /\ m \in {[job[j] EXCEPT !.read = new, !.at = "answer"],
                           [job[j] EXCEPT !.at = "answer", !.read = new]}
                 /\ job' = [job EXCEPT ![j] = m]
      BY <1>0, <2>1 DEF JobRec
  <2>3. m.at = "answer" /\ m.since = job[j].since
      BY <1>0, <2>2 DEF JobRec
  <2>4. ~Listing(m) /\ m.since <= Now
      BY <2>3, SinceIs DEF Listing
  <2>5. hour' = hour /\ skipped' = {} /\ blurred' = blurred /\ media' = media
      BY <1>2, SinceIs DEF AskPlatform
  <2>. QED BY <2>2, <2>4, <2>5, AsideTick
<1>3. CASE WriteResolution(j)
  <2>1. PICK m : m = AfterPost(j)
      OBVIOUS
  <2>2. ~Listing(m) /\ m.since <= Now
    <3>1. CASE j \in Staff
        BY <2>1, <3>1, SinceIs DEF AfterPost
    <3>2. CASE j \notin Staff
      <4>1. m = [job[j] EXCEPT !.at = "resolve", !.post = Nothing, !.read = NoMedia]
          BY <2>1, <3>2 DEF AfterPost
      <4>2. m.at = "resolve" /\ m.since = job[j].since
          BY <1>0, <4>1 DEF JobRec
      <4>. QED BY <4>2, SinceIs DEF Listing
    <3>. QED BY <3>1, <3>2
  <2>3. hour' = hour /\ skipped' = {} /\ blurred' = blurred /\ job' = [job EXCEPT ![j] = m]
      BY <1>3, <2>1, SinceIs DEF WriteResolution
  <2>. QED BY <1>3, <2>2, <2>3, ResolutionIs, AsideTick
<1>4. CASE CutJob(j)
  <2>1. /\ hour' = hour /\ skipped' = {} /\ blurred \subseteq blurred' /\ media' = media
        /\ job' = [job EXCEPT ![j] = Idle]
      BY <1>4, SinceIs DEF CutJob
  <2>. QED BY <2>1, SinceIs, AsideTick
<1>. QED BY <1>1, <1>2, <1>3, <1>4

\* What is due grows with time.
LEMMA DueGrows ==
    ASSUME NEW row \in MediaRec, NEW now \in Int, NEW since \in Int, since <= now
    PROVE  DueWindows(row, since) \subseteq DueWindows(row, now)
<1>1. row.at \in Int
    BY DEF MediaRec
<1>2. CaptureWindows.t24h \in Int /\ CaptureWindows.t7d \in Int /\ CaptureWindows.t30d \in Int
      /\ DOMAIN CaptureWindows = {"t24h", "t7d", "t30d"} /\ StoryOffset \in Int
    BY DEF CaptureWindows, StoryOffset, Day
<1>3. \A w \in DOMAIN CaptureWindows : CaptureWindows[w] \in Int
    BY <1>2 DEF CaptureWindows, Day
<1>4. \A n \in Int : since - row.at >= n => now - row.at >= n
    BY <1>1
<1>. QED BY <1>2, <1>3, <1>4 DEF DueWindows

LEMMA ListTicks ==
    ASSUME MetricsInv, TickInv, NEW j \in Workers, FindCandidates(j)
    PROVE  TickInv'
<1>0. j \in Jobs
    BY DEF Jobs
<1>1. PICK batch \in UpTo(CaptureBatch, Candidates) :
         /\ job' = [job EXCEPT ![j] = [Idle EXCEPT !.at = "capture", !.todo = batch, !.since = Now,
                                                !.seen = [p \in batch |-> media[p]]]]
         /\ blurred' = blurred \cup (batch \cap Listed)
    BY DEF FindCandidates
<1>2. PICK seen : seen = [p \in batch |-> media[p]]
    OBVIOUS
<1>3. PICK now \in Int : now = Now
    BY NowIs
<1>4. PICK m : m = [Idle EXCEPT !.at = "capture", !.todo = batch, !.since = now, !.seen = seen]
    OBVIOUS
<1>5. m.at = "capture" /\ m.todo = batch /\ m.seen = seen /\ m.since = now
    BY <1>4, IdleIs DEF JobRec
<1>6. job' = [job EXCEPT ![j] = m]
    BY <1>1, <1>2, <1>3, <1>4
<1>7. DOMAIN m.seen = m.todo /\ m.since <= Now
    BY <1>2, <1>3, <1>5
<1>8. hour' = hour /\ skipped' = {} /\ media' = media /\ blurred \subseteq blurred'
    BY <1>0, <1>1, SinceIs DEF FindCandidates
<1>. QED BY <1>0, <1>6, <1>7, <1>8, TickStep DEF Served

LEMMA CaptureTicks ==
    ASSUME MetricsInv, TickInv, NEW j \in Workers, CaptureNext(j)
    PROVE  TickInv'
<1>0. j \in Jobs
    BY DEF Jobs
<1>1. job[j] \in JobRec /\ JobStands(j, job[j]) /\ job[j].seen \in SeenLists
      /\ job[j].todo \in SUBSET Posts
    BY <1>0, JobIs
<1>2. PICK p \in job[j].todo :
        /\ job[j].at = "capture" /\ job[j].windows = {}
        /\ job' = [job EXCEPT ![j].post = p, ![j].todo = @ \ {p},
                              ![j].windows = DueWindows(job[j].seen[p], Now)]
        /\ UNCHANGED <<link, media, connected, hour, readings, blurred, skipped, metricsBounds>>
    BY DEF CaptureNext
<1>3. p \in Posts /\ p \in DOMAIN job[j].seen /\ job[j].seen[p] \in MediaRec
    BY <1>0, <1>1, <1>2, ListHas DEF JobStands, Listing
<1>4. PICK due : due = DueWindows(job[j].seen[p], Now)
    OBVIOUS
<1>5. PICK todo : todo = job[j].todo \ {p}
    OBVIOUS
<1>6. PICK m : m = [job[j] EXCEPT !.post = p, !.todo = todo, !.windows = due]
    OBVIOUS
<1>7. /\ m.at = "capture" /\ m.post = p /\ m.todo = todo /\ m.windows = due
      /\ m.seen = job[j].seen /\ m.since = job[j].since /\ m.quiet = job[j].quiet
    BY <1>1, <1>2, <1>6 DEF JobRec
<1>8. job' = [job EXCEPT ![j] = m]
    BY <1>0, <1>2, <1>4, <1>5, <1>6 DEF JobRec, MetricsInv, MetricsTypeOK
<1>9. /\ hour' = hour /\ skipped' = {} /\ media' = media /\ blurred' = blurred
      /\ job[j].since <= Now /\ job[j].since \in Int /\ Now \in Int
    BY <1>0, <1>2, SinceIs
<1>10. ASSUME NEW o \in Posts \ blurred PROVE Served(m, o, media[o])
  <2>1. Served(job[j], o, media[o])
      BY <1>10 DEF TickInv
  <2>2. CASE o = p
    <3>1. DueWindows(job[j].seen[p], job[j].since) \subseteq due
        BY <1>3, <1>4, <1>9, DueGrows
    <3>2. due \subseteq Scheduled
        BY <1>4 DEF DueWindows, Scheduled
    <3>3. due \subseteq InHand(m, o)
        BY <1>7, <2>2, <3>2, WindowsAre DEF InHand
    <3>. QED BY <1>7, <2>2, <3>1, <3>3 DEF Served
  <2>3. CASE o # p
    <3>1. InHand(job[j], o) = {}
        BY <1>2 DEF InHand
    <3>2. o \notin todo => o \notin job[j].todo
        BY <1>5, <2>3
    <3>. QED BY <1>2, <1>7, <2>1, <3>1, <3>2 DEF Served, Listing
  <2>. QED BY <2>2, <2>3
<1>. QED BY <1>0, <1>7, <1>8, <1>9, <1>10, TickStep

LEMMA EndTicks ==
    ASSUME MetricsInv, TickInv, NEW j \in Workers, EndTick(j)
    PROVE  TickInv'
<1>0. j \in Jobs
    BY DEF Jobs
<1>1. /\ job[j].at = "capture" /\ job[j].todo = {} /\ job[j].windows = {}
      /\ skipped' = skipped \cup IF ~job[j].quiet THEN {} ELSE
                      {p \in DOMAIN job[j].seen \ blurred :
                        ~(DueWindows(job[j].seen[p], job[j].since) \subseteq media[p].windows)}
      /\ job' = [job EXCEPT ![j] = Idle] /\ hour' = hour /\ media' = media /\ blurred' = blurred
    BY DEF EndTick
<1>2. ASSUME job[j].quiet, NEW p \in DOMAIN job[j].seen \ blurred
      PROVE  DueWindows(job[j].seen[p], job[j].since) \subseteq media[p].windows
  <2>1. p \in Posts
      BY <1>0, JobIs, ListHas
  <2>2. Served(job[j], p, media[p])
      BY <2>1 DEF TickInv
  <2>3. InHand(job[j], p) = {}
      BY <1>1 DEF InHand
  <2>. QED BY <1>1, <1>2, <2>2, <2>3 DEF Served, Listing
<1>3. skipped' = {}
    BY <1>1, <1>2 DEF TickInv
<1>. QED BY <1>0, <1>1, <1>3, SinceIs, AsideTick

LEMMA FetchTicks ==
    ASSUME MetricsInv, TickInv, NEW j \in Jobs, Fetch(j)
    PROVE  TickInv'
<1>1. job[j].at = "capture" /\ hour' = hour /\ skipped' = {} /\ blurred \subseteq blurred'
    BY SinceIs DEF Fetch
<1>2. \A o \in Posts : media'[o].windows = media[o].windows
  <2>1. CASE UNCHANGED media
      BY <2>1
  <2>2. CASE media' = [media EXCEPT ![job[j].post].status = "unauthorized"]
    <3>1. job[j].post \in Posts \/ job[j].post \notin DOMAIN media
        BY BoundsAre
    <3>2. CASE job[j].post \in Posts
        BY <2>2, <3>2, UnauthorizedIs
    <3>3. CASE job[j].post \notin DOMAIN media
        BY <2>2, <3>3, BoundsAre
    <3>. QED BY <3>1, <3>2, <3>3
  <2>. QED BY <2>1, <2>2 DEF Fetch
<1>3. PICK w \in job[j].windows :
        \/ job' = [job EXCEPT ![j] = GivenUp(j, w)]
        \/ job' = [job EXCEPT ![j] = [OneWindow(j, w) EXCEPT !.at = "store"]]
    BY DEF Fetch
<1>4. job[j] \in JobRec /\ job[j].windows \in SUBSET Windows /\ w \in Windows
    BY JobIs
<1>5. CASE job' = [job EXCEPT ![j] = GivenUp(j, w)]
  <2>1. CASE j \in Staff
      BY <1>1, <1>2, <1>5, <2>1, SinceIs, AsideTick DEF GivenUp
  <2>2. CASE j \notin Staff
    <3>1. PICK left : left = job[j].windows \ {w}
        OBVIOUS
    <3>2. PICK m : m = [job[j] EXCEPT !.windows = left, !.quiet = FALSE]
        OBVIOUS
    <3>3. m.since = job[j].since /\ ~m.quiet
        BY <1>4, <3>2 DEF JobRec
    <3>4. job' = [job EXCEPT ![j] = m]
      <4>1. GivenUp(j, w) = m
          BY <1>4, <2>2, <3>1, <3>2 DEF JobRec, GivenUp
      <4>. QED BY <1>5, <4>1
    <3>5. m.since <= Now
        BY <3>3, SinceIs
    <3>. QED BY <1>1, <1>2, <3>3, <3>4, <3>5, TickStep DEF Served
  <2>. QED BY <2>1, <2>2
<1>6. CASE job' = [job EXCEPT ![j] = [OneWindow(j, w) EXCEPT !.at = "store"]]
  <2>1. PICK left : left = job[j].windows \ {w}
      OBVIOUS
  <2>2. PICK row : row = media[job[j].post]
      OBVIOUS
  <2>3. PICK m : m = [job[j] EXCEPT !.windows = left, !.window = w, !.read = row, !.at = "store"]
      OBVIOUS
  <2>4. /\ m.at = "store" /\ m.windows = left /\ m.window = w /\ m.post = job[j].post
        /\ m.todo = job[j].todo /\ m.seen = job[j].seen /\ m.since = job[j].since
        /\ m.quiet = job[j].quiet
      BY <1>4, <2>3 DEF JobRec
  <2>5. job' = [job EXCEPT ![j] = m]
    <3>1. [OneWindow(j, w) EXCEPT !.at = "store"] = m
        BY <1>4, <2>1, <2>2, <2>3 DEF OneWindow, JobRec
    <3>. QED BY <1>6, <3>1
  <2>6. \A o : InHand(m, o) = InHand(job[j], o)
    <3>1. \A v : v = w \/ v \in left <=> v \in job[j].windows
        BY <2>1
    <3>. QED BY <1>1, <2>4, <3>1 DEF InHand
  <2>7. ASSUME j \in Workers, NEW o \in Posts \ blurred' PROVE Served(m, o, media'[o])
    <3>1. Served(job[j], o, media[o])
        BY <1>1, <2>7 DEF TickInv
    <3>. QED BY <1>1, <1>2, <2>4, <2>6, <3>1 DEF Served, Listing
  <2>8. m.since <= Now
      BY <2>4, SinceIs
  <2>. QED BY <1>1, <1>2, <2>5, <2>7, <2>8, TickStep
<1>. QED BY <1>3, <1>5, <1>6

LEMMA SnapshotTicks ==
    ASSUME MetricsInv, TickInv, NEW j \in Jobs, CreateSnapshot(j)
    PROVE  TickInv'
<1>1. /\ job[j].at = "store" /\ job' = [job EXCEPT ![j].at = "mark"]
      /\ hour' = hour /\ skipped' = {} /\ blurred' = blurred /\ media' = media
    BY SinceIs DEF CreateSnapshot, Become
<1>2. job[j] \in JobRec /\ job \in [Jobs -> JobRec]
    BY JobIs DEF MetricsInv, MetricsTypeOK
<1>3. PICK m : m = [job[j] EXCEPT !.at = "mark"]
    OBVIOUS
<1>4. /\ m.at = "mark" /\ m.windows = job[j].windows /\ m.window = job[j].window
      /\ m.post = job[j].post /\ m.todo = job[j].todo /\ m.seen = job[j].seen
      /\ m.since = job[j].since /\ m.quiet = job[j].quiet
    BY <1>2, <1>3 DEF JobRec
<1>5. job' = [job EXCEPT ![j] = m]
    BY <1>1, <1>2, <1>3
<1>6. \A o : InHand(m, o) = InHand(job[j], o)
    BY <1>1, <1>4 DEF InHand
<1>7. ASSUME j \in Workers, NEW o \in Posts \ blurred PROVE Served(m, o, media[o])
  <2>1. Served(job[j], o, media[o])
      BY <1>7 DEF TickInv
  <2>. QED BY <1>1, <1>4, <1>6, <2>1 DEF Served, Listing
<1>8. m.since <= Now
    BY <1>4, SinceIs
<1>. QED BY <1>1, <1>5, <1>7, <1>8, TickStep

LEMMA MarkTicks ==
    ASSUME MetricsInv, TickInv, NEW j \in Jobs, MarkCaptured(j)
    PROVE  TickInv'
<1>1. /\ job[j].at = "mark" /\ hour' = hour /\ skipped' = {} /\ blurred' = blurred
    BY SinceIs DEF MarkCaptured
<1>2. PICK p \in Posts : p = job[j].post
    BY <1>1, PostIs DEF OnPost
<1>3. /\ job[j] \in JobRec /\ job \in [Jobs -> JobRec] /\ JobStands(j, job[j])
      /\ media[p] \in MediaRec
    BY JobIs, BoundsAre DEF MetricsInv, MetricsTypeOK
<1>4. PICK w : w = job[j].window
    OBVIOUS
<1>5. PICK windows : windows = job[j].read.windows \cup {w}
    OBVIOUS
<1>6. PICK new : new = [media[p] EXCEPT !.windows = windows]
    OBVIOUS
<1>7. new.windows = windows
    BY <1>3, <1>6 DEF MediaRec
<1>8. media' = [media EXCEPT ![p] = new]
    BY <1>2, <1>4, <1>5, <1>6 DEF MarkCaptured
<1>9. media'[p].windows = windows /\ \A o \in Posts \ {p} : media'[o] = media[o]
    BY <1>7, <1>8, BoundsAre
<1>10. p \notin blurred => windows = media[p].windows \cup {w}
  <2>1. p \notin blurred => UpToDate(job[j], p, media[p])
      BY DEF MetricsInv, Sharp
  <2>. QED BY <1>1, <1>2, <1>5, <2>1 DEF UpToDate
<1>11. \A o \in Posts \ blurred : media[o].windows \subseteq media'[o].windows
    BY <1>9, <1>10
<1>12. CASE j \in Staff
  <2>1. job' = [job EXCEPT ![j] = Idle]
      BY <1>3, <1>12 DEF MarkCaptured
  <2>. QED BY <1>1, <1>11, <2>1, SinceIs, AsideTick
<1>13. CASE j \notin Staff
  <2>1. PICK m : m = [job[j] EXCEPT !.at = "capture", !.window = "none", !.read = NoMedia]
      OBVIOUS
  <2>2. /\ m.at = "capture" /\ m.windows = job[j].windows
        /\ m.post = job[j].post /\ m.todo = job[j].todo /\ m.seen = job[j].seen
        /\ m.since = job[j].since /\ m.quiet = job[j].quiet
      BY <1>3, <2>1 DEF JobRec
  <2>3. job' = [job EXCEPT ![j] = m]
      BY <1>3, <1>13, <2>1 DEF MarkCaptured
  <2>4. \A o : InHand(job[j], o) \subseteq InHand(m, o) \cup (IF o = p THEN {w} ELSE {})
      BY <1>2, <1>4, <2>2 DEF InHand
  <2>5. ASSUME NEW o \in Posts \ blurred, j \in Workers PROVE Served(m, o, media'[o])
    <3>1. Served(job[j], o, media[o])
        BY <2>5 DEF TickInv
    <3>2. media[o].windows \cup InHand(job[j], o) \subseteq media'[o].windows \cup InHand(m, o)
        BY <1>9, <1>10, <1>11, <2>4, <2>5
    <3>. QED BY <1>1, <2>2, <3>1, <3>2 DEF Served, Listing
  <2>6. m.since <= Now
      BY <2>2, SinceIs
  <2>. QED BY <1>1, <1>11, <2>3, <2>5, <2>6, TickStep
<1>. QED BY <1>12, <1>13

LEMMA StaffTicks ==
    ASSUME MetricsInv, TickInv, NEW j \in Staff, NEW p \in Posts, ResolveAgain(j, p) \/ CaptureNow(j, p)
    PROVE  TickInv'
<1>0. j \in Jobs
    BY DEF Jobs
<1>1. PICK m : /\ m \in {[Idle EXCEPT !.at = "ask", !.post = p],
                         [Idle EXCEPT !.at = "capture", !.post = p, !.windows = {"manual"}]}
               /\ AskStaff(j, p, m)
    BY DEF ResolveAgain, CaptureNow
<1>2. m.since = Idle.since
    BY <1>1, IdleIs DEF JobRec
<1>3. /\ job' = [job EXCEPT ![j] = m] /\ hour' = hour /\ skipped' = {} /\ blurred' = blurred
      /\ media' = media
    BY <1>0, <1>1, SinceIs DEF AskStaff
<1>. QED BY <1>0, <1>2, <1>3, SinceIs, AsideTick

LEMMA AroundTicks ==
    ASSUME MetricsInv, TickInv,
           \/ UNCHANGED metricsVars
           \/ (\E p \in Posts : SubmitLink(p)) \/ Reconnect \/ Later
    PROVE  TickInv'
<1>1. job' = job /\ media' = media /\ blurred' = blurred /\ skipped' = skipped
    BY DEF metricsVars, SubmitLink, Reconnect, Later
<1>2. Now <= Now' /\ Now \in Int /\ Now' \in Int
  <2>1. hour \in 1 .. Len(Instants) /\ Len(Instants) \in Nat /\ DOMAIN Instants = 1 .. Len(Instants)
        /\ \A i \in DOMAIN Instants : Instants[i] \in Int
      BY SMTT(30), MetricsConstants DEF MetricsInv, MetricsTypeOK
  <2>2. CASE hour' = hour
      BY <2>1, <2>2 DEF Now
  <2>3. CASE Later
    <3>1. hour < Len(Instants) /\ hour' = hour + 1
        BY <2>3 DEF Later
    <3>2. hour' \in DOMAIN Instants /\ hour \in DOMAIN Instants /\ hour <= hour'
        BY <2>1, <3>1
    <3>. QED BY <2>1, <3>2, MetricsConstants DEF Now
  <2>. QED BY <2>2, <2>3 DEF metricsVars, SubmitLink, Reconnect
<1>3. \A j \in Jobs : job[j].since <= Now'
  <2>. SUFFICES ASSUME NEW j \in Jobs PROVE job[j].since <= Now'
      OBVIOUS
  <2>1. job[j].since <= Now /\ job[j].since \in Int
      BY SinceIs
  <2>. QED BY <1>2, <2>1
<1>. QED BY <1>1, <1>3 DEF TickInv, Served, Listing, InHand

LEMMA TickNext == MetricsInv /\ TickInv /\ [NextMetrics]_metricsVars => TickInv'
<1>. SUFFICES ASSUME MetricsInv, TickInv, [NextMetrics]_metricsVars PROVE TickInv'
    OBVIOUS
<1>1. CASE UNCHANGED metricsVars \/ (\E p \in Posts : SubmitLink(p)) \/ Reconnect \/ Later
    BY <1>1, AroundTicks
<1>2. ASSUME NEW j \in Workers,
             \/ RegisterNewLiveLinks(j) \/ UpsertMedia(j) \/ FindPending(j) \/ ResolveNext(j)
             \/ FindCandidates(j) \/ CaptureNext(j) \/ EndTick(j)
      PROVE  TickInv'
    BY <1>2, RegisterTicks, UpsertTicks, ResolveTicks, ListTicks, CaptureTicks, EndTicks DEF Jobs
<1>3. ASSUME NEW j \in Staff, NEW p \in Posts, ResolveAgain(j, p) \/ CaptureNow(j, p)
      PROVE  TickInv'
    BY <1>3, StaffTicks
<1>4. ASSUME NEW j \in Jobs,
             \/ AskPlatform(j) \/ WriteResolution(j)
             \/ Fetch(j) \/ CreateSnapshot(j) \/ MarkCaptured(j) \/ CutJob(j)
      PROVE  TickInv'
    BY <1>4, ResolveTicks, FetchTicks, SnapshotTicks, MarkTicks
<1>. QED BY <1>1, <1>2, <1>3, <1>4 DEF NextMetrics

\* A tick in which nothing failed has taken every reading that was due when it listed the
\* post, however many ticks and requests of staff are under way beside it, for any posts and
\* any hours (post-metrics.processor.ts:116-135).
THEOREM TicksServe == SpecMetrics => []TickServes
<1>1. TickInv => TickServes
    BY DEF TickInv, TickServes
<1>. QED BY <1>1, MetricsInit, MetricsNext, TickInit, TickNext, PTL DEF SpecMetrics

-----------------------------------------------------------------------------
(* Books.  A page shows the rows whose rank is on it, rank being how many  *)
(* rows come no later.  PageInv says that who has read so many pages has   *)
(* seen what was kept of the ranks on them: no write but one that is told  *)
(* of in spoiled lets a row slip to a lower rank, behind the reader.       *)

\* The flattening of a sequence of one-element sequences.
Flats(f, ss) == f = [i \in 1..Len(ss) |-> IF i = 1 THEN ss[i] ELSE f[i-1] \o ss[i]]

LEMMA FlattenIs ==
    ASSUME NEW ss
    PROVE  FlattenSeq(ss) = IF Len(ss) = 0 THEN ss ELSE (CHOOSE f : Flats(f, ss))[Len(ss)]
BY DEF FlattenSeq, Flats

LEMMA FlattenSingles ==
    ASSUME NEW S, NEW s \in Seq(S)
    PROVE  FlattenSeq([i \in DOMAIN s |-> <<s[i]>>]) = s
<1> DEFINE ss == [i \in DOMAIN s |-> <<s[i]>>]
           g == [i \in 1..Len(s) |-> SubSeq(s, 1, i)]
<1>1. Len(s) \in Nat /\ DOMAIN s = 1..Len(s) /\ \A i \in 1..Len(s) : s[i] \in S
    BY LenProperties, ElementOfSeq
<1>2. Len(ss) = Len(s)
    BY <1>1
<1>3. \A i \in 1..Len(s) : ss[i] = <<s[i]>>
    BY <1>1
<1>4. ASSUME NEW i \in 1..Len(s), i # 1
      PROVE  i - 1 \in 1..Len(s) /\ SubSeq(s, 1, i) = SubSeq(s, 1, i - 1) \o <<s[i]>>
  <2>1. 1 \in 1..Len(s) /\ i \in 1..Len(s) /\ i - 1 \in 1..Len(s)
      BY <1>1, <1>4
  <2>. QED BY <2>1, SubSeqRecursiveSecond
<1>5. ASSUME 1 \in 1..Len(s) PROVE SubSeq(s, 1, 1) = <<s[1]>>
  <2>1. SubSeq(s, 1, 1) = SubSeq(s, 1, 1 - 1) \o <<s[1]>>
      BY <1>5, SubSeqRecursiveSecond
  <2>2. SubSeq(s, 1, 0) = <<>>
      BY SubSeqEmpty
  <2>. PICK t : t = <<s[1]>>
      OBVIOUS
  <2>3. t \in Seq(S)
      BY <1>1, <1>5
  <2>4. <<>> \o t = t
      BY <2>3, ConcatEmptySeq
  <2>5. SubSeq(s, 1, 1 - 1) = <<>>
      BY <2>2
  <2>6. SubSeq(s, 1, 1) = <<>> \o t
      BY <2>1, <2>5
  <2>. QED BY <2>4, <2>6
<1>. HIDE DEF ss
<1>6. Flats(g, ss)
  <2>1. \A i \in 1..Len(s) : g[i] = IF i = 1 THEN ss[i] ELSE g[i-1] \o ss[i]
    <3>. SUFFICES ASSUME NEW i \in 1..Len(s)
                  PROVE  g[i] = IF i = 1 THEN ss[i] ELSE g[i-1] \o ss[i]
        OBVIOUS
    <3>1. CASE i = 1
        BY <1>3, <1>5, <3>1
    <3>2. CASE i # 1
      <4>1. g[i] = SubSeq(s, 1, i) /\ g[i-1] = SubSeq(s, 1, i - 1)
          BY <1>4, <3>2
      <4>. QED BY <1>3, <1>4, <3>2, <4>1
    <3>. QED BY <3>1, <3>2
  <2>2. g = [i \in 1..Len(s) |-> g[i]]
      OBVIOUS
  <2>. HIDE DEF g
  <2>3. g = [i \in 1..Len(s) |-> IF i = 1 THEN ss[i] ELSE g[i-1] \o ss[i]]
      BY <2>1, <2>2
  <2>. QED BY <1>2, <2>3 DEF Flats
<1>7. ASSUME NEW f, Flats(f, ss), NEW n \in 1..Len(s) PROVE f[n] = SubSeq(s, 1, n)
  <2>0. \A i \in 1..Len(s) : f[i] = IF i = 1 THEN ss[i] ELSE f[i-1] \o ss[i]
      BY <1>2, <1>7 DEF Flats
  <2> DEFINE T == {i \in 1..Len(s) : f[i] # SubSeq(s, 1, i)}
  <2>1. T = {}
    <3>1. SUFFICES ASSUME T # {} PROVE FALSE
        OBVIOUS
    <3>2. T \subseteq Nat
        BY <1>1
    <3>. HIDE DEF T
    <3>3. PICK m \in T : \A k \in T : m <= k
        BY <3>1, <3>2, LeastNat
    <3>. USE DEF T
    <3>4. CASE m = 1
        BY <1>3, <1>5, <2>0, <3>3, <3>4
    <3>5. CASE m # 1
      <4>1. m - 1 \in 1..Len(s) /\ SubSeq(s, 1, m) = SubSeq(s, 1, m - 1) \o <<s[m]>>
          BY <1>4, <3>5
      <4>2. m - 1 \notin T
          BY <1>1, <3>3
      <4>3. f[m-1] = SubSeq(s, 1, m - 1)
          BY <4>1, <4>2
      <4>4. f[m] = f[m-1] \o ss[m]
          BY <2>0, <3>3, <3>5
      <4>. QED BY <1>3, <3>3, <4>1, <4>3, <4>4
    <3>. QED BY <3>4, <3>5
  <2>. QED BY <2>1
<1>8. CASE Len(s) = 0
  <2>1. FlattenSeq(ss) = ss
      BY <1>2, <1>8, FlattenIs
  <2>2. s = <<>>
      BY <1>8, EmptySeq
  <2>3. ss = <<>>
      BY <2>2 DEF ss
  <2>. QED BY <2>1, <2>2, <2>3 DEF ss
<1>9. CASE Len(s) # 0
  <2>1. Flats(CHOOSE f : Flats(f, ss), ss)
      BY <1>6
  <2>. PICK f : f = CHOOSE h : Flats(h, ss)
      OBVIOUS
  <2>2. Len(s) \in 1..Len(s)
      BY <1>1, <1>9
  <2>3. f[Len(s)] = SubSeq(s, 1, Len(s))
      BY <1>7, <2>1, <2>2
  <2>4. FlattenSeq(ss) = f[Len(s)]
      BY <1>2, <1>9, FlattenIs
  <2>. QED BY <2>3, <2>4, SubSeqFull DEF ss
<1>. QED BY <1>8, <1>9

BookRec == [listed : BOOLEAN, key : Nat, fan : {1, 2}]
Readers(seen) == [at : {"idle", "asked", "gave up", "done"}, page : Nat \ {0}, counted : BOOLEAN,
                  read : BOOLEAN, pages : Nat, seen : {seen}]

\* The rows listed before r, with r, and how many they are.
Before(b, r) == {x \in DOMAIN b : b[x].listed /\ b[x].key >= b[r].key}
Rank(b, r) == Cardinality(Before(b, r))

LEMMA Divided ==
    ASSUME NEW a \in Nat, NEW d \in Nat \ {0}
    PROVE  a \div d \in Nat /\ a < ((a \div d) + 1) * d
OBVIOUS

\* So many pages hold so many rows.
LEMMA PagesHold ==
    ASSUME NEW c \in Nat, NEW n \in Nat, n >= PagesOf(c)
    PROVE  c <= n * PageLimit
<1>0. PageLimit \in Nat \ {0}
    BY BooksConstants
<1>1. PICK q \in Nat : q = PagesOf(c) /\ c + PageLimit - 1 < (q + 1) * PageLimit
  <2>1. c + PageLimit - 1 \in Nat
      BY <1>0
  <2>. QED BY <1>0, <2>1, Divided DEF PagesOf
<1>2. c <= q * PageLimit
    BY <1>0, <1>1
<1>3. q * PageLimit <= n * PageLimit
    BY <1>0, <1>1
<1>. QED BY <1>0, <1>2, <1>3

LEMMA PagesType == ASSUME NEW c \in Nat PROVE PagesOf(c) \in Nat
<1>1. PageLimit \in Nat \ {0} /\ c + PageLimit - 1 \in Nat
    BY BooksConstants
<1>. QED BY <1>1, Divided DEF PagesOf

\* A page shows the places of its number.
LEMMA OnPage ==
    ASSUME NEW n \in Nat, NEW S, NEW s \in [1..n -> S], NEW page \in Nat \ {0}, NEW i \in 1..n,
           (page - 1) * PageLimit < i, i <= page * PageLimit
    PROVE  s[i] \in Page(s, page)
<1> DEFINE m == (page - 1) * PageLimit
           hi == IF m + PageLimit < Len(s) THEN m + PageLimit ELSE Len(s)
           t == SubSeq(s, m + 1, hi)
<1>0. PageLimit \in Nat \ {0}
    BY BooksConstants
<1>1. m \in Nat /\ m + PageLimit = page * PageLimit
  <2>1. page - 1 \in Nat /\ PageLimit \in Nat
      BY <1>0
  <2>2. \A a, d \in Nat : a * d \in Nat /\ a * d + d = (a + 1) * d
      OBVIOUS
  <2>. QED BY <2>1, <2>2
<1>2. m < i
    OBVIOUS
<1>3. Page(s, page) = ToSet(t)
    BY DEF Page
<1>4. Len(s) = n
    OBVIOUS
<1>. HIDE DEF m
<1>5. hi \in Nat /\ i <= hi /\ hi <= n
    BY <1>0, <1>1, <1>4
<1>. HIDE DEF hi
<1>6. \A j \in (m + 1)..hi : s[j] \in S
    BY <1>1, <1>5
<1>7. t \in Seq(S) /\ Len(t) = hi - m /\ \A j \in 1..(hi - m) : t[j] = s[m + j]
  <2>1. m + 1 \in Int /\ hi \in Int /\ m + 1 <= hi
      BY <1>1, <1>2, <1>5
  <2>2. /\ t \in Seq(S) /\ Len(t) = hi - (m + 1) + 1
        /\ \A j \in 1..(hi - (m + 1) + 1) : t[j] = s[(m + 1) + j - 1]
      BY SMTT(30), <1>6, <2>1, SubSeqProperties
  <2>3. hi - (m + 1) + 1 = hi - m /\ \A j \in 1..(hi - m) : (m + 1) + j - 1 = m + j
      BY <1>1, <1>5
  <2>. QED BY <2>2, <2>3
<1>. HIDE DEF t
<1>8. i - m \in 1..(hi - m) /\ m + (i - m) = i
    BY <1>1, <1>2, <1>5
<1>9. DOMAIN t = 1..(hi - m) /\ t[i - m] = s[i]
    BY <1>7, <1>8, LenProperties
<1>. QED BY <1>3, <1>8, <1>9 DEF ToSet

LEMMA ListIsFinite ==
    ASSUME book \in [1..BookRows -> BookRec]
    PROVE  /\ IsFiniteSet(OnList) /\ Cardinality(OnList) \in Nat /\ OnList \subseteq 1..BookRows
           /\ \A r : Before(book, r) \subseteq OnList /\ Rank(book, r) \in Nat
                     /\ Rank(book, r) <= Cardinality(OnList)
           /\ \A r \in OnList : Rank(book, r) > 0
<1>1. IsFiniteSet(1..BookRows) /\ OnList \subseteq 1..BookRows
    BY BooksConstants, FS_Interval DEF OnList
<1>2. IsFiniteSet(OnList) /\ Cardinality(OnList) \in Nat
    BY <1>1, FS_Subset, FS_CardinalityType
<1>3. \A r : Before(book, r) \subseteq OnList
    BY DEF Before, OnList
<1>4. \A r : /\ IsFiniteSet(Before(book, r)) /\ Cardinality(Before(book, r)) \in Nat
             /\ Cardinality(Before(book, r)) <= Cardinality(OnList)
    BY <1>2, <1>3, FS_Subset, FS_CardinalityType
<1>5. ASSUME NEW r \in OnList PROVE Rank(book, r) > 0
  <2>1. r \in Before(book, r)
      BY DEF Before, OnList, BookRec
  <2>2. Cardinality(Before(book, r)) # 0
      BY <1>4, <2>1, FS_EmptySet
  <2>. QED BY <1>4, <2>2 DEF Rank
<1>. QED BY <1>1, <1>2, <1>3, <1>4, <1>5 DEF Rank

\* Without ties a row comes at the place of its rank.
LEMMA InOrder ==
    ASSUME book \in [1..BookRows -> BookRec], NEW s \in Ordered(OnList),
           \A x, y \in OnList : x # y => book[x].key # book[y].key,
           NEW r \in OnList
    PROVE  /\ s \in [1..Cardinality(OnList) -> OnList]
           /\ Rank(book, r) \in 1..Cardinality(OnList) /\ s[Rank(book, r)] = r
<1> DEFINE n == Cardinality(OnList)
<1>1. n \in Nat /\ IsFiniteSet(OnList) /\ OnList \subseteq 1..BookRows
    BY ListIsFinite
<1>2. /\ s \in [1..n -> OnList] /\ \A i, j \in 1..n : i # j => s[i] # s[j]
      /\ \A i, j \in 1..n : i < j => book[s[i]].key >= book[s[j]].key
    BY DEF Ordered, SetToSeqs
<1>. HIDE DEF n
<1>3. IsFiniteSet(1..n) /\ Cardinality(1..n) = n
    BY <1>1, FS_Interval
<1>4. s \in Injection(1..n, OnList)
    BY <1>2 DEF Injection, IsInjective
<1>5. s \in Surjection(1..n, OnList)
    BY <1>1, <1>3, <1>4, FS_Injection DEF n
<1>6. PICK i \in 1..n : s[i] = r
    BY <1>5 DEF Surjection
<1>7. \A x \in OnList : book[x].key \in Nat
    BY <1>1 DEF BookRec
<1>8. Before(book, r) = {s[j] : j \in 1..i}
  <2>1. ASSUME NEW j \in 1..i PROVE s[j] \in Before(book, r)
    <3>1. j \in 1..n /\ s[j] \in OnList /\ (j = i \/ j < i)
        BY <1>1, <1>2
    <3>2. book[s[j]].key >= book[r].key
        BY <1>2, <1>6, <1>7, <3>1
    <3>. QED BY <3>1, <3>2 DEF Before, OnList
  <2>2. ASSUME NEW x \in Before(book, r) PROVE \E j \in 1..i : x = s[j]
    <3>1. x \in OnList /\ book[x].key >= book[r].key
        BY DEF Before, OnList
    <3>2. PICK j \in 1..n : s[j] = x
        BY <1>5, <3>1 DEF Surjection
    <3>3. ~(i < j)
      <4>1. SUFFICES ASSUME i < j PROVE FALSE
          OBVIOUS
      <4>2. book[r].key >= book[x].key /\ x # r
          BY <1>2, <1>6, <3>2, <4>1
      <4>. QED BY <1>7, <3>1, <4>2
    <3>. QED BY <1>1, <3>2, <3>3
  <2>. QED BY <2>1, <2>2
<1>9. Rank(book, r) = i
  <2> DEFINE T == {s[j] : j \in 1..i}
             f == [j \in 1..i |-> s[j]]
  <2>1. i \in Nat /\ IsFiniteSet(1..i) /\ Cardinality(1..i) = i
      BY <1>1, FS_Interval
  <2>2. f \in Bijection(1..i, T)
      BY <1>1, <1>2 DEF Bijection, Injection, Surjection, IsInjective
  <2>. HIDE DEF f, T
  <2>3. Cardinality(T) = i
      BY <2>1, <2>2, FS_Bijection DEF ExistsBijection
  <2>. QED BY <1>8, <2>3 DEF Rank, T
<1>. QED BY <1>2, <1>6, <1>9 DEF n

\* The shape of every variable of Books, but for the rows seen; those that are kept are listed.
BooksTypeOK ==
    /\ view \in {View(l) : l \in Lists}
    /\ book \in [1..BookRows -> BookRec] /\ reader \in Readers(reader.seen)
    /\ kept \subseteq OnList
    /\ spoiled \subseteq {"tied", "joined", "between", "back", "left"}
    /\ stamp \in Nat /\ writes \in Nat

\* Pages that have been read, and what a reader of so many pages has been shown.
Depth == IF reader.read THEN reader.page ELSE reader.page - 1
Shown(b, keep, depth, seen) == \A r \in keep : Rank(b, r) <= depth * PageLimit => r \in seen

PageInv ==
    /\ reader.at = "idle" => reader.page = 1 /\ ~reader.counted /\ ~reader.read
    /\ spoiled = {} =>
         /\ reader.at = "asked" => Shown(book, kept, Depth, reader.seen)
         /\ reader.at = "asked" /\ reader.counted =>
              IF reader.read THEN reader.page >= reader.pages => kept \subseteq reader.seen
                             ELSE reader.pages = PagesOf(Cardinality(OnList))
         /\ reader.at = "done" => kept \subseteq reader.seen

BooksInv == BooksTypeOK /\ PageInv

LEMMA BooksStart == InitBooks => BooksInv
<1>. SUFFICES ASSUME InitBooks PROVE BooksInv
    OBVIOUS
<1>1. book \in [1..BookRows -> BookRec]
  <2>1. book \in [1..BookRows -> [listed : BOOLEAN, key : 0..BookRows, fan : {1}]]
      BY DEF InitBooks
  <2>2. [listed : BOOLEAN, key : 0..BookRows, fan : {1}] \subseteq BookRec
      BY BooksConstants DEF BookRec
  <2>. QED BY <2>1, <2>2
<1>2. reader \in Readers(reader.seen)
    BY DEF InitBooks, NoReader, Readers
<1>3. BooksTypeOK
    BY <1>1, <1>2, BooksConstants DEF InitBooks, BooksTypeOK
<1>4. PageInv
    BY DEF InitBooks, NoReader, PageInv
<1>. QED BY <1>3, <1>4 DEF BooksInv

\* What a page adds, when there are neither ties nor rows that are joined to several.
LEMMA PageShows ==
    ASSUME BooksInv, spoiled = {}, reader.at = "asked", ~reader.read, Why(OnList) = {},
           NEW s \in Ordered(OnList)
    PROVE  /\ JoinRows(s) = s
           /\ Shown(book, kept, reader.page, reader.seen \cup Page(s, reader.page))
<1>0. book \in [1..BookRows -> BookRec] /\ reader.page \in Nat \ {0} /\ kept \subseteq OnList
    BY DEF BooksInv, BooksTypeOK, Readers
<1>1. /\ \A x, y \in OnList : x # y => book[x].key # book[y].key
      /\ view.joins => \A r \in OnList : ~(book[r].fan > 1)
    BY DEF Why
<1>2. Cardinality(OnList) \in Nat /\ OnList \subseteq 1..BookRows
    BY <1>0, ListIsFinite
<1>3. s \in [1..Cardinality(OnList) -> OnList]
    BY DEF Ordered, SetToSeqs
<1>4. JoinRows(s) = s
  <2>1. CASE ~view.joins
      BY <2>1 DEF JoinRows
  <2>2. CASE view.joins
    <3>1. DOMAIN s = 1..Cardinality(OnList)
        BY <1>3
    <3>2. \A i \in DOMAIN s : book[s[i]].fan = 1
      <4>. SUFFICES ASSUME NEW i \in DOMAIN s PROVE book[s[i]].fan = 1
          OBVIOUS
      <4>1. s[i] \in OnList /\ s[i] \in 1..BookRows
          BY <1>2, <1>3
      <4>2. ~(book[s[i]].fan > 1)
          BY <1>1, <2>2, <4>1
      <4>3. book[s[i]] \in BookRec
          BY <1>0, <4>1
      <4>4. book[s[i]].fan \in {1, 2}
          BY <4>3 DEF BookRec
      <4>. QED BY <4>2, <4>4
    <3>3. \A i \in DOMAIN s : [j \in 1..book[s[i]].fan |-> s[i]] = <<s[i]>>
      <4>1. \A x : [j \in 1..1 |-> x] = <<x>>
          OBVIOUS
      <4>. QED BY <3>2, <4>1
    <3>4. [i \in DOMAIN s |-> [j \in 1..book[s[i]].fan |-> s[i]]] = [i \in DOMAIN s |-> <<s[i]>>]
        BY <3>3
    <3>5. s \in Seq(OnList)
        BY <1>2, <1>3
    <3>6. FlattenSeq([i \in DOMAIN s |-> <<s[i]>>]) = s
        BY <3>5, FlattenSingles
    <3>. QED BY <2>2, <3>4, <3>6 DEF JoinRows
  <2>. QED BY <2>1, <2>2
<1>5. Shown(book, kept, reader.page - 1, reader.seen)
    BY DEF BooksInv, PageInv, Depth
<1>6. ASSUME NEW r \in kept, Rank(book, r) <= reader.page * PageLimit
      PROVE  r \in reader.seen \cup Page(s, reader.page)
  <2>1. Rank(book, r) \in 1..Cardinality(OnList) /\ s[Rank(book, r)] = r
      BY <1>0, <1>1, InOrder
  <2>2. (reader.page - 1) * PageLimit \in Nat
    <3>1. reader.page - 1 \in Nat /\ PageLimit \in Nat
        BY <1>0, BooksConstants
    <3>. QED BY <3>1
  <2>3. CASE Rank(book, r) <= (reader.page - 1) * PageLimit
      BY <1>5, <2>3 DEF Shown
  <2>4. CASE (reader.page - 1) * PageLimit < Rank(book, r)
    <3>. PICK i \in 1..Cardinality(OnList) : i = Rank(book, r)
        BY <2>1
    <3>1. s[i] \in Page(s, reader.page)
        BY <1>0, <1>2, <1>3, <1>6, <2>4, OnPage
    <3>. QED BY <2>1, <3>1
  <2>. QED BY <1>2, <2>1, <2>2, <2>3, <2>4
<1>. QED BY <1>4, <1>6 DEF Shown

\* Who has read as many pages as hold the list has seen what was kept.
LEMMA AllShown ==
    ASSUME BooksInv, NEW depth \in Nat, NEW seen, Shown(book, kept, depth, seen),
           depth >= PagesOf(Cardinality(OnList))
    PROVE  kept \subseteq seen
<1>1. /\ Cardinality(OnList) \in Nat /\ PageLimit \in Nat
      /\ \A r : Rank(book, r) \in Nat /\ Rank(book, r) <= Cardinality(OnList)
    BY ListIsFinite, BooksConstants DEF BooksInv, BooksTypeOK
<1>2. Cardinality(OnList) <= depth * PageLimit /\ depth * PageLimit \in Nat
    BY <1>1, PagesHold
<1>3. \A r : Rank(book, r) <= depth * PageLimit
    BY <1>1, <1>2
<1>. QED BY <1>3 DEF Shown

\* The reader's steps.
LEMMA OpenStep == ASSUME BooksInv, Open PROVE BooksInv'
<1>1. reader.at = "idle" /\ reader' = [reader EXCEPT !.at = "asked"] /\ kept' = OnList
      /\ view' = view /\ book' = book /\ spoiled' = spoiled /\ stamp' = stamp /\ writes' = writes
    BY DEF Open
<1>2. reader \in Readers(reader.seen) /\ reader.page = 1 /\ ~reader.counted /\ ~reader.read
    BY <1>1 DEF BooksInv, BooksTypeOK, PageInv
<1>3. reader' \in Readers(reader'.seen) /\ reader'.at = "asked" /\ reader'.page = 1 /\ ~reader'.counted
      /\ ~reader'.read
    BY <1>1, <1>2 DEF Readers
<1>4. OnList' = OnList
    BY <1>1 DEF OnList
<1>5. BooksTypeOK'
    BY <1>1, <1>3, <1>4 DEF BooksInv, BooksTypeOK
<1>6. \A r \in OnList : Rank(book, r) \in Nat /\ ~(Rank(book, r) <= 0 * PageLimit)
  <2>1. \A r \in OnList : Rank(book, r) \in Nat /\ Rank(book, r) > 0
      BY ListIsFinite DEF BooksInv, BooksTypeOK
  <2>2. 0 * PageLimit = 0
      BY BooksConstants
  <2>. QED BY <2>1, <2>2
<1>7. Depth' = 0
    BY <1>3 DEF Depth
<1>8. Shown(book', kept', 0, reader'.seen)
    BY <1>1, <1>6 DEF Shown
<1>9. PageInv'
    BY <1>3, <1>7, <1>8 DEF PageInv
<1>. QED BY <1>5, <1>9 DEF BooksInv

LEMMA CountStep == ASSUME BooksInv, CountRows PROVE BooksInv'
<1> DEFINE c == Cardinality(OnList)
<1>1. /\ reader.at = "asked" /\ ~reader.counted
      /\ reader' = [reader EXCEPT !.counted = TRUE, !.pages = PagesOf(c)]
      /\ view' = view /\ book' = book /\ kept' = kept /\ spoiled' = spoiled /\ stamp' = stamp
      /\ writes' = writes
    BY DEF CountRows
<1>2. reader \in Readers(reader.seen)
    BY DEF BooksInv, BooksTypeOK
<1>3. c \in Nat
    BY ListIsFinite DEF BooksInv, BooksTypeOK
<1>4. PagesOf(c) \in Nat
    BY <1>3, PagesType
<1>. HIDE DEF c
<1>5. /\ reader' \in Readers(reader'.seen) /\ reader'.at = "asked" /\ reader'.page = reader.page
      /\ reader'.counted /\ reader'.read = reader.read /\ reader'.pages = PagesOf(c)
      /\ reader'.seen = reader.seen
    BY <1>1, <1>2, <1>4 DEF Readers
<1>6. OnList' = OnList
    BY <1>1 DEF OnList
<1>7. BooksTypeOK'
    BY <1>1, <1>5, <1>6 DEF BooksInv, BooksTypeOK
<1>8. Depth' = Depth
    BY <1>5 DEF Depth
<1>9. ASSUME spoiled = {} PROVE Shown(book, kept, Depth, reader.seen)
    BY <1>1, <1>9 DEF BooksInv, PageInv
<1>10. ASSUME spoiled = {}, reader.read, reader.page >= PagesOf(c) PROVE kept \subseteq reader.seen
  <2>1. reader.page \in Nat /\ Depth = reader.page
      BY <1>2, <1>10 DEF Readers, Depth
  <2>. QED BY <1>9, <1>10, <2>1, AllShown DEF c
<1>11. PageInv'
    BY <1>1, <1>5, <1>6, <1>8, <1>9, <1>10 DEF PageInv, c
<1>. QED BY <1>7, <1>11 DEF BooksInv

LEMMA ReadStep ==
    ASSUME BooksInv, ReadRows \/ ReadLedger
    PROVE  BooksInv'
<1> DEFINE c == Cardinality(OnList)
<1>0. c \in Nat /\ reader \in Readers(reader.seen)
    BY ListIsFinite DEF BooksInv, BooksTypeOK
<1>1. PICK s \in Ordered(OnList), joined \in BOOLEAN, counted \in BOOLEAN, pages \in Nat :
        /\ reader.at = "asked" /\ ~reader.read
        /\ reader' = [reader EXCEPT !.read = TRUE, !.counted = counted, !.pages = pages,
                                    !.seen = reader.seen \cup Page(IF joined THEN JoinRows(s) ELSE s,
                                                                reader.page)]
        /\ (counted /\ reader.counted /\ pages = reader.pages)
           \/ (~counted /\ ~reader.counted)
           \/ (counted /\ pages = PagesOf(c))
  <2>1. CASE ReadRows
    <3>1. PICK s \in Ordered(OnList) :
            reader' = [reader EXCEPT !.read = TRUE,
                                     !.seen = reader.seen \cup Page(JoinRows(s), reader.page)]
        BY <2>1 DEF ReadRows
    <3>2. reader' = [reader EXCEPT !.read = TRUE, !.counted = reader.counted, !.pages = reader.pages,
                                   !.seen = reader.seen \cup Page(JoinRows(s), reader.page)]
        BY <1>0, <3>1 DEF Readers
    <3>3. reader.at = "asked" /\ ~reader.read /\ reader.counted \in BOOLEAN /\ reader.pages \in Nat
        BY <1>0, <2>1 DEF ReadRows, Readers
    <3>. QED BY <3>2, <3>3
  <2>2. CASE ReadLedger
    <3>1. PICK s \in Ordered(OnList) :
            reader' = [reader EXCEPT !.read = TRUE, !.counted = TRUE, !.pages = PagesOf(c),
                                     !.seen = reader.seen \cup Page(s, reader.page)]
        BY <2>2 DEF ReadLedger
    <3>2. PagesOf(c) \in Nat
        BY <1>0, PagesType
    <3>3. reader.at = "asked" /\ ~reader.read
        BY <2>2 DEF ReadLedger
    <3>. HIDE DEF c
    <3>. QED BY <3>1, <3>2, <3>3
  <2>. QED BY <2>1, <2>2
<1>2. /\ view' = view /\ book' = book /\ kept' = kept /\ stamp' = stamp /\ writes' = writes
      /\ spoiled' = spoiled \cup Why(OnList)
    BY DEF ReadRows, ReadLedger
<1>. HIDE DEF c
<1>3. reader.page \in Nat
    BY <1>0 DEF Readers
<1> DEFINE seen == reader.seen \cup Page(IF joined THEN JoinRows(s) ELSE s, reader.page)
<1>4. /\ reader' \in Readers(reader'.seen) /\ reader'.at = "asked" /\ reader'.page = reader.page
      /\ reader'.counted = counted /\ reader'.read /\ reader'.pages = pages /\ reader'.seen = seen
  <2>. HIDE DEF seen
  <2>1. reader' = [reader EXCEPT !.read = TRUE, !.counted = counted, !.pages = pages, !.seen = seen]
      BY <1>1 DEF seen
  <2>. QED BY <1>0, <1>1, <2>1 DEF Readers
<1>5. OnList' = OnList
    BY <1>2 DEF OnList
<1>6. Why(OnList) \subseteq {"tied", "joined"}
    BY DEF Why
<1>7. BooksTypeOK'
    BY <1>2, <1>4, <1>5, <1>6 DEF BooksInv, BooksTypeOK
<1>8. Depth' = reader.page
    BY <1>4 DEF Depth
<1>9. ASSUME spoiled' = {} PROVE Shown(book, kept, reader.page, seen)
  <2>1. spoiled = {} /\ Why(OnList) = {}
      BY <1>2, <1>9
  <2>. QED BY <1>1, <2>1, PageShows
<1>. HIDE DEF seen
<1>10. ASSUME spoiled' = {}, counted, reader.page >= pages PROVE kept \subseteq seen
  <2>1. pages = PagesOf(c)
    <3>1. CASE pages = reader.pages /\ reader.counted
        BY <1>1, <1>2, <1>10, <3>1 DEF BooksInv, PageInv, c
    <3>. QED BY <1>1, <1>10, <3>1
  <2>. QED BY <1>3, <1>9, <1>10, <2>1, AllShown DEF c
<1>11. PageInv'
    BY <1>2, <1>4, <1>8, <1>9, <1>10 DEF PageInv
<1>. QED BY <1>7, <1>11 DEF BooksInv

LEMMA TurnStep == ASSUME BooksInv, Turn PROVE BooksInv'
<1>1. /\ reader.at = "asked" /\ reader.counted /\ reader.read
      /\ reader' = IF reader.page < reader.pages /\ reader.page < MaxPages
                   THEN [reader EXCEPT !.page = reader.page + 1, !.counted = FALSE, !.read = FALSE]
                   ELSE [reader EXCEPT !.at = IF reader.page < reader.pages THEN "gave up" ELSE "done"]
      /\ view' = view /\ book' = book /\ kept' = kept /\ spoiled' = spoiled /\ stamp' = stamp
      /\ writes' = writes
    BY DEF Turn
<1>2. reader \in Readers(reader.seen) /\ reader.page \in Nat /\ reader.pages \in Nat
    BY DEF BooksInv, BooksTypeOK, Readers
<1>3. OnList' = OnList
    BY <1>1 DEF OnList
<1>4. spoiled = {} =>
        /\ Shown(book, kept, reader.page, reader.seen)
        /\ reader.page >= reader.pages => kept \subseteq reader.seen
    BY <1>1 DEF BooksInv, PageInv, Depth
<1>5. CASE reader.page < reader.pages /\ reader.page < MaxPages
  <2>1. /\ reader' \in Readers(reader'.seen) /\ reader'.at = "asked"
        /\ reader'.page = reader.page + 1 /\ ~reader'.counted /\ ~reader'.read
        /\ reader'.seen = reader.seen
    <3>1. reader' = [reader EXCEPT !.page = reader.page + 1, !.counted = FALSE, !.read = FALSE]
        BY <1>1, <1>5
    <3>2. reader.page + 1 \in Nat \ {0}
        BY <1>2
    <3> DEFINE next == reader.page + 1
    <3>. HIDE DEF next
    <3>3. reader' = [reader EXCEPT !.page = next, !.counted = FALSE, !.read = FALSE]
        BY <3>1 DEF next
    <3>4. next \in Nat \ {0}
        BY <3>2 DEF next
    <3>5. /\ reader' \in Readers(reader'.seen) /\ reader'.at = "asked"
          /\ reader'.page = next /\ ~reader'.counted /\ ~reader'.read /\ reader'.seen = reader.seen
        BY <1>1, <1>2, <3>3, <3>4 DEF Readers
    <3>. QED BY <3>5 DEF next
  <2>2. BooksTypeOK'
      BY <1>1, <1>3, <2>1 DEF BooksInv, BooksTypeOK
  <2>3. Depth' = reader.page
      BY <1>2, <2>1 DEF Depth
  <2>4. PageInv'
      BY <1>1, <1>4, <2>1, <2>3 DEF PageInv
  <2>. QED BY <2>2, <2>4 DEF BooksInv
<1>6. CASE ~(reader.page < reader.pages /\ reader.page < MaxPages)
  <2>1. /\ reader' \in Readers(reader'.seen) /\ reader'.seen = reader.seen
        /\ reader'.at = IF reader.page < reader.pages THEN "gave up" ELSE "done"
      BY <1>1, <1>2, <1>6 DEF Readers
  <2>2. BooksTypeOK'
      BY <1>1, <1>3, <2>1 DEF BooksInv, BooksTypeOK
  <2>3. PageInv'
    <3>1. CASE reader.page < reader.pages
        BY <2>1, <3>1 DEF PageInv
    <3>2. CASE ~(reader.page < reader.pages)
      <4>1. reader.page >= reader.pages
          BY <1>2, <3>2
      <4>2. reader'.at = "done" /\ (spoiled' = {} => kept' \subseteq reader'.seen)
          BY <1>1, <1>4, <2>1, <3>2, <4>1
      <4>. QED BY <4>2 DEF PageInv
    <3>. QED BY <3>1, <3>2
  <2>. QED BY <2>2, <2>3 DEF BooksInv
<1>. QED BY <1>5, <1>6

-----------------------------------------------------------------------------
(* Writes of others.                                                       *)

\* A write that takes no row away and puts none back leaves a row no earlier than it was.
LEMMA RankGrows ==
    ASSUME book \in [1..BookRows -> BookRec], book' \in [1..BookRows -> BookRec], NEW r \in OnList,
           book'[r].key = book[r].key,
           \A x \in OnList : book'[x].listed /\ book'[x].key >= book[x].key
    PROVE  Rank(book', r) \in Nat /\ Rank(book, r) <= Rank(book', r)
<1>1. Before(book, r) \subseteq Before(book', r)
  <2>. SUFFICES ASSUME NEW x \in Before(book, r) PROVE x \in Before(book', r)
      OBVIOUS
  <2>1. x \in OnList /\ book[x].key >= book[r].key
      BY DEF Before, OnList
  <2>2. x \in 1..BookRows /\ r \in 1..BookRows
      BY <2>1 DEF OnList
  <2>3. book[x].key \in Nat /\ book'[x].key \in Nat /\ book[r].key \in Nat
      BY <2>2 DEF BookRec
  <2>. QED BY <2>1, <2>2, <2>3 DEF Before
<1>2. Before(book', r) \subseteq 1..BookRows /\ IsFiniteSet(1..BookRows)
    BY BooksConstants, FS_Interval DEF Before
<1>3. IsFiniteSet(Before(book', r)) /\ Cardinality(Before(book', r)) \in Nat
    BY <1>2, FS_Subset, FS_CardinalityType
<1>. QED BY <1>1, <1>3, FS_Subset DEF Rank

LEMMA WriteStep ==
    ASSUME BooksInv, NEW rs, NEW why \in SUBSET {"back", "left"}, Write(rs, why),
           book' \in [1..BookRows -> BookRec],
           \A r \in OnList \ rs : book'[r].listed /\ book'[r].key = book[r].key,
           why = {} => \A r \in OnList : book'[r].listed /\ book'[r].key >= book[r].key
    PROVE  BooksInv'
<1>1. /\ reader.at = "asked" /\ reader' = reader /\ view' = view /\ kept' = kept \ rs
      /\ spoiled' = spoiled \cup Between \cup why /\ stamp' = stamp + 1 /\ writes' = writes + 1
    BY DEF Write
<1>2. /\ book \in [1..BookRows -> BookRec] /\ reader \in Readers(reader.seen) /\ kept \subseteq OnList
      /\ stamp \in Nat /\ writes \in Nat
    BY DEF BooksInv, BooksTypeOK
<1>3. kept' \subseteq OnList'
    BY <1>1, <1>2 DEF OnList
<1>4. Between \subseteq {"between"}
    BY DEF Between
<1>5. BooksTypeOK'
    BY <1>1, <1>2, <1>3, <1>4 DEF BooksInv, BooksTypeOK
<1>6. Depth' = Depth
    BY <1>1 DEF Depth
<1>7. ASSUME spoiled' = {}
      PROVE  /\ spoiled = {} /\ why = {} /\ (reader.counted <=> reader.read)
             /\ Shown(book', kept', Depth, reader.seen)
  <2>1. spoiled = {} /\ why = {} /\ Between = {}
      BY <1>1, <1>7
  <2>2. reader.counted <=> reader.read
      BY <1>2, <2>1 DEF Between, Readers
  <2>3. ASSUME NEW r \in kept', Rank(book', r) <= Depth * PageLimit PROVE r \in reader.seen
    <3>1. r \in kept /\ r \in OnList /\ book'[r].key = book[r].key
        BY <1>1, <1>2, <2>3
    <3>2. Rank(book', r) \in Nat /\ Rank(book, r) <= Rank(book', r)
        BY <1>2, <2>1, <3>1, RankGrows
    <3>3. Rank(book, r) \in Nat
        BY <1>2, ListIsFinite
    <3>4. Depth * PageLimit \in Nat
      <4>1. Depth \in Nat /\ PageLimit \in Nat
        <5>1. reader.page \in Nat \ {0} /\ PageLimit \in Nat
            BY <1>2, BooksConstants DEF Readers
        <5>2. reader.page - 1 \in Nat
            BY <5>1
        <5>. QED BY <5>1, <5>2 DEF Depth
      <4>. QED BY <4>1
    <3>5. Rank(book, r) <= Depth * PageLimit
        BY <2>3, <3>2, <3>3, <3>4
    <3>6. Shown(book, kept, Depth, reader.seen)
        BY <1>1, <2>1 DEF BooksInv, PageInv
    <3>. QED BY <3>1, <3>5, <3>6 DEF Shown
  <2>4. Shown(book', kept', Depth, reader.seen)
      BY <2>3 DEF Shown
  <2>. QED BY <2>1, <2>2, <2>4
<1>8. ASSUME spoiled' = {}, reader.counted, reader.read, reader.page >= reader.pages
      PROVE  kept' \subseteq reader.seen
    BY <1>1, <1>7, <1>8 DEF BooksInv, PageInv
<1>9. PageInv'
    BY <1>1, <1>6, <1>7, <1>8 DEF PageInv
<1>. QED BY <1>5, <1>9 DEF BooksInv

LEMMA WritesStep ==
    ASSUME BooksInv, ComeIn \/ Touch \/ Leave \/ Join
    PROVE  BooksInv'
<1>0. /\ book \in [1..BookRows -> BookRec] /\ stamp \in Nat /\ DOMAIN book = 1..BookRows
      /\ OnList \subseteq 1..BookRows /\ \A r \in OnList : book[r].key \in Nat /\ book[r].listed
    BY DEF BooksInv, BooksTypeOK, OnList, BookRec
<1>1. CASE ComeIn
  <2>1. PICK rs \in SUBSET (DOMAIN book \ OnList),
             key \in IF view.order = "updated" THEN {stamp + 1} ELSE 1..(stamp + 1) :
          /\ Write(rs, {})
          /\ book' = [r \in DOMAIN book |->
               IF r \in rs THEN [listed |-> TRUE, key |-> key, fan |-> 1] ELSE book[r]]
      BY <1>1 DEF ComeIn
  <2>2. key \in Nat
      BY <1>0
  <2>3. [listed |-> TRUE, key |-> key, fan |-> 1] \in BookRec
      BY <2>2 DEF BookRec
  <2>4. book' \in [1..BookRows -> BookRec]
      BY <1>0, <2>1, <2>3
  <2>5. \A r \in OnList : book'[r] = book[r]
    <3>. SUFFICES ASSUME NEW r \in OnList PROVE book'[r] = book[r]
        OBVIOUS
    <3>1. r \notin rs /\ r \in DOMAIN book
        BY <1>0, <2>1
    <3>. QED BY <2>1, <3>1
  <2>6. /\ {} \in SUBSET {"back", "left"}
        /\ \A r \in OnList : book'[r].listed /\ book'[r].key = book[r].key
                                          /\ book'[r].key >= book[r].key
    <3>. SUFFICES ASSUME NEW r \in OnList
                  PROVE  book'[r].listed /\ book'[r].key = book[r].key /\ book'[r].key >= book[r].key
        OBVIOUS
    <3>1. book'[r] = book[r]
        BY <2>5
    <3>2. book[r].key \in Nat /\ book[r].listed
        BY <1>0
    <3>. QED BY <3>1, <3>2
  <2>7. Write(rs, {})
      BY <2>1
  <2>. QED BY <2>4, <2>6, <2>7, WriteStep
<1>2. CASE Touch
  <2>0. PICK r \in OnList :
          \E key \in CASE view.order = "created" -> {book[r].key}
                        [] view.order = "updated" -> {stamp + 1}
                        [] OTHER -> 1..(stamp + 1) :
            /\ Write({r}, IF key < book[r].key THEN {"back"} ELSE {})
            /\ book' = [book EXCEPT ![r].key = key]
      BY <1>2 DEF Touch
  <2>1. PICK key \in CASE view.order = "created" -> {book[r].key}
                       [] view.order = "updated" -> {stamp + 1}
                       [] OTHER -> 1..(stamp + 1) :
          /\ Write({r}, IF key < book[r].key THEN {"back"} ELSE {})
          /\ book' = [book EXCEPT ![r].key = key]
      BY <2>0
  <2>2. key \in Nat
      BY <1>0
  <2>3. /\ book' \in [1..BookRows -> BookRec]
        /\ \A x \in OnList : book'[x].listed /\ book'[x].key = IF x = r THEN key ELSE book[x].key
      BY <1>0, <2>1, <2>2 DEF BookRec
  <2> DEFINE why == IF key < book[r].key THEN {"back"} ELSE {}
  <2>4. why \in SUBSET {"back", "left"} /\ (why = {} => key >= book[r].key)
      BY <1>0, <2>2
  <2>5. Write({r}, why)
      BY <2>1
  <2>. HIDE DEF why
  <2>6. /\ \A x \in OnList \ {r} : book'[x].listed /\ book'[x].key = book[x].key
        /\ why = {} => \A x \in OnList : book'[x].listed /\ book'[x].key >= book[x].key
      BY <1>0, <2>3, <2>4
  <2>. QED BY <2>3, <2>4, <2>5, <2>6, WriteStep
<1>3. CASE Leave
  <2>1. PICK r \in OnList : /\ Write({r}, {"left"})
                            /\ book' = [book EXCEPT ![r] = [listed |-> FALSE, key |-> 0, fan |-> 1]]
      BY <1>3 DEF Leave
  <2>2. book' \in [1..BookRows -> BookRec] /\ \A x \in OnList \ {r} : book'[x] = book[x]
    <3>1. [listed |-> FALSE, key |-> 0, fan |-> 1] \in BookRec
        BY DEF BookRec
    <3>. QED BY <1>0, <2>1, <3>1
  <2>. QED BY <1>0, <2>1, <2>2, WriteStep
<1>4. CASE Join
  <2>1. PICK r \in OnList : Write({}, {}) /\ book' = [book EXCEPT ![r].fan = 2]
      BY <1>4 DEF Join
  <2>2. /\ book' \in [1..BookRows -> BookRec]
        /\ \A x \in OnList : book'[x].listed /\ book'[x].key = book[x].key
      BY <1>0, <2>1 DEF BookRec
  <2>3. {} \in SUBSET {"back", "left"} /\ \A x \in OnList : book[x].key >= book[x].key
      BY <1>0
  <2>. QED BY <2>1, <2>2, <2>3, WriteStep
<1>. QED BY <1>1, <1>2, <1>3, <1>4

LEMMA BooksStep == BooksInv /\ [NextBooks]_bookVars => BooksInv'
<1>1. ASSUME BooksInv, UNCHANGED bookVars PROVE BooksInv'
    BY <1>1 DEF bookVars, BooksInv, BooksTypeOK, PageInv, OnList, Depth
<1>. QED BY <1>1, OpenStep, CountStep, ReadStep, TurnStep, WritesStep DEF NextBooks

\* Who turns all the pages of a list has been shown every row that stayed in it untouched,
\* for any rows, any page size and any writes of others that neither take a row away nor put
\* one back, tie rows, or fall between the two queries of a page.
THEOREM PagesShowTheList == SpecBooks => []UntouchedIsShown
<1>1. BooksInv => UntouchedIsShown
    BY DEF BooksInv, PageInv, UntouchedIsShown
<1>. QED BY BooksStart, BooksStep, <1>1, PTL DEF SpecBooks
=============================================================================
