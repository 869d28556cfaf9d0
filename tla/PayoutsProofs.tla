--------------------------- MODULE PayoutsProofs ---------------------------
(***************************************************************************)
(* Proofs about Payouts, for any sets of rows, instances, webhook handlers *)
(* and admin requests and any bounds: the type invariant, and that a row   *)
(* is paid once unless one of the four named events has happened to it.    *)
(***************************************************************************)
EXTENDS Payouts, SequenceTheorems, TLAPS

\* The statuses of a row with an open transfer: the next run does not list it.
Shut == {"processing", "released", "disputed", "cancelled"}

\* An instance between its lock and the end of the turn, working on transfer att.
Holds(c) == cron[c].pc \in {"request", "fail"} /\ cron[c].att > 0

\* The copies an instance has of the rows still to do are as they were listed;
\* the copy of the row it has locked says so, and the transfer it holds is in
\* the state its program counter implies.
CronOK(c) ==
    /\ cron[c].pc \notin {"request", "fail"} => cron[c].att = 0
    /\ cron[c].pc = "request" => cron[c].att > 0
    /\ \A r \in Releases :
         \/ cron[c].list[r] \in DueStatus \cup {"absent"}
         \/ Holds(c) /\ r = cron[c].cur
    /\ cron[c].pc \in {"park", "lock", "fail"} => cron[c].list[cron[c].cur] # "absent"
    /\ Holds(c) =>
         /\ cron[c].list[cron[c].cur] = "processing"
         /\ cron[c].att \in DOMAIN xfer[cron[c].cur]
         /\ cron[c].pc = "request" => xfer[cron[c].cur][cron[c].att] = "prepared"
         /\ cron[c].pc = "fail" =>
              xfer[cron[c].cur][cron[c].att] = "refused" \/ cause[cron[c].cur] # {}

\* Each transfer is held by one instance at most.
HeldOnce ==
    \A c, d \in Crons :
        Holds(c) /\ Holds(d) /\ cron[c].cur = cron[d].cur /\ cron[c].att = cron[d].att => c = d

\* The lock proper: only the last transfer of a row can be open, and then the
\* row is shut.
RowLock(r) ==
    cause[r] = {} =>
        \A i \in DOMAIN xfer[r] : xfer[r][i] \in Open => i = Len(xfer[r]) /\ rel[r] \in Shut

\* What a handler is about to write comes from an event the gateway has sent.
HookOK(h) ==
    hook[h].pc = "write" =>
        hook[h].i \in DOMAIN xfer[hook[h].r] /\ Sent(hook[h].r, hook[h].i, hook[h].kind)

Safe ==
    /\ \A c \in Crons : CronOK(c)
    /\ HeldOnce
    /\ \A r \in Releases : RowLock(r)
    /\ \A h \in Hooks : HookOK(h)
    /\ ReleasedWasPaid
    /\ RefusalUnlocks

IInv == TypeOK /\ Safe

-----------------------------------------------------------------------------
(* Type correctness.                                                       *)

LEMMA AnyReleaseType == AnyRelease \in Releases
  BY ReleasesNonEmpty DEF AnyRelease

LEMMA IdleTypes == IdleCron \in CronRec /\ IdleHook \in HookRec /\ IdleAdmin \in AdminRec
  <1>1. IdleCron \in CronRec
    BY AnyReleaseType DEF IdleCron, CronRec, CronPc, Copies
  <1>2. IdleHook \in HookRec
    BY AnyReleaseType DEF IdleHook, HookRec, HookPc, Kinds
  <1>3. IdleAdmin \in AdminRec
    BY AnyReleaseType DEF IdleAdmin, AdminRec, Ops, RowStatus
  <1> QED
    BY <1>1, <1>2, <1>3

LEMMA InitType == Init => TypeOK
  <1> SUFFICES ASSUME Init PROVE TypeOK
    OBVIOUS
  <1>1. xfer \in [Releases -> Seq(XferState)]
    BY DEF Init
  <1>2. cron \in [Crons -> CronRec] /\ hook \in [Hooks -> HookRec] /\ admin \in [Admins -> AdminRec]
    BY IdleTypes DEF Init
  <1> QED
    BY <1>1, <1>2 DEF Init, TypeOK, RowStatus, DisputeStatus

LEMMA RowStepType == ASSUME TypeOK, RowStep \/ FundEscrow PROVE TypeOK'
  <1>1. ASSUME NEW r \in Releases, ApproveSubmission(r) PROVE TypeOK'
    BY <1>1 DEF TypeOK, ApproveSubmission, rowVars
  <1>2. ASSUME NEW r \in Releases, CreateRelease(r) PROVE TypeOK'
    BY <1>2 DEF TypeOK, CreateRelease, rowVars, RowStatus
  <1>3. ASSUME NEW r \in Releases, DatePasses(r) PROVE TypeOK'
    BY <1>3 DEF TypeOK, DatePasses, rowVars
  <1>4. CASE FundEscrow
    BY <1>4 DEF TypeOK, FundEscrow, rowVars
  <1> QED
    BY <1>1, <1>2, <1>3, <1>4 DEF RowStep

\* Changing the state of a transfer keeps the shape of the list it is in.
LEMMA SetXferType ==
    ASSUME TypeOK, NEW r \in Releases, NEW i, NEW st \in XferState
    PROVE  [xfer EXCEPT ![r][i] = st] \in [Releases -> Seq(XferState)]
  <1> DEFINE s == xfer[r]
  <1>1. s \in Seq(XferState)
    BY DEF TypeOK
  <1>2. DOMAIN s = 1 .. Len(s)
    BY <1>1
  <1>3. CASE i \in 1 .. Len(s)
    <2>1. [s EXCEPT ![i] = st] \in Seq(XferState)
      BY <1>1, <1>3, ExceptSeq
    <2> QED
      BY <2>1 DEF TypeOK
  <1>4. CASE i \notin 1 .. Len(s)
    <2>1. [s EXCEPT ![i] = st] = s
      BY <1>1, <1>2, <1>4
    <2> QED
      BY <1>1, <2>1 DEF TypeOK
  <1> QED
    BY <1>3, <1>4

LEMMA CronWritesType ==
    ASSUME TypeOK, NEW c \in Crons, NEW new \in RowStatus, CronWrites(c, new)
    PROVE  /\ rel' \in [Releases -> RowStatus]
           /\ cause' \in [Releases -> SUBSET Causes]
  <1>1. cron[c].cur \in Releases
    BY DEF TypeOK, CronRec
  <1>2. rel' \in [Releases -> RowStatus]
    BY <1>1 DEF TypeOK, CronWrites, Saved
  <1>3. cause' \in [Releases -> SUBSET Causes]
    BY <1>1 DEF TypeOK, CronWrites, Blame, Causes
  <1> QED
    BY <1>2, <1>3

LEMMA TurnOverType == ASSUME TypeOK, NEW c \in Crons PROVE TurnOver(c) \in CronRec
  <1>1. cron[c] \in CronRec
    BY DEF TypeOK
  <1>2. [cron[c].list EXCEPT ![cron[c].cur] = "absent"] \in Copies
    BY <1>1 DEF CronRec, Copies
  <1> QED
    BY <1>1, <1>2 DEF TurnOver, CronRec, CronPc

LEMMA CronStepType == ASSUME TypeOK, NEW c \in Crons, CronStep(c) PROVE TypeOK'
  <1> cron[c] \in CronRec /\ cron[c].cur \in Releases /\ cron[c].list \in Copies
    BY DEF TypeOK, CronRec
  <1> TurnOver(c) \in CronRec
    BY TurnOverType
  <1> "pending" \in XferState /\ "refused" \in XferState /\ "unsent" \in XferState
    BY DEF XferState
  <1>1. CASE StartRun(c)
    <2>1. [r \in Releases |-> IF Listed(r) THEN rel[r] ELSE "absent"] \in Copies
      BY DEF TypeOK, Copies
    <2>2. cron' \in [Crons -> CronRec]
      BY <1>1, <2>1, IdleTypes DEF TypeOK, StartRun, CronRec, CronPc
    <2> QED
      BY <1>1, <2>2 DEF TypeOK, StartRun, cronOnly
  <1>2. CASE EndRun(c)
    BY <1>2, IdleTypes DEF TypeOK, EndRun, cronOnly
  <1>3. CASE Park(c)
    <2>1. "escrow_pending" \in RowStatus
      BY DEF RowStatus
    <2> QED
      BY <1>3, <2>1, CronWritesType DEF TypeOK, Park, cronOnly
  <1>4. CASE Lock(c)
    <2>1. "processing" \in RowStatus
      BY DEF RowStatus
    <2>2. xfer' \in [Releases -> Seq(XferState)]
      BY <1>4 DEF TypeOK, Lock, XferState
    <2>3. [cron[c].list EXCEPT ![cron[c].cur] = "processing"] \in Copies
      BY <2>1 DEF Copies
    <2>4. Len(xfer[cron[c].cur]) + 1 \in Nat
      BY DEF TypeOK
    <2>5. cron' \in [Crons -> CronRec]
      BY <1>4, <2>3, <2>4 DEF TypeOK, Lock, CronRec, CronPc
    <2> QED
      BY <1>4, <2>1, <2>2, <2>5, CronWritesType DEF TypeOK, Lock, cronOnly
  <1>5. CASE Request(c)
    <2>1. xfer' \in [Releases -> Seq(XferState)]
      <3>1. PICK st \in {"pending", "refused"} :
              xfer' = [xfer EXCEPT ![cron[c].cur][cron[c].att] = st]
        BY <1>5 DEF Request
      <3> QED
        BY <3>1, SetXferType
    <2>2. [cron[c] EXCEPT !.pc = "fail"] \in CronRec
      BY DEF CronRec, CronPc
    <2>3. cron' \in [Crons -> CronRec]
      BY <1>5, <2>2 DEF TypeOK, Request
    <2>4. cause' \in [Releases -> SUBSET Causes]
      BY <1>5 DEF TypeOK, Request, Blame, Causes
    <2> QED
      BY <1>5, <2>1, <2>3, <2>4 DEF TypeOK, Request, cronOnly
  <1>6. CASE Fail(c)
    <2>1. "failed" \in RowStatus
      BY DEF RowStatus
    <2>2. xfer' \in [Releases -> Seq(XferState)]
      BY <1>6, SetXferType DEF TypeOK, Fail
    <2> QED
      BY <1>6, <2>1, <2>2, CronWritesType DEF TypeOK, Fail, cronOnly
  <1>7. ASSUME NEW r \in Releases, TakeNext(c, r) PROVE TypeOK'
    <2>1. \A pc \in CronPc : [cron[c] EXCEPT !.cur = r, !.pc = pc] \in CronRec
      BY DEF CronRec
    <2>2. cron' \in [Crons -> CronRec]
      BY <1>7, <2>1 DEF TypeOK, TakeNext, CronPc
    <2> QED
      BY <1>7, <2>2 DEF TypeOK, TakeNext, cronOnly
  <1> QED
    BY <1>1, <1>2, <1>3, <1>4, <1>5, <1>6, <1>7 DEF CronStep

LEMMA GatewayStepType == ASSUME TypeOK, GatewayStep PROVE TypeOK'
  <1>1. ASSUME NEW r \in Releases, NEW i \in DOMAIN xfer[r], Settle(r, i) \/ Reverse(r, i)
        PROVE  xfer' \in [Releases -> Seq(XferState)] /\ UNCHANGED gateOnly
    <2>1. PICK st \in XferState : xfer' = [xfer EXCEPT ![r][i] = st]
      BY <1>1 DEF Settle, Reverse, XferState
    <2>2. xfer' \in [Releases -> Seq(XferState)]
      BY <2>1, SetXferType
    <2> QED
      BY <1>1, <2>2 DEF Settle, Reverse
  <1>2. xfer' \in [Releases -> Seq(XferState)] /\ UNCHANGED gateOnly
    BY <1>1 DEF GatewayStep
  <1> QED
    BY <1>2 DEF TypeOK, gateOnly

LEMMA HookStepType ==
    ASSUME TypeOK, NEW h \in Hooks, ReceiveAny(h) \/ HookStep(h) PROVE TypeOK'
  <1> hook[h] \in HookRec /\ hook[h].r \in Releases
    BY DEF TypeOK, HookRec
  <1>1. CASE ReceiveAny(h)
    <2> PICK r \in Releases : \E i \in DOMAIN xfer[r] : \E kind \in Kinds : Receive(h, r, i, kind)
      BY <1>1 DEF ReceiveAny
    <2> PICK i \in DOMAIN xfer[r] : \E kind \in Kinds : Receive(h, r, i, kind)
      OBVIOUS
    <2> PICK kind \in Kinds : Receive(h, r, i, kind)
      OBVIOUS
    <2>1. i \in Nat
      BY DEF TypeOK
    <2>2. hook' \in [Hooks -> HookRec]
      BY <2>1 DEF TypeOK, Receive, HookRec, HookPc
    <2> QED
      BY <2>2 DEF TypeOK, Receive, hookOnly
  <1>2. ASSUME NEW pc \in HookPc PROVE [hook[h] EXCEPT !.pc = pc] \in HookRec
    BY <1>2 DEF HookRec
  <1>3. CASE HookWrites(h)
    <2>1. rel' \in [Releases -> RowStatus]
      BY <1>3 DEF TypeOK, HookWrites, TargetOf, RowStatus
    <2>2. cause' \in [Releases -> SUBSET Causes]
      BY <1>3 DEF TypeOK, HookWrites, Blame, Causes
    <2>3. hook' \in [Hooks -> HookRec]
      BY <1>2, <1>3, IdleTypes DEF TypeOK, HookWrites, HookPc
    <2> QED
      BY <1>3, <2>1, <2>2, <2>3 DEF TypeOK, HookWrites, hookOnly
  <1>4. CASE CountReleases(h)
    BY <1>2, <1>4, IdleTypes DEF TypeOK, CountReleases, hookOnly, HookPc
  <1>5. CASE CountSubmissions(h)
    BY <1>2, <1>5, IdleTypes DEF TypeOK, CountSubmissions, hookOnly, HookPc
  <1>6. CASE CompleteCampaign(h)
    BY <1>6, IdleTypes DEF TypeOK, CompleteCampaign, hookOnly
  <1> QED
    BY <1>1, <1>3, <1>4, <1>5, <1>6 DEF HookStep

LEMMA DisputeStepType == ASSUME TypeOK, DisputeStep PROVE TypeOK'
  <1>1. ASSUME NEW r \in Releases, RaiseDispute(r) PROVE TypeOK'
    BY <1>1 DEF TypeOK, RaiseDispute, caseOnly, DisputeStatus, Active
  <1>2. ASSUME NEW r \in Releases, BlockPayout(r) PROVE TypeOK'
    BY <1>2 DEF TypeOK, BlockPayout, caseOnly, RowStatus
  <1> QED
    BY <1>1, <1>2 DEF DisputeStep

LEMMA AdminStepType == ASSUME TypeOK, NEW a \in Admins, AdminStep(a) PROVE TypeOK'
  <1> admin[a] \in AdminRec /\ admin[a].r \in Releases /\ admin[a].op \in Ops
      /\ admin[a].to \in RowStatus
    BY DEF TypeOK, AdminRec, RowStatus
  <1>1. ASSUME NEW r \in Releases, NEW op \in Ops, OpenDispute(a, r, op) PROVE TypeOK'
    <2>1. admin' \in [Admins -> AdminRec]
      BY <1>1 DEF TypeOK, OpenDispute, AdminRec
    <2> QED
      BY <1>1, <2>1 DEF TypeOK, OpenDispute, adminOnly, caseOnly
  <1>2. CASE SaveDispute(a)
    <2>1. admin' \in [Admins -> AdminRec]
      BY <1>2 DEF TypeOK, SaveDispute, AdminRec
    <2>2. dispute' \in [Releases -> DisputeStatus]
      BY <1>2 DEF TypeOK, SaveDispute, DisputeStatus, Active, Ops
    <2> QED
      BY <1>2, <2>1, <2>2 DEF TypeOK, SaveDispute, adminOnly, caseOnly
  <1>3. CASE ReadRelease(a)
    <2>1. \A pc \in {"idle", "write"} : \A to \in {"pending", "cancelled"} :
            [admin[a] EXCEPT !.copy = rel[admin[a].r], !.to = to, !.pc = pc] \in AdminRec
      BY DEF TypeOK, AdminRec
    <2>2. admin' \in [Admins -> AdminRec]
      BY <1>3, <2>1 DEF TypeOK, ReadRelease
    <2> QED
      BY <1>3, <2>2 DEF TypeOK, ReadRelease, adminOnly, caseOnly
  <1>4. CASE WriteRelease(a)
    <2>1. rel' \in [Releases -> RowStatus]
      BY <1>4 DEF TypeOK, WriteRelease, Saved
    <2>2. cause' \in [Releases -> SUBSET Causes]
      BY <1>4 DEF TypeOK, WriteRelease, Blame, Causes
    <2> QED
      BY <1>4, <2>1, <2>2, IdleTypes DEF TypeOK, WriteRelease, adminOnly, caseOnly
  <1> QED
    BY <1>1, <1>2, <1>3, <1>4 DEF AdminStep

LEMMA CrashStepType == ASSUME TypeOK, CrashStep PROVE TypeOK'
  <1>1. ASSUME NEW c \in Crons, CrashCron(c) PROVE TypeOK'
    <2>1. cron[c].cur \in Releases /\ "lost" \in XferState
      BY DEF TypeOK, CronRec, XferState
    <2>2. xfer' \in [Releases -> Seq(XferState)]
      BY <1>1, <2>1, SetXferType DEF TypeOK, CrashCron
    <2> QED
      BY <1>1, <2>2, IdleTypes DEF TypeOK, CrashCron, cronOnly
  <1>2. ASSUME NEW h \in Hooks, CrashHook(h) PROVE TypeOK'
    BY <1>2, IdleTypes DEF TypeOK, CrashHook, hookOnly
  <1>3. ASSUME NEW a \in Admins, CrashAdmin(a) PROVE TypeOK'
    BY <1>3, IdleTypes DEF TypeOK, CrashAdmin, adminOnly, caseOnly
  <1> QED
    BY <1>1, <1>2, <1>3 DEF CrashStep

LEMMA NextType == TypeOK /\ [Next]_vars => TypeOK'
  <1> SUFFICES ASSUME TypeOK, [Next]_vars PROVE TypeOK'
    OBVIOUS
  <1>1. CASE UNCHANGED vars
    BY <1>1 DEF TypeOK, vars
  <1>2. CASE Next
    BY <1>2, RowStepType, CronStepType, GatewayStepType, HookStepType, DisputeStepType,
       AdminStepType, CrashStepType DEF Next
  <1> QED
    BY <1>1, <1>2

\* Every reachable state of the payouts has the declared shape.
THEOREM TypeCorrect == Spec => []TypeOK
  BY InitType, NextType, PTL DEF Spec

-----------------------------------------------------------------------------
(* The lists of transfers.                                                 *)

\* No state, moving or not, makes a settled transfer or a held one different.
Kept ==
    \A r \in Releases : \A i \in DOMAIN xfer[r] :
        /\ i \in DOMAIN xfer'[r]
        /\ xfer[r][i] = "success" => xfer'[r][i] \in {"success", "reversed"}
        /\ xfer[r][i] \in {"failed", "reversed"} => xfer'[r][i] = xfer[r][i]

LEMMA XferFacts ==
    ASSUME TypeOK, NEW r \in Releases
    PROVE  /\ Len(xfer[r]) \in Nat
           /\ DOMAIN xfer[r] = 1 .. Len(xfer[r])
           /\ \A i \in DOMAIN xfer[r] : xfer[r][i] \in XferState
  BY DEF TypeOK

\* One transfer changes its state: the step, and what it makes of the lists.
Sets(r, i, st) == xfer' = [xfer EXCEPT ![r][i] = st]

IsSet(r, i, st) ==
    \A q \in Releases :
        /\ Len(xfer'[q]) = Len(xfer[q])
        /\ DOMAIN xfer'[q] = DOMAIN xfer[q]
        /\ \A j \in DOMAIN xfer[q] :
             xfer'[q][j] = IF q = r /\ j = i THEN st ELSE xfer[q][j]

LEMMA SetXfer ==
    ASSUME TypeOK, NEW r \in Releases, NEW i \in DOMAIN xfer[r], NEW st \in XferState,
           Sets(r, i, st)
    PROVE  IsSet(r, i, st)
  <1>1. xfer[r] \in Seq(XferState) /\ i \in 1 .. Len(xfer[r])
    BY XferFacts DEF TypeOK
  <1>2. /\ [xfer[r] EXCEPT ![i] = st] \in Seq(XferState)
        /\ Len([xfer[r] EXCEPT ![i] = st]) = Len(xfer[r])
        /\ \A j \in 1 .. Len(xfer[r]) :
             [xfer[r] EXCEPT ![i] = st][j] = IF j = i THEN st ELSE xfer[r][j]
    BY <1>1, ExceptSeq
  <1>3. xfer'[r] = [xfer[r] EXCEPT ![i] = st] /\ \A q \in Releases \ {r} : xfer'[q] = xfer[q]
    BY DEF TypeOK, Sets
  <1>4. DOMAIN xfer'[r] = 1 .. Len(xfer'[r]) /\ DOMAIN xfer[r] = 1 .. Len(xfer[r])
    BY <1>1, <1>2, <1>3
  <1> QED
    BY <1>2, <1>3, <1>4 DEF IsSet

\* A transfer is prepared.
LEMMA AppendXfer ==
    ASSUME TypeOK, NEW r \in Releases, xfer' = [xfer EXCEPT ![r] = Append(@, "prepared")]
    PROVE  /\ \A q \in Releases \ {r} : xfer'[q] = xfer[q]
           /\ Len(xfer'[r]) = Len(xfer[r]) + 1
           /\ DOMAIN xfer'[r] = 1 .. (Len(xfer[r]) + 1)
           /\ DOMAIN xfer[r] = 1 .. Len(xfer[r]) /\ Len(xfer[r]) \in Nat
           /\ \A j \in DOMAIN xfer[r] : xfer'[r][j] = xfer[r][j]
           /\ xfer'[r][Len(xfer[r]) + 1] = "prepared"
  <1>1. xfer[r] \in Seq(XferState) /\ "prepared" \in XferState
    BY DEF TypeOK, XferState
  <1>2. xfer'[r] = Append(xfer[r], "prepared") /\ \A q \in Releases \ {r} : xfer'[q] = xfer[q]
    BY DEF TypeOK
  <1> QED
    BY <1>1, <1>2

\* A row has no open transfer while its status is one the cron may list.
LEMMA UnlockedIsClear ==
    ASSUME NEW r \in Releases, RowLock(r), cause[r] = {}, rel[r] \notin Shut
    PROVE  \A i \in DOMAIN xfer[r] : xfer[r][i] \notin Open
  BY DEF RowLock

-----------------------------------------------------------------------------
(* What a step that is not of instance c leaves of its invariant.          *)

LEMMA CronFrame ==
    ASSUME NEW c \in Crons, CronOK(c), cron'[c] = cron[c], cron[c].cur \in Releases,
           \A r \in Releases : cause[r] # {} => cause'[r] # {},
           Holds(c) =>
             /\ cron[c].att \in DOMAIN xfer'[cron[c].cur]
             /\ xfer[cron[c].cur][cron[c].att] \in {"prepared", "refused"} =>
                  xfer'[cron[c].cur][cron[c].att] = xfer[cron[c].cur][cron[c].att]
    PROVE  CronOK(c)'
  BY DEF CronOK, Holds

LEMMA HookFrame ==
    ASSUME TypeOK, NEW h \in Hooks, HookOK(h), hook'[h] = hook[h], Kept
    PROVE  HookOK(h)'
  <1>1. hook[h].r \in Releases
    BY DEF TypeOK, HookRec
  <1> QED
    BY <1>1 DEF HookOK, Kept, Sent

LEMMA PaidFrame ==
    ASSUME ReleasedWasPaid, Kept,
           \A r \in Releases : rel'[r] = "released" => rel[r] = "released"
    PROVE  ReleasedWasPaid'
  BY DEF ReleasedWasPaid, Kept

\* A step that touches neither the instances nor the transfers keeps what is
\* said of them, if it blames a row and never clears one.
LEMMA QuietFrame ==
    ASSUME IInv, UNCHANGED <<cron, xfer>>,
           \A r \in Releases : cause[r] # {} => cause'[r] # {}
    PROVE  (\A c \in Crons : CronOK(c))' /\ HeldOnce' /\ Kept
  <1>1. ASSUME NEW c \in Crons PROVE CronOK(c)'
    <2>1. cron[c].cur \in Releases
      BY DEF IInv, Safe, TypeOK, CronRec
    <2> QED
      BY <2>1, CronFrame DEF IInv, Safe, CronOK
  <1>2. HeldOnce'
    BY DEF IInv, Safe, HeldOnce, Holds
  <1>3. Kept
    BY DEF Kept
  <1> QED
    BY <1>1, <1>2, <1>3

LEMMA Quiet ==
    ASSUME IInv, UNCHANGED <<rel, xfer, cron, cause>>, (\A h \in Hooks : HookOK(h))'
    PROVE  Safe'
  <1>1. (\A c \in Crons : CronOK(c))' /\ HeldOnce'
    BY QuietFrame
  <1>2. (\A r \in Releases : RowLock(r))'
    BY DEF IInv, Safe, RowLock
  <1>3. ReleasedWasPaid' /\ RefusalUnlocks'
    BY DEF IInv, Safe, ReleasedWasPaid, RefusalUnlocks
  <1> QED
    BY <1>1, <1>2, <1>3 DEF Safe

LEMMA SameHooks == ASSUME IInv, UNCHANGED <<xfer, hook>> PROVE (\A h \in Hooks : HookOK(h))'
  BY DEF IInv, Safe, HookOK, Sent

\* The status of one row is written, and someone may be blamed for it.
LEMMA RowWrite ==
    ASSUME IInv, UNCHANGED xfer, NEW r \in Releases, NEW st \in RowStatus,
           rel' = [rel EXCEPT ![r] = st], st # "processing",
           \A q \in Releases : cause[q] \subseteq cause'[q],
           cause'[r] = {} /\ st \notin Shut =>
              \A i \in DOMAIN xfer[r] : xfer[r][i] \notin Open,
           st = "released" => \E i \in DOMAIN xfer[r] : xfer[r][i] \in {"success", "reversed"}
    PROVE  (\A q \in Releases : RowLock(q))' /\ ReleasedWasPaid' /\ RefusalUnlocks'
  <1>1. rel'[r] = st /\ \A q \in Releases \ {r} : rel'[q] = rel[q]
    BY DEF IInv, TypeOK
  <1>2. ASSUME NEW q \in Releases PROVE RowLock(q)'
    <2>1. cause'[q] = {} => cause[q] = {}
      OBVIOUS
    <2>2. RowLock(q)
      BY DEF IInv, Safe
    <2>3. CASE q # r
      BY <1>1, <2>1, <2>2, <2>3 DEF RowLock
    <2>4. CASE q = r
      BY <1>1, <2>1, <2>2, <2>4 DEF RowLock
    <2> QED
      BY <2>3, <2>4
  <1>3. ReleasedWasPaid'
    BY <1>1 DEF IInv, Safe, ReleasedWasPaid
  <1>4. RefusalUnlocks'
    BY <1>1 DEF IInv, Safe, RefusalUnlocks
  <1> QED
    BY <1>2, <1>3, <1>4

LEMMA RowWriteSafe ==
    ASSUME IInv, UNCHANGED <<xfer, cron>>, NEW r \in Releases, NEW st \in RowStatus,
           rel' = [rel EXCEPT ![r] = st], st # "processing",
           \A q \in Releases : cause[q] \subseteq cause'[q],
           cause'[r] = {} /\ st \notin Shut =>
              \A i \in DOMAIN xfer[r] : xfer[r][i] \notin Open,
           st = "released" => \E i \in DOMAIN xfer[r] : xfer[r][i] \in {"success", "reversed"},
           (\A h \in Hooks : HookOK(h))'
    PROVE  Safe'
  <1>1. (\A c \in Crons : CronOK(c))' /\ HeldOnce'
    <2>1. \A q \in Releases : cause[q] # {} => cause'[q] # {}
      OBVIOUS
    <2> QED
      BY <2>1, QuietFrame
  <1>2. (\A q \in Releases : RowLock(q))' /\ ReleasedWasPaid' /\ RefusalUnlocks'
    BY RowWrite
  <1> QED
    BY <1>1, <1>2 DEF Safe

-----------------------------------------------------------------------------
(* Each step keeps the invariant.                                          *)

LEMMA InitSafe == Init => Safe
  <1> SUFFICES ASSUME Init PROVE Safe
    OBVIOUS
  <1>1. ASSUME NEW c \in Crons PROVE CronOK(c) /\ ~Holds(c)
    BY DEF Init, IdleCron, CronOK, Holds
  <1>2. HeldOnce
    BY <1>1 DEF HeldOnce
  <1>3. ASSUME NEW r \in Releases PROVE RowLock(r) /\ rel[r] = "none"
    BY DEF Init, RowLock
  <1>4. ASSUME NEW h \in Hooks PROVE HookOK(h)
    BY DEF Init, IdleHook, HookOK
  <1>5. ReleasedWasPaid /\ RefusalUnlocks
    BY <1>3 DEF ReleasedWasPaid, RefusalUnlocks
  <1> QED
    BY <1>1, <1>2, <1>3, <1>4, <1>5 DEF Safe

LEMMA RowStepSafe == ASSUME IInv, RowStep \/ FundEscrow PROVE Safe'
  <1>1. (\A h \in Hooks : HookOK(h))'
    BY SameHooks DEF RowStep, FundEscrow, ApproveSubmission, CreateRelease, DatePasses, rowVars
  <1>2. ASSUME NEW r \in Releases, CreateRelease(r) PROVE Safe'
    <2>1. UNCHANGED <<xfer, cron, cause>>
      BY <1>2 DEF CreateRelease, rowVars
    <2>2. cause[r] = {} => \A i \in DOMAIN xfer[r] : xfer[r][i] \notin Open
      BY <1>2, UnlockedIsClear DEF IInv, Safe, CreateRelease, Shut
    <2> QED
      BY <1>1, <1>2, <2>1, <2>2, RowWriteSafe DEF CreateRelease, RowStatus
  <1>3. ASSUME NEW r \in Releases, ApproveSubmission(r) \/ DatePasses(r) PROVE Safe'
    BY <1>1, <1>3, Quiet DEF ApproveSubmission, DatePasses, rowVars
  <1>4. CASE FundEscrow
    BY <1>1, <1>4, Quiet DEF FundEscrow, rowVars
  <1> QED
    BY <1>2, <1>3, <1>4 DEF RowStep

LEMMA DisputeStepSafe == ASSUME IInv, DisputeStep PROVE Safe'
  <1>1. (\A h \in Hooks : HookOK(h))'
    BY SameHooks DEF DisputeStep, RaiseDispute, BlockPayout, caseOnly
  <1>2. ASSUME NEW r \in Releases, RaiseDispute(r) PROVE Safe'
    BY <1>1, <1>2, Quiet DEF RaiseDispute, caseOnly
  <1>3. ASSUME NEW r \in Releases, BlockPayout(r) PROVE Safe'
    <2>1. UNCHANGED <<xfer, cron, cause>>
      BY <1>3 DEF BlockPayout, caseOnly
    <2>2. CASE rel[r] = "none"
      BY <1>1, <1>3, <2>1, <2>2, Quiet DEF BlockPayout
    <2>3. CASE rel[r] # "none"
      BY <1>1, <1>3, <2>1, <2>3, RowWriteSafe DEF BlockPayout, RowStatus, Shut
    <2> QED
      BY <2>2, <2>3
  <1> QED
    BY <1>2, <1>3 DEF DisputeStep

LEMMA AdminStepSafe == ASSUME IInv, NEW a \in Admins, AdminStep(a) PROVE Safe'
  <1>1. (\A h \in Hooks : HookOK(h))'
    BY SameHooks DEF AdminStep, OpenDispute, SaveDispute, ReadRelease, WriteRelease,
                     adminOnly, caseOnly
  <1>2. CASE WriteRelease(a)
    <2> DEFINE r == admin[a].r
               to == admin[a].to
    <2>1. r \in Releases /\ to \in {"pending", "cancelled"}
      BY DEF IInv, TypeOK, AdminRec
    <2>2. UNCHANGED <<xfer, cron>>
      BY <1>2 DEF WriteRelease, adminOnly, caseOnly
    <2>3. CASE admin[a].copy = to
      BY <1>1, <1>2, <2>2, <2>3, Quiet DEF WriteRelease, Saved, Blame
    <2>4. CASE admin[a].copy # to
      <3>1. rel' = [rel EXCEPT ![r] = to]
        BY <1>2, <2>4 DEF WriteRelease, Saved
      <3>2. cause' = Blame(r, "reopened", to = "pending" /\ Underway(r))
        BY <1>2, <2>4 DEF WriteRelease
      <3>3. \A q \in Releases : cause[q] \subseteq cause'[q]
        BY <2>1, <3>2 DEF Blame, IInv, TypeOK
      <3>4. cause'[r] = {} /\ to \notin Shut =>
              \A i \in DOMAIN xfer[r] : xfer[r][i] \notin Open
        BY <2>1, <3>2 DEF Blame, IInv, TypeOK, Underway, Shut
      <3> QED
        BY <1>1, <2>1, <2>2, <3>1, <3>3, <3>4, RowWriteSafe DEF RowStatus
    <2> QED
      BY <2>3, <2>4
  <1>3. ASSUME NEW r \in Releases, NEW op \in Ops, OpenDispute(a, r, op) PROVE Safe'
    BY <1>1, <1>3, Quiet DEF OpenDispute, adminOnly, caseOnly
  <1>4. CASE SaveDispute(a)
    BY <1>1, <1>4, Quiet DEF SaveDispute, adminOnly, caseOnly
  <1>5. CASE ReadRelease(a)
    BY <1>1, <1>5, Quiet DEF ReadRelease, adminOnly, caseOnly
  <1> QED
    BY <1>2, <1>3, <1>4, <1>5 DEF AdminStep

LEMMA GatewayStepSafe == ASSUME IInv, GatewayStep PROVE Safe'
  <1> PICK r \in Releases : \E i \in DOMAIN xfer[r] : Settle(r, i) \/ Reverse(r, i)
    BY DEF GatewayStep
  <1> PICK i \in DOMAIN xfer[r] : Settle(r, i) \/ Reverse(r, i)
    OBVIOUS
  <1>1. PICK st \in XferState :
          /\ xfer' = [xfer EXCEPT ![r][i] = st]
          /\ \/ xfer[r][i] = "pending" /\ st \in {"success", "failed"}
             \/ xfer[r][i] = "success" /\ st = "reversed"
    BY DEF Settle, Reverse, XferState
  <1>2. UNCHANGED <<rel, cron, hook, cause>>
    BY DEF Settle, Reverse, gateOnly
  <1>3. IsSet(r, i, st)
    BY <1>1, SetXfer DEF IInv, Sets
  <1>4. Kept
    <2>1. ASSUME NEW q \in Releases, NEW j \in DOMAIN xfer[q]
          PROVE  /\ j \in DOMAIN xfer'[q]
                 /\ xfer[q][j] = "success" => xfer'[q][j] \in {"success", "reversed"}
                 /\ xfer[q][j] \in {"failed", "reversed"} => xfer'[q][j] = xfer[q][j]
      <3>1. CASE q = r /\ j = i
        BY <1>1, <1>3, <3>1 DEF IsSet
      <3>2. CASE ~(q = r /\ j = i)
        BY <1>3, <3>2 DEF IsSet
      <3> QED
        BY <3>1, <3>2
    <2> QED
      BY <2>1 DEF Kept
  <1>5. ASSUME NEW c \in Crons PROVE CronOK(c)'
    <2>1. CronOK(c) /\ cron[c].cur \in Releases
      BY DEF IInv, Safe, TypeOK, CronRec
    <2>2. Holds(c) =>
            /\ cron[c].att \in DOMAIN xfer'[cron[c].cur]
            /\ xfer[cron[c].cur][cron[c].att] \in {"prepared", "refused"} =>
                 xfer'[cron[c].cur][cron[c].att] = xfer[cron[c].cur][cron[c].att]
      BY <1>1, <1>3, <2>1 DEF CronOK, IsSet
    <2> QED
      BY <1>2, <2>1, <2>2, CronFrame
  <1>6. HeldOnce'
    BY <1>2 DEF IInv, Safe, HeldOnce, Holds
  <1>7. ASSUME NEW q \in Releases PROVE RowLock(q)'
    <2>1. RowLock(q)
      BY DEF IInv, Safe
    <2>2. ASSUME NEW j \in DOMAIN xfer[q], xfer'[q][j] \in Open PROVE xfer[q][j] \in Open
      BY <1>1, <1>3, <2>2 DEF Open, Moving, IsSet
    <2> QED
      BY <1>2, <1>3, <2>1, <2>2 DEF RowLock, IsSet
  <1>8. (\A h \in Hooks : HookOK(h))'
    BY <1>2, <1>4, HookFrame DEF IInv, Safe
  <1>9. ReleasedWasPaid'
    BY <1>2, <1>4, PaidFrame DEF IInv, Safe
  <1>10. RefusalUnlocks'
    <2>1. ASSUME NEW q \in Releases, rel[q] = "processing"
          PROVE  xfer'[q] # <<>> /\ xfer'[q][Len(xfer'[q])] # "unsent"
      <3>1. /\ xfer[q] # <<>> /\ xfer[q][Len(xfer[q])] # "unsent"
            /\ xfer[q] \in Seq(XferState) /\ xfer'[q] \in Seq(XferState)
        BY <1>1, <2>1, SetXferType DEF IInv, Safe, TypeOK, RefusalUnlocks
      <3>2. Len(xfer[q]) \in DOMAIN xfer[q]
        BY <3>1
      <3> QED
        BY <1>1, <1>3, <3>1, <3>2 DEF IsSet
    <2> QED
      BY <1>2, <2>1 DEF RefusalUnlocks
  <1> QED
    BY <1>5, <1>6, <1>7, <1>8, <1>9, <1>10 DEF Safe

LEMMA HookStepSafe == ASSUME IInv, NEW h \in Hooks, ReceiveAny(h) \/ HookStep(h) PROVE Safe'
  <1> hook \in [Hooks -> HookRec] /\ hook[h] \in HookRec
    BY DEF IInv, TypeOK
  <1>1. ASSUME UNCHANGED xfer, NEW rec, hook' = [hook EXCEPT ![h] = rec],
               rec.pc = "write" => rec.i \in DOMAIN xfer[rec.r] /\ Sent(rec.r, rec.i, rec.kind)
        PROVE  (\A g \in Hooks : HookOK(g))'
    BY <1>1 DEF IInv, Safe, HookOK, Sent
  <1>2. CASE ReceiveAny(h)
    <2> PICK r \in Releases : \E i \in DOMAIN xfer[r] : \E kind \in Kinds : Receive(h, r, i, kind)
      BY <1>2 DEF ReceiveAny
    <2> PICK i \in DOMAIN xfer[r] : \E kind \in Kinds : Receive(h, r, i, kind)
      OBVIOUS
    <2> PICK kind \in Kinds : Receive(h, r, i, kind)
      OBVIOUS
    <2>1. UNCHANGED <<rel, xfer, cron, cause>> /\ Sent(r, i, kind)
      BY DEF Receive, hookOnly
    <2>2. (\A g \in Hooks : HookOK(g))'
      BY <1>1, <2>1 DEF Receive
    <2> QED
      BY <2>1, <2>2, Quiet
  <1>3. CASE CountReleases(h) \/ CountSubmissions(h) \/ CompleteCampaign(h)
    <2>1. UNCHANGED <<rel, xfer, cron, cause>>
      BY <1>3 DEF CountReleases, CountSubmissions, CompleteCampaign, hookOnly
    <2>2. IdleHook.pc # "write" /\ [hook[h] EXCEPT !.pc = "subs"].pc # "write"
          /\ [hook[h] EXCEPT !.pc = "complete"].pc # "write"
      BY DEF IdleHook, HookRec
    <2>3. PICK rec : hook' = [hook EXCEPT ![h] = rec] /\ rec.pc # "write"
      BY <1>3, <2>2 DEF CountReleases, CountSubmissions, CompleteCampaign
    <2>4. (\A g \in Hooks : HookOK(g))'
      BY <1>1, <2>1, <2>3
    <2> QED
      BY <2>1, <2>4, Quiet
  <1>4. CASE HookWrites(h)
    <2> DEFINE r == hook[h].r
               i == hook[h].i
               st == TargetOf(hook[h].kind)
    <2>1. r \in Releases /\ i \in Nat /\ st \in {"released", "failed"}
      BY DEF HookRec, TargetOf
    <2>2. UNCHANGED <<xfer, cron>> /\ rel' = [rel EXCEPT ![r] = st]
      BY <1>4 DEF HookWrites, hookOnly
    <2>3. i \in DOMAIN xfer[r] /\ Sent(r, i, hook[h].kind) /\ RowLock(r)
      BY <1>4, <2>1 DEF HookWrites, IInv, Safe, HookOK
    <2>4. cause' = Blame(r, "old_failure", hook[h].kind = "failed" /\ i < Len(xfer[r]))
      BY <1>4 DEF HookWrites
    <2>5. \A q \in Releases : cause[q] \subseteq cause'[q]
      BY <2>1, <2>4 DEF Blame, IInv, TypeOK
    <2>6. cause'[r] = {} /\ st \notin Shut =>
            \A j \in DOMAIN xfer[r] : xfer[r][j] \notin Open
      <3> SUFFICES ASSUME cause'[r] = {}, st \notin Shut, NEW j \in DOMAIN xfer[r],
                          xfer[r][j] \in Open
                   PROVE  FALSE
        OBVIOUS
      <3>1. hook[h].kind = "failed"
        BY <2>1 DEF Shut, TargetOf, HookRec, Kinds
      <3>2. ~(i < Len(xfer[r])) /\ cause[r] = {}
        BY <2>1, <2>4, <3>1 DEF Blame, IInv, TypeOK
      <3>3. i = Len(xfer[r])
        BY <2>1, <2>3, <3>2, XferFacts DEF IInv
      <3>4. j = Len(xfer[r])
        BY <2>3, <3>2 DEF RowLock
      <3> QED
        BY <2>3, <3>1, <3>3, <3>4 DEF Sent, Open, Moving
    <2>7. st = "released" => \E j \in DOMAIN xfer[r] : xfer[r][j] \in {"success", "reversed"}
      BY <2>3 DEF TargetOf, Sent, HookRec, Kinds
    <2>8. PICK rec : hook' = [hook EXCEPT ![h] = rec] /\ rec.pc # "write"
      <3>1. IdleHook.pc # "write" /\ [hook[h] EXCEPT !.pc = "count"].pc # "write"
        BY DEF IdleHook, HookRec
      <3> QED
        BY <1>4, <3>1 DEF HookWrites
    <2>9. (\A g \in Hooks : HookOK(g))'
      BY <1>1, <2>2, <2>8
    <2> QED
      BY <2>1, <2>2, <2>5, <2>6, <2>7, <2>9, RowWriteSafe DEF RowStatus
  <1> QED
    BY <1>2, <1>3, <1>4 DEF HookStep

\* An instance that moves on alone: its own invariant is shown by the caller,
\* and what it does to a transfer is not seen by the holder of another one.
LEMMA CronMoves ==
    ASSUME IInv, NEW c \in Crons, CronOK(c)',
           \A d \in Crons \ {c} : cron'[d] = cron[d],
           \A r \in Releases : cause[r] # {} => cause'[r] # {},
           \A d \in Crons \ {c} : Holds(d) =>
             /\ cron[d].att \in DOMAIN xfer'[cron[d].cur]
             /\ xfer[cron[d].cur][cron[d].att] \in {"prepared", "refused"} =>
                  xfer'[cron[d].cur][cron[d].att] = xfer[cron[d].cur][cron[d].att],
           Holds(c)' => \A d \in Crons \ {c} :
             Holds(d) => <<cron[d].cur, cron[d].att>> # <<cron'[c].cur, cron'[c].att>>
    PROVE  (\A d \in Crons : CronOK(d))' /\ HeldOnce'
  <1>1. ASSUME NEW d \in Crons \ {c} PROVE CronOK(d)'
    <2>1. CronOK(d) /\ cron[d].cur \in Releases
      BY DEF IInv, Safe, TypeOK, CronRec
    <2> QED
      BY <2>1, CronFrame
  <1>2. HeldOnce'
    BY DEF IInv, Safe, HeldOnce, Holds
  <1> QED
    BY <1>1, <1>2

\* The part of the invariant about rows and handlers, on a step that leaves them.
LEMMA RowsStay ==
    ASSUME IInv, UNCHANGED <<rel, xfer, cause, hook>>
    PROVE  /\ (\A r \in Releases : RowLock(r))' /\ (\A h \in Hooks : HookOK(h))'
           /\ ReleasedWasPaid' /\ RefusalUnlocks'
  <1>1. (\A h \in Hooks : HookOK(h))'
    BY SameHooks
  <1> QED
    BY <1>1 DEF IInv, Safe, RowLock, ReleasedWasPaid, RefusalUnlocks

LEMMA TurnOverOK ==
    ASSUME IInv, NEW c \in Crons, cron'[c] = TurnOver(c)
    PROVE  CronOK(c)' /\ ~Holds(c)'
  <1>1. CronOK(c) /\ cron[c] \in CronRec /\ cron[c].cur \in Releases
    BY DEF IInv, Safe, TypeOK, CronRec
  <1>2. /\ cron'[c].pc = "next" /\ cron'[c].att = 0
        /\ cron'[c].list = [cron[c].list EXCEPT ![cron[c].cur] = "absent"]
    BY DEF TurnOver
  <1>3. \A r \in Releases : cron'[c].list[r] \in DueStatus \cup {"absent"}
    BY <1>1, <1>2 DEF CronOK, CronRec, Copies
  <1> QED
    BY <1>2, <1>3 DEF CronOK, Holds

\* A step of the loop that touches no row and no transfer.
LEMMA LoopSafe ==
    ASSUME IInv, NEW c \in Crons, NEW rec, cron' = [cron EXCEPT ![c] = rec],
           UNCHANGED <<rel, xfer, cause, hook>>, CronOK(c)', ~Holds(c)'
    PROVE  Safe'
  <1>1. \A d \in Crons \ {c} : cron'[d] = cron[d]
    BY DEF IInv, TypeOK
  <1>2. \A d \in Crons : Holds(d) => cron[d].att \in DOMAIN xfer[cron[d].cur]
    BY DEF IInv, Safe, CronOK
  <1>3. (\A d \in Crons : CronOK(d))' /\ HeldOnce'
    BY <1>1, <1>2, CronMoves
  <1> QED
    BY <1>3, RowsStay DEF Safe

LEMMA CronLoopSafe ==
    ASSUME IInv, NEW c \in Crons, StartRun(c) \/ EndRun(c) \/ \E r \in Releases : TakeNext(c, r)
    PROVE  Safe'
  <1> cron \in [Crons -> CronRec] /\ cron[c] \in CronRec /\ CronOK(c)
    BY DEF IInv, Safe, TypeOK
  <1>1. CASE StartRun(c)
    <2>1. UNCHANGED <<rel, xfer, cause, hook>>
      BY <1>1 DEF StartRun, cronOnly
    <2> DEFINE l == [r \in Releases |-> IF Listed(r) THEN rel[r] ELSE "absent"]
    <2>2. cron' = [cron EXCEPT ![c] = [IdleCron EXCEPT !.pc = "next", !.list = l]]
      BY <1>1 DEF StartRun
    <2>3. cron'[c].pc = "next" /\ cron'[c].list = l /\ cron'[c].att = 0
      BY <2>2 DEF IdleCron
    <2>4. \A r \in Releases : l[r] \in DueStatus \cup {"absent"}
      BY DEF Listed
    <2>5. CronOK(c)' /\ ~Holds(c)'
      BY <2>3, <2>4 DEF CronOK, Holds
    <2> HIDE DEF l
    <2> QED
      BY <2>1, <2>2, <2>5, LoopSafe
  <1>2. CASE EndRun(c)
    <2>1. UNCHANGED <<rel, xfer, cause, hook>> /\ cron' = [cron EXCEPT ![c] = IdleCron]
      BY <1>2 DEF EndRun, cronOnly
    <2>2. cron'[c].pc = "idle" /\ cron'[c].att = 0
          /\ \A r \in Releases : cron'[c].list[r] = "absent"
      BY <2>1 DEF IdleCron
    <2>3. CronOK(c)' /\ ~Holds(c)'
      BY <2>2 DEF CronOK, Holds
    <2> QED
      BY <2>1, <2>3, LoopSafe
  <1>3. ASSUME NEW r \in Releases, TakeNext(c, r) PROVE Safe'
    <2>1. UNCHANGED <<rel, xfer, cause, hook>>
      BY <1>3 DEF TakeNext, cronOnly
    <2>2. PICK pc \in {"fail", "lock", "park"} :
            cron' = [cron EXCEPT ![c] = [cron[c] EXCEPT !.cur = r, !.pc = pc]]
      BY <1>3 DEF TakeNext
    <2>3. cron[c].pc = "next" /\ cron[c].list[r] # "absent" /\ cron[c].att = 0
      BY <1>3 DEF TakeNext, CronOK
    <2>4. /\ cron'[c].pc = pc /\ cron'[c].cur = r
          /\ cron'[c].list = cron[c].list /\ cron'[c].att = 0
      BY <2>2, <2>3 DEF CronRec
    <2>5. CronOK(c)' /\ ~Holds(c)'
      BY <2>3, <2>4 DEF CronOK, Holds
    <2> QED
      BY <2>1, <2>2, <2>5, LoopSafe
  <1> QED
    BY <1>1, <1>2, <1>3

\* An instance without a transfer gives its row up: nothing was sent for it.
LEMMA GiveUpSafe ==
    ASSUME IInv, NEW c \in Crons, NEW new \in {"escrow_pending", "failed"}, CronWrites(c, new),
           UNCHANGED <<xfer, hook>>, cron' = [cron EXCEPT ![c] = TurnOver(c)],
           cron[c].pc \in {"park", "fail"}, ~Holds(c)
    PROVE  Safe'
  <1> DEFINE r == cron[c].cur
             copy == cron[c].list[r]
  <1>1. r \in Releases /\ copy \in DueStatus
    BY DEF IInv, Safe, CronOK, TypeOK, CronRec
  <1>2. cron'[c] = TurnOver(c) /\ \A d \in Crons \ {c} : cron'[d] = cron[d]
    BY DEF IInv, TypeOK
  <1>3. CronOK(c)' /\ ~Holds(c)'
    BY <1>2, TurnOverOK
  <1>4. CASE copy = new
    <2>1. UNCHANGED <<rel, cause>>
      BY <1>4 DEF CronWrites, Saved, Blame
    <2> QED
      BY <1>3, <2>1, LoopSafe
  <1>5. CASE copy # new
    <2>1. rel' = [rel EXCEPT ![r] = new] /\ cause' = Blame(r, "stale_copy", rel[r] # copy)
      BY <1>5 DEF CronWrites, Saved, Stale
    <2>2. \A q \in Releases : cause[q] \subseteq cause'[q]
      BY <1>1, <2>1 DEF Blame, IInv, TypeOK
    <2>3. cause'[r] = {} => \A j \in DOMAIN xfer[r] : xfer[r][j] \notin Open
      <3>1. cause'[r] = {} => cause[r] = {} /\ rel[r] = copy
        BY <1>1, <2>1 DEF Blame, IInv, TypeOK
      <3>2. RowLock(r)
        BY <1>1 DEF IInv, Safe
      <3> QED
        BY <1>1, <3>1, <3>2, UnlockedIsClear DEF DueStatus, Shut
    <2>4. (\A q \in Releases : RowLock(q))' /\ ReleasedWasPaid' /\ RefusalUnlocks'
      BY <1>1, <2>1, <2>2, <2>3, RowWrite DEF RowStatus
    <2>5. \A d \in Crons : Holds(d) => cron[d].att \in DOMAIN xfer[cron[d].cur]
      BY DEF IInv, Safe, CronOK
    <2>6. \A q \in Releases : cause[q] # {} => cause'[q] # {}
      BY <2>2
    <2>7. (\A d \in Crons : CronOK(d))' /\ HeldOnce'
      BY <1>2, <1>3, <2>5, <2>6, CronMoves
    <2>8. (\A h \in Hooks : HookOK(h))'
      BY SameHooks
    <2> QED
      BY <2>4, <2>7, <2>8 DEF Safe
  <1> QED
    BY <1>4, <1>5

LEMMA ParkSafe == ASSUME IInv, NEW c \in Crons, Park(c) PROVE Safe'
  <1>1. UNCHANGED <<xfer, hook>> /\ cron[c].pc = "park" /\ ~Holds(c)
    BY DEF Park, cronOnly, Holds
  <1> QED
    BY <1>1, GiveUpSafe DEF Park

\* A holder moves its own transfer on: no other instance, and no handler, sees it.
LEMMA HolderSets ==
    ASSUME IInv, NEW c \in Crons, Holds(c), NEW st \in {"pending", "refused", "unsent", "lost"},
           xfer[cron[c].cur][cron[c].att] \in {"prepared", "refused"},
           xfer' = [xfer EXCEPT ![cron[c].cur][cron[c].att] = st],
           \A d \in Crons \ {c} : cron'[d] = cron[d],
           UNCHANGED hook, CronOK(c)',
           \A q \in Releases : cause[q] # {} => cause'[q] # {},
           Holds(c)' => cron'[c].cur = cron[c].cur /\ cron'[c].att = cron[c].att
    PROVE  /\ (\A d \in Crons : CronOK(d))' /\ HeldOnce'
           /\ (\A h \in Hooks : HookOK(h))' /\ Kept
  <1> DEFINE r == cron[c].cur
             i == cron[c].att
  <1>1. r \in Releases /\ i \in DOMAIN xfer[r] /\ st \in XferState
    BY DEF IInv, Safe, CronOK, TypeOK, CronRec, XferState
  <1>2. IsSet(r, i, st)
    BY <1>1, SetXfer DEF IInv, Sets
  <1>3. ASSUME NEW d \in Crons \ {c}, Holds(d)
        PROVE  /\ cron[d].att \in DOMAIN xfer'[cron[d].cur]
               /\ xfer'[cron[d].cur][cron[d].att] = xfer[cron[d].cur][cron[d].att]
               /\ <<cron[d].cur, cron[d].att>> # <<r, i>>
    <2>1. cron[d].cur \in Releases /\ cron[d].att \in DOMAIN xfer[cron[d].cur]
      BY <1>3 DEF IInv, Safe, CronOK, TypeOK, CronRec
    <2>2. ~(cron[d].cur = r /\ cron[d].att = i)
      BY <1>3 DEF IInv, Safe, HeldOnce
    <2> QED
      BY <1>2, <2>1, <2>2 DEF IsSet
  <1>4. (\A d \in Crons : CronOK(d))' /\ HeldOnce'
    BY <1>3, CronMoves
  <1>5. Kept
    <2>1. ASSUME NEW q \in Releases, NEW j \in DOMAIN xfer[q]
          PROVE  /\ j \in DOMAIN xfer'[q]
                 /\ xfer[q][j] = "success" => xfer'[q][j] \in {"success", "reversed"}
                 /\ xfer[q][j] \in {"failed", "reversed"} => xfer'[q][j] = xfer[q][j]
      <3>1. CASE q = r /\ j = i
        BY <1>2, <3>1 DEF IsSet
      <3>2. CASE ~(q = r /\ j = i)
        BY <1>2, <3>2 DEF IsSet
      <3> QED
        BY <3>1, <3>2
    <2> QED
      BY <2>1 DEF Kept
  <1>6. (\A h \in Hooks : HookOK(h))'
    BY <1>5, HookFrame DEF IInv, Safe
  <1> QED
    BY <1>4, <1>5, <1>6

\* A held transfer moves on and the rows stay: the lock of the row still tells.
LEMMA HolderRows ==
    ASSUME IInv, NEW r \in Releases, NEW i \in DOMAIN xfer[r],
           NEW st \in {"pending", "refused", "lost"},
           xfer[r][i] \in {"prepared", "refused"},
           xfer' = [xfer EXCEPT ![r][i] = st],
           UNCHANGED rel, \A q \in Releases : cause[q] # {} => cause'[q] # {}, Kept
    PROVE  (\A q \in Releases : RowLock(q))' /\ ReleasedWasPaid' /\ RefusalUnlocks'
  <1>1. IsSet(r, i, st)
    BY SetXfer DEF IInv, XferState, Sets
  <1>2. ASSUME NEW q \in Releases PROVE RowLock(q)'
    <2>1. RowLock(q)
      BY DEF IInv, Safe
    <2>2. ASSUME NEW j \in DOMAIN xfer[q], xfer'[q][j] \in Open PROVE xfer[q][j] \in Open
      BY <1>1, <2>2 DEF Open, Moving, IsSet
    <2> QED
      BY <1>1, <2>1, <2>2 DEF RowLock, IsSet
  <1>3. ReleasedWasPaid'
    BY PaidFrame DEF IInv, Safe
  <1>4. RefusalUnlocks'
    <2>1. ASSUME NEW q \in Releases, rel[q] = "processing"
          PROVE  xfer'[q] # <<>> /\ xfer'[q][Len(xfer'[q])] # "unsent"
      <3>1. /\ xfer[q] # <<>> /\ xfer[q][Len(xfer[q])] # "unsent"
            /\ xfer[q] \in Seq(XferState) /\ xfer'[q] \in Seq(XferState)
        BY <2>1, SetXferType DEF IInv, Safe, TypeOK, RefusalUnlocks, XferState
      <3>2. Len(xfer[q]) \in DOMAIN xfer[q]
        BY <3>1
      <3> QED
        BY <1>1, <3>1, <3>2 DEF IsSet
    <2> QED
      BY <2>1 DEF RefusalUnlocks
  <1> QED
    BY <1>2, <1>3, <1>4

LEMMA RequestSafe == ASSUME IInv, NEW c \in Crons, Request(c) PROVE Safe'
  <1> DEFINE r == cron[c].cur
             i == cron[c].att
  <1>1. /\ CronOK(c) /\ Holds(c) /\ cron[c] \in CronRec /\ r \in Releases
        /\ i \in DOMAIN xfer[r] /\ xfer[r][i] = "prepared"
        /\ cron[c].list[r] = "processing"
    BY DEF Request, IInv, Safe, CronOK, Holds, TypeOK, CronRec
  <1>2. PICK st \in {"pending", "refused"} :
          /\ xfer' = [xfer EXCEPT ![r][i] = st]
          /\ \/ cron' = [cron EXCEPT ![c] = TurnOver(c)]
             \/ /\ cron' = [cron EXCEPT ![c] = [cron[c] EXCEPT !.pc = "fail"]]
                /\ st = "refused" \/ cause' = Blame(r, "lost_reply", TRUE)
          /\ UNCHANGED cause \/ cause' = Blame(r, "lost_reply", TRUE)
    BY DEF Request
  <1>3. UNCHANGED <<rel, hook>> /\ cron \in [Crons -> CronRec]
    BY DEF Request, cronOnly, IInv, TypeOK
  <1>4. \A q \in Releases : cause[q] # {} => cause'[q] # {}
    <2>1. CASE UNCHANGED cause
      BY <2>1
    <2>2. CASE cause' = Blame(r, "lost_reply", TRUE)
      BY <1>1, <2>2 DEF Blame, IInv, TypeOK
    <2> QED
      BY <1>2, <2>1, <2>2
  <1>5. \A d \in Crons \ {c} : cron'[d] = cron[d]
    BY <1>2, <1>3
  <1>6. CronOK(c)' /\ (Holds(c)' => cron'[c].cur = r /\ cron'[c].att = i)
    <2>1. CASE cron' = [cron EXCEPT ![c] = TurnOver(c)]
      BY <1>3, <2>1, TurnOverOK
    <2>2. CASE /\ cron' = [cron EXCEPT ![c] = [cron[c] EXCEPT !.pc = "fail"]]
               /\ st = "refused" \/ cause' = Blame(r, "lost_reply", TRUE)
      <3>1. /\ cron'[c].pc = "fail" /\ cron'[c].cur = r /\ cron'[c].att = i
            /\ cron'[c].list = cron[c].list
        BY <1>1, <1>3, <2>2 DEF CronRec
      <3>2. i \in DOMAIN xfer'[r] /\ xfer'[r][i] = st
        <4>1. TypeOK /\ st \in XferState /\ Sets(r, i, st)
          BY <1>2 DEF IInv, XferState, Sets
        <4>2. IsSet(r, i, st)
          BY <1>1, <4>1, SetXfer
        <4> QED
          BY <1>1, <4>2 DEF IsSet
      <3>3. st = "refused" \/ cause'[r] # {}
        BY <1>1, <2>2 DEF Blame, IInv, TypeOK
      <3> QED
        BY <1>1, <3>1, <3>2, <3>3 DEF CronOK, Holds
    <2> QED
      BY <1>2, <2>1, <2>2
  <1>7. /\ (\A d \in Crons : CronOK(d))' /\ HeldOnce'
        /\ (\A h \in Hooks : HookOK(h))' /\ Kept
    BY <1>1, <1>2, <1>3, <1>4, <1>5, <1>6, HolderSets
  <1>8. (\A q \in Releases : RowLock(q))' /\ ReleasedWasPaid' /\ RefusalUnlocks'
    BY <1>1, <1>2, <1>3, <1>4, <1>7, HolderRows
  <1> QED
    BY <1>7, <1>8 DEF Safe

LEMMA LockSafe == ASSUME IInv, NEW c \in Crons, Lock(c) PROVE Safe'
  <1> DEFINE r == cron[c].cur
             copy == cron[c].list[r]
             n == Len(xfer[r]) + 1
  <1>1. r \in Releases /\ copy \in DueStatus /\ cron \in [Crons -> CronRec]
    BY DEF Lock, IInv, Safe, CronOK, Holds, TypeOK, CronRec
  <1>2. /\ rel' = [rel EXCEPT ![r] = "processing"]
        /\ cause' = Blame(r, "stale_copy", rel[r] # copy)
    BY <1>1 DEF Lock, CronWrites, Saved, Stale, DueStatus
  <1>3. UNCHANGED hook
    BY DEF Lock, cronOnly
  <1>4. /\ \A q \in Releases \ {r} : xfer'[q] = xfer[q]
        /\ Len(xfer'[r]) = n /\ DOMAIN xfer'[r] = 1 .. n
        /\ DOMAIN xfer[r] = 1 .. Len(xfer[r]) /\ Len(xfer[r]) \in Nat
        /\ \A j \in DOMAIN xfer[r] : xfer'[r][j] = xfer[r][j]
        /\ xfer'[r][n] = "prepared"
    BY <1>1, AppendXfer DEF Lock, IInv
  <1>5. \A q \in Releases : \A j \in DOMAIN xfer[q] :
          j \in DOMAIN xfer'[q] /\ xfer'[q][j] = xfer[q][j]
    BY <1>4
  <1>6. Kept
    BY <1>5 DEF Kept
  <1>7. \A q \in Releases : cause[q] # {} => cause'[q] # {}
    BY <1>1, <1>2 DEF Blame, IInv, TypeOK
  <1>8. (\A d \in Crons : CronOK(d))' /\ HeldOnce'
    <2>1. /\ cron'[c].pc = "request" /\ cron'[c].cur = r /\ cron'[c].att = n
          /\ cron'[c].list = [cron[c].list EXCEPT ![r] = "processing"]
          /\ \A d \in Crons \ {c} : cron'[d] = cron[d]
      BY <1>1 DEF Lock
    <2>2. CronOK(c)'
      <3>1. /\ \A q \in Releases : cron[c].list[q] \in DueStatus \cup {"absent"}
            /\ cron[c].list \in [Releases -> RowStatus \cup {"absent"}]
        BY DEF Lock, IInv, Safe, CronOK, Holds, TypeOK, CronRec, Copies
      <3>2. cron'[c].list[r] = "processing"
            /\ \A q \in Releases \ {r} : cron'[c].list[q] = cron[c].list[q]
        BY <1>1, <2>1, <3>1
      <3>3. n > 0 /\ n \in DOMAIN xfer'[r]
        BY <1>4
      <3>4. Holds(c)'
        BY <2>1, <3>3 DEF Holds
      <3> QED
        BY <1>4, <2>1, <3>1, <3>2, <3>3, <3>4 DEF CronOK
    <2>3. ASSUME NEW d \in Crons \ {c}, Holds(d)
          PROVE  /\ cron[d].att \in DOMAIN xfer'[cron[d].cur]
                 /\ xfer'[cron[d].cur][cron[d].att] = xfer[cron[d].cur][cron[d].att]
                 /\ <<cron[d].cur, cron[d].att>> # <<r, n>>
      <3>1. cron[d].cur \in Releases /\ cron[d].att \in DOMAIN xfer[cron[d].cur]
        BY <2>3 DEF IInv, Safe, CronOK, TypeOK, CronRec
      <3>2. n \notin DOMAIN xfer[r]
        BY <1>4
      <3> QED
        BY <1>5, <3>1, <3>2
    <2> QED
      BY <1>7, <2>1, <2>2, <2>3, CronMoves
  <1>9. ASSUME NEW q \in Releases PROVE RowLock(q)'
    <2>1. CASE q # r
      BY <1>1, <1>2, <1>4, <1>7, <2>1 DEF RowLock, IInv, Safe, TypeOK
    <2>2. CASE q = r
      <3> SUFFICES ASSUME cause'[r] = {}, NEW j \in DOMAIN xfer'[r], xfer'[r][j] \in Open
                   PROVE  j = n /\ rel'[r] \in Shut
        BY <1>4, <2>2 DEF RowLock
      <3>1. cause[r] = {} /\ rel[r] = copy
        BY <1>1, <1>2 DEF Blame, IInv, TypeOK
      <3>2. \A k \in DOMAIN xfer[r] : xfer[r][k] \notin Open
        BY <1>1, <3>1, UnlockedIsClear DEF IInv, Safe, DueStatus, Shut
      <3>3. j = n
        BY <1>4, <3>2
      <3> QED
        BY <1>1, <1>2, <3>3 DEF IInv, TypeOK, Shut
    <2> QED
      BY <2>1, <2>2
  <1>10. (\A h \in Hooks : HookOK(h))'
    BY <1>3, <1>6, HookFrame DEF IInv, Safe
  <1>11. ReleasedWasPaid'
    BY <1>1, <1>2, <1>6, PaidFrame DEF IInv, Safe, TypeOK
  <1>12. RefusalUnlocks'
    <2>1. ASSUME NEW q \in Releases \ {r}, rel'[q] = "processing"
          PROVE  xfer'[q] # <<>> /\ xfer'[q][Len(xfer'[q])] # "unsent"
      BY <1>1, <1>2, <1>4, <2>1 DEF IInv, Safe, TypeOK, RefusalUnlocks
    <2>2. xfer'[r] # <<>> /\ xfer'[r][Len(xfer'[r])] # "unsent"
      <3>1. xfer'[r] # <<>>
        BY <1>4
      <3> QED
        BY <1>4, <3>1
    <2> QED
      BY <2>1, <2>2 DEF RefusalUnlocks
  <1> QED
    BY <1>8, <1>9, <1>10, <1>11, <1>12 DEF Safe

LEMMA FailSafe == ASSUME IInv, NEW c \in Crons, Fail(c) PROVE Safe'
  <1> DEFINE r == cron[c].cur
             i == cron[c].att
  <1>1. /\ CronOK(c) /\ RowLock(r) /\ r \in Releases /\ cron[c] \in CronRec /\ i \in Nat
        /\ cron[c].pc = "fail" /\ cron \in [Crons -> CronRec]
    BY DEF Fail, IInv, Safe, TypeOK, CronRec
  <1>2. /\ CronWrites(c, "failed") /\ UNCHANGED hook
        /\ cron' = [cron EXCEPT ![c] = TurnOver(c)]
    BY DEF Fail, cronOnly
  <1>3. CASE ~Holds(c)
    <2>1. UNCHANGED xfer
      BY <1>1, <1>3 DEF Fail, Holds
    <2> QED
      BY <1>1, <1>2, <1>3, <2>1, GiveUpSafe
  <1>4. CASE Holds(c)
    <2>1. /\ cron[c].list[r] = "processing" /\ i > 0 /\ i \in DOMAIN xfer[r]
          /\ xfer[r][i] = "refused" \/ cause[r] # {}
      BY <1>1, <1>4 DEF CronOK, Holds
    <2>2. /\ rel' = [rel EXCEPT ![r] = "failed"]
          /\ cause' = Blame(r, "stale_copy", rel[r] # "processing")
      BY <1>2, <2>1 DEF CronWrites, Saved, Stale
    <2>3. \A q \in Releases : cause[q] \subseteq cause'[q]
      BY <1>1, <2>2 DEF Blame, IInv, TypeOK
    <2>4. CronOK(c)' /\ ~Holds(c)' /\ \A d \in Crons \ {c} : cron'[d] = cron[d]
      BY <1>1, <1>2, TurnOverOK
    <2>5. rel'[r] = "failed" /\ \A q \in Releases \ {r} : rel'[q] = rel[q]
      BY <1>1, <2>2 DEF IInv, TypeOK
    <2>6. CASE xfer[r][i] = "refused"
      <3>1. xfer' = [xfer EXCEPT ![r][i] = "unsent"]
        BY <2>1, <2>6 DEF Fail
      <3>2. \A q \in Releases : cause[q] # {} => cause'[q] # {}
        BY <2>3
      <3>3. /\ (\A d \in Crons : CronOK(d))' /\ HeldOnce'
            /\ (\A h \in Hooks : HookOK(h))' /\ Kept
        BY <1>2, <1>4, <2>4, <2>6, <3>1, <3>2, HolderSets
      <3>4. IsSet(r, i, "unsent")
        BY <1>1, <2>1, <3>1, SetXfer DEF IInv, XferState, Sets
      <3>5. ASSUME NEW q \in Releases PROVE RowLock(q)'
        <4>1. CASE q # r
          BY <2>3, <2>5, <3>4, <4>1 DEF RowLock, IsSet, IInv, Safe
        <4>2. CASE q = r
          <5> SUFFICES ASSUME cause'[r] = {}, NEW j \in DOMAIN xfer'[r], xfer'[r][j] \in Open
                       PROVE  FALSE
            BY <4>2 DEF RowLock
          <5>1. cause[r] = {} /\ i = Len(xfer[r])
            BY <1>1, <2>1, <2>3, <2>6 DEF RowLock, Open
          <5>2. j # i /\ j \in DOMAIN xfer[r] /\ xfer[r][j] \in Open
            BY <1>1, <3>4 DEF IsSet, Open, Moving
          <5> QED
            BY <1>1, <5>1, <5>2 DEF RowLock
        <4> QED
          BY <4>1, <4>2
      <3>6. ReleasedWasPaid'
        BY <2>5, <3>3, PaidFrame DEF IInv, Safe
      <3>7. RefusalUnlocks'
        BY <1>1, <2>5, <3>1 DEF RefusalUnlocks, IInv, Safe, TypeOK
      <3> QED
        BY <3>3, <3>5, <3>6, <3>7 DEF Safe
    <2>7. CASE xfer[r][i] # "refused"
      <3>1. UNCHANGED xfer /\ cause'[r] # {}
        BY <1>1, <2>1, <2>3, <2>7 DEF Fail
      <3>2. (\A q \in Releases : RowLock(q))' /\ ReleasedWasPaid' /\ RefusalUnlocks'
        BY <1>1, <2>2, <2>3, <3>1, RowWrite DEF RowStatus
      <3>3. (\A h \in Hooks : HookOK(h))'
        BY <1>2, <3>1, SameHooks
      <3>4. \A d \in Crons : Holds(d) => cron[d].att \in DOMAIN xfer[cron[d].cur]
        BY DEF IInv, Safe, CronOK
      <3>5. \A q \in Releases : cause[q] # {} => cause'[q] # {}
        BY <2>3
      <3>6. (\A d \in Crons : CronOK(d))' /\ HeldOnce'
        BY <2>4, <3>1, <3>4, <3>5, CronMoves
      <3> QED
        BY <3>2, <3>3, <3>6 DEF Safe
    <2> QED
      BY <2>6, <2>7
  <1> QED
    BY <1>3, <1>4

LEMMA CrashCronSafe == ASSUME IInv, NEW c \in Crons, CrashCron(c) PROVE Safe'
  <1> DEFINE r == cron[c].cur
             i == cron[c].att
  <1>1. /\ CronOK(c) /\ r \in Releases /\ cron[c] \in CronRec /\ i \in Nat
        /\ cron \in [Crons -> CronRec]
    BY DEF IInv, Safe, TypeOK, CronRec
  <1>2. UNCHANGED <<rel, cause, hook>> /\ cron' = [cron EXCEPT ![c] = IdleCron]
    BY DEF CrashCron, cronOnly
  <1>3. CronOK(c)' /\ ~Holds(c)' /\ \A d \in Crons \ {c} : cron'[d] = cron[d]
    <2>1. cron'[c].pc = "idle" /\ cron'[c].att = 0
          /\ \A q \in Releases : cron'[c].list[q] = "absent"
      BY <1>1, <1>2 DEF IdleCron
    <2> QED
      BY <1>1, <1>2, <2>1 DEF CronOK, Holds
  <1>4. CASE UNCHANGED xfer
    BY <1>2, <1>3, <1>4, LoopSafe
  <1>5. CASE ~UNCHANGED xfer
    <2>1. /\ i > 0 /\ xfer[r][i] \in {"prepared", "refused"}
          /\ xfer' = [xfer EXCEPT ![r][i] = "lost"]
      BY <1>5 DEF CrashCron
    <2>2. Holds(c) /\ i \in DOMAIN xfer[r]
      BY <1>1, <2>1 DEF CronOK, Holds
    <2>3. \A q \in Releases : cause[q] # {} => cause'[q] # {}
      BY <1>2
    <2>4. /\ (\A d \in Crons : CronOK(d))' /\ HeldOnce'
          /\ (\A h \in Hooks : HookOK(h))' /\ Kept
      BY <1>2, <1>3, <2>1, <2>2, <2>3, HolderSets
    <2>5. (\A q \in Releases : RowLock(q))' /\ ReleasedWasPaid' /\ RefusalUnlocks'
      BY <1>1, <1>2, <2>1, <2>2, <2>3, <2>4, HolderRows
    <2> QED
      BY <2>4, <2>5 DEF Safe
  <1> QED
    BY <1>4, <1>5

LEMMA CrashStepSafe == ASSUME IInv, CrashStep PROVE Safe'
  <1>1. ASSUME NEW h \in Hooks, CrashHook(h) PROVE Safe'
    <2>1. UNCHANGED <<rel, xfer, cron, cause>> /\ hook' = [hook EXCEPT ![h] = IdleHook]
      BY <1>1 DEF CrashHook, hookOnly
    <2>2. hook'[h].pc # "write" /\ \A g \in Hooks \ {h} : hook'[g] = hook[g]
      BY <2>1 DEF IdleHook, IInv, TypeOK
    <2>3. (\A g \in Hooks : HookOK(g))'
      BY <2>1, <2>2 DEF IInv, Safe, HookOK, Sent
    <2> QED
      BY <2>1, <2>3, Quiet
  <1>2. ASSUME NEW a \in Admins, CrashAdmin(a) PROVE Safe'
    <2>1. UNCHANGED <<rel, xfer, cron, cause, hook>>
      BY <1>2 DEF CrashAdmin, adminOnly, caseOnly
    <2>2. (\A h \in Hooks : HookOK(h))'
      BY <2>1, SameHooks
    <2> QED
      BY <2>1, <2>2, Quiet
  <1> QED
    BY <1>1, <1>2, CrashCronSafe DEF CrashStep

LEMMA NextSafe == IInv /\ [Next]_vars => IInv'
  <1> SUFFICES ASSUME IInv, [Next]_vars PROVE Safe'
    BY NextType DEF IInv
  <1>1. CASE UNCHANGED vars
    <2>1. (\A h \in Hooks : HookOK(h))'
      BY <1>1, SameHooks DEF vars
    <2> QED
      BY <1>1, <2>1, Quiet DEF vars
  <1>2. ASSUME NEW c \in Crons, CronStep(c) PROVE Safe'
    BY <1>2, CronLoopSafe, ParkSafe, LockSafe, RequestSafe, FailSafe DEF CronStep
  <1>3. CASE Next
    BY <1>2, <1>3, RowStepSafe, GatewayStepSafe, DisputeStepSafe, CrashStepSafe,
       HookStepSafe, AdminStepSafe DEF Next
  <1> QED
    BY <1>1, <1>3

-----------------------------------------------------------------------------
(* The theorems.                                                           *)

THEOREM Invariance == Spec => []IInv
  <1>1. Init => IInv
    BY InitType, InitSafe DEF IInv
  <1> QED
    BY <1>1, NextSafe, PTL DEF Spec

\* Whatever the number of instances, handlers, disputes and crashes, two
\* transfers of a row move money only after a named event broke its lock.
THEOREM PaidOnce == Spec => []PaidOnceUnlessBlamed
  <1>1. IInv => PaidOnceUnlessBlamed
    BY DEF IInv, Safe, RowLock, PaidOnceUnlessBlamed, Open
  <1> QED
    BY <1>1, Invariance, PTL

\* Short of those events, a row the cron lists again owes its whole amount.
THEOREM RetriesAreSafe == Spec => []RetryIsSafe
  <1>1. IInv => RetryIsSafe
    BY DEF IInv, Safe, RowLock, RetryIsSafe, Open, DueStatus, Shut
  <1> QED
    BY <1>1, Invariance, PTL

\* No interleaving marks a row released without a transfer that succeeded.
THEOREM ReleasedRowsWerePaid == Spec => []ReleasedWasPaid
  <1>1. IInv => ReleasedWasPaid
    BY DEF IInv, Safe
  <1> QED
    BY <1>1, Invariance, PTL

\* No row stays locked behind a transfer whose refusal an instance has recorded.
THEOREM RefusalsUnlock == Spec => []RefusalUnlocks
  <1>1. IInv => RefusalUnlocks
    BY DEF IInv, Safe
  <1> QED
    BY <1>1, Invariance, PTL
=============================================================================
