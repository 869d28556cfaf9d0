---------------------------- MODULE RefundsProofs ----------------------------
(***************************************************************************)
(* Proofs about Refunds for any number of rows, instances, webhooks and    *)
(* crashes.  IInv is inductive: TypeOK, what an instance holding a row     *)
(* knows about it, what a webhook knows about its row, and the three       *)
(* safety properties themselves.                                           *)
(***************************************************************************)
EXTENDS Refunds, TLAPS

Serious == {"stale", "lost", "crash"}
Clean(r) == cause[r] \cap Serious = {}

\* An instance at work holds an existing kind of row, and saves a decision.
CronOK ==
    \A c \in Crons :
        /\ cron[c].pc \in {"reverse", "payout", "save"} => cron[c].r \in Refunds
        /\ cron[c].pc = "save" => cron[c].to # "pending"
        /\ cron[c].pc = "save" /\ cron[c].to = "completed" => asked[cron[c].r] > 0

\* Without one of the serious causes a row is in one pair of hands at a time.
HeldOnce ==
    \A r \in Refunds : Clean(r) =>
        \A c, d \in Crons : Working(c, r) /\ Working(d, r) => c = d

\* Nothing has been asked for while an instance is still about to ask ...
NotYetAsked ==
    \A r \in Refunds : Clean(r) =>
        \A c \in Crons : cron[c].r = r /\ cron[c].pc \in {"reverse", "payout"} => asked[r] = 0

\* ... or while the row is pending and in nobody's hands.
PendingUnasked ==
    \A r \in Refunds : Clean(r) /\ status[r] = "pending" /\ asked[r] > 0 =>
        \E c \in Crons : cron[c].r = r /\ cron[c].pc = "save"

\* The gateway has results only of reversals it accepted, and reports only those.
GatewayOK ==
    /\ \A r \in Refunds : reversals[r] > 0 => asked[r] > 0
    /\ \A r \in Refunds : outcome[r] # {} => reversals[r] > 0
    /\ \A r \in Refunds : told[r] \subseteq outcome[r]

\* A webhook carries a result the gateway has; if it took another row for its own,
\* its row is blamed.
HookOK ==
    \A h \in Hooks : hook[h].pc = "write" =>
        /\ hook[h].r \in Refunds /\ hook[h].t \in Refunds
        /\ hook[h].kind \in outcome[hook[h].r]
        /\ hook[h].t # hook[h].r => "mistaken" \in cause[hook[h].r]

Safe == /\ CronOK /\ HeldOnce /\ NotYetAsked /\ PendingUnasked /\ GatewayOK /\ HookOK
        /\ AskedOnce /\ CompletedWasAsked /\ FailureIsSeen
IInv == TypeOK /\ Safe

-----------------------------------------------------------------------------
(* The records of the types are built and taken apart here, once.          *)

LEMMA CronRec ==
    /\ \A pc \in {"idle", "next", "reverse", "payout", "save"}, todo \in SUBSET Refunds,
          r \in Nat, hasBank \in BOOLEAN, to \in Status :
            [pc |-> pc, todo |-> todo, r |-> r, hasBank |-> hasBank, to |-> to] \in CronRecs
    /\ \A x \in CronRecs : /\ x.pc \in {"idle", "next", "reverse", "payout", "save"}
                           /\ x.todo \in SUBSET Refunds /\ x.r \in Nat
                           /\ x.hasBank \in BOOLEAN /\ x.to \in Status
BY DEF CronRecs

LEMMA HookRec ==
    /\ \A r, t \in Nat, kind \in Results :
            [pc |-> "write", r |-> r, t |-> t, kind |-> kind] \in HookRecs
    /\ IdleHook \in HookRecs
    /\ \A x \in HookRecs : x.r \in Nat /\ x.t \in Nat /\ x.kind \in Results
BY DEF HookRecs, IdleHook, Results

LEMMA Ranges ==
    /\ Refunds \subseteq Nat
    /\ rows \in 0 .. MaxRefunds => Existing \subseteq Refunds
    /\ Results # {}
    /\ \A todo \in SUBSET Refunds : Between(todo) \in CronRecs
    /\ Idle \in CronRecs
<1>1. /\ Refunds \subseteq Nat
      /\ rows \in 0 .. MaxRefunds => Existing \subseteq Refunds
    BY RefundBounds DEF Refunds, Existing
<1>2. Results # {}
    BY DEF Results
<1>3. \A todo \in SUBSET Refunds : Between(todo) \in CronRecs
    BY CronRec DEF Between, Status
<1>4. Idle \in CronRecs
    BY CronRec DEF Idle, Status
<1>. QED BY <1>1, <1>2, <1>3, <1>4

LEMMA CountUp ==
    ASSUME NEW f \in [Refunds -> Nat], NEW r
    PROVE  [f EXCEPT ![r] = @ + 1] \in [Refunds -> Nat]
<1>1. CASE r \in Refunds
    BY <1>1
<1>2. CASE r \notin Refunds
    BY <1>2
<1>. QED BY <1>1, <1>2

LEMMA AcceptType ==
    ASSUME asked \in [Refunds -> Nat], NEW c, Accept(c)
    PROVE  asked' \in [Refunds -> Nat]
BY CountUp DEF Accept

LEMMA InHandType ==
    ASSUME cron \in [Crons -> CronRecs], NEW c \in Crons,
           NEW pc \in {"payout", "save"}, NEW to \in Status, InHand(c, pc, to)
    PROVE  cron' \in [Crons -> CronRecs]
<1> DEFINE x == [pc |-> pc, todo |-> cron[c].todo, r |-> cron[c].r,
                 hasBank |-> cron[c].hasBank, to |-> to]
<1>1. x \in CronRecs
    BY CronRec
<1>. QED BY <1>1 DEF InHand

\* What each step does to cause keeps it a set of causes.
LEMMA BlameType ==
    ASSUME cause \in [Refunds -> SUBSET Causes], NEW r, NEW why \in Causes, NEW condition,
           Blame(r, why, condition)
    PROVE  cause' \in [Refunds -> SUBSET Causes]
BY DEF Blame

-----------------------------------------------------------------------------
(* TypeOK is inductive.                                                    *)

LEMMA TypeInit == Init => TypeOK
<1> SUFFICES ASSUME Init PROVE TypeOK
    OBVIOUS
<1>1. cron \in [Crons -> CronRecs] /\ hook \in [Hooks -> HookRecs]
    BY Ranges, HookRec DEF Init
<1>2. rows \in 0 .. MaxRefunds
    BY RefundBounds DEF Init
<1>. QED BY <1>1, <1>2, RefundBounds DEF Init, TypeOK, Status, Refunds

LEMMA TypeCron ==
    ASSUME TypeOK, NEW c \in Crons, CronStep(c)
    PROVE  TypeOK'
<1> USE DEF TypeOK
<1>1. CASE ListPending(c)
    <2>1. Listed \in SUBSET Refunds
        BY Ranges DEF Listed
    <2>. QED BY <1>1, <2>1, Ranges DEF ListPending, cronOnly
<1>2. CASE \E r \in Refunds : TakeNext(c, r)
    <2> PICK r \in Refunds : TakeNext(c, r)
        BY <1>2
    <2>1. cron[c].todo \ {r} \in SUBSET Refunds /\ r \in Nat /\ "pending" \in Status
        BY CronRec, Ranges DEF Status
    <2>2. cron' \in [Crons -> CronRecs]
        BY <2>1, CronRec, Ranges DEF TakeNext
    <2>3. cause' \in [Refunds -> SUBSET Causes]
        BY BlameType DEF TakeNext, Causes
    <2>. QED BY <2>2, <2>3 DEF TakeNext, cronOnly
<1>3. CASE EndRun(c)
    BY <1>3, Ranges DEF EndRun, cronOnly
<1>4. CASE Reverse(c)
    <2>2. cron' \in [Crons -> CronRecs]
        BY <1>4, InHandType DEF Reverse, Status
    <2>3. cause' \in [Refunds -> SUBSET Causes]
        BY <1>4, BlameType DEF Reverse, Causes
    <2>4. asked' \in [Refunds -> Nat]
        BY <1>4, AcceptType DEF Reverse
    <2>6. \/ reversals' = [reversals EXCEPT ![cron[c].r] = @ + 1]
          \/ reversals' = reversals
        BY <1>4 DEF Reverse
    <2>7. reversals' \in [Refunds -> Nat]
        BY <2>6, CountUp
    <2>5. UNCHANGED <<status, cronOnly>>
        BY <1>4 DEF Reverse
    <2>. QED BY <2>2, <2>3, <2>4, <2>5, <2>7 DEF cronOnly
<1>5. CASE PayOut(c)
    <2>2. cron' \in [Crons -> CronRecs]
        BY <1>5, InHandType DEF PayOut, Status
    <2>3. cause' \in [Refunds -> SUBSET Causes]
        BY <1>5, BlameType DEF PayOut, Causes
    <2>4. asked' \in [Refunds -> Nat]
        BY <1>5, AcceptType DEF PayOut
    <2>5. UNCHANGED <<status, reversals, cronOnly>>
        BY <1>5 DEF PayOut
    <2>. QED BY <2>2, <2>3, <2>4, <2>5 DEF cronOnly
<1>6. CASE Save(c)
    <2>1. cron[c].todo \in SUBSET Refunds /\ cron[c].to \in Status
        BY CronRec
    <2>2. cron' \in [Crons -> CronRecs]
        BY <1>6, <2>1, Ranges DEF Save
    <2>3. cause' \in [Refunds -> SUBSET Causes]
        BY <1>6, BlameType DEF Save, Causes
    <2>4. status' \in [Refunds -> Status]
        BY <1>6, <2>1 DEF Save
    <2>. QED BY <1>6, <2>2, <2>3, <2>4 DEF Save, cronOnly
<1>. QED BY <1>1, <1>2, <1>3, <1>4, <1>5, <1>6 DEF CronStep

LEMMA TypeHook ==
    ASSUME TypeOK, NEW h \in Hooks,
           \/ WriteHook(h) \/ CrashHook(h)
           \/ \E r \in Refunds, kind \in Results : Receive(h, r, kind)
    PROVE  TypeOK'
<1> USE DEF TypeOK
<1>0. \A kind \in Results : StatusOf(kind) \in Status
    BY DEF StatusOf, Status
<1>1. CASE WriteHook(h)
    <2>1. hook[h].kind \in Results
        BY HookRec
    <2>2. cause' \in [Refunds -> SUBSET Causes]
        BY <1>1, BlameType DEF WriteHook, Causes
    <2>3. status' \in [Refunds -> Status] /\ told' \in [Refunds -> SUBSET Results]
        BY <1>0, <1>1, <2>1 DEF WriteHook
    <2>4. hook' \in [Hooks -> HookRecs]
        BY <1>1, HookRec DEF WriteHook
    <2>. QED BY <1>1, <2>2, <2>3, <2>4 DEF WriteHook, hookOnly
<1>2. CASE CrashHook(h)
    BY <1>2, HookRec DEF CrashHook, hookOnly
<1>3. CASE \E r \in Refunds, kind \in Results : Receive(h, r, kind)
    <2> PICK r \in Refunds : \E kind \in Results : Receive(h, r, kind)
        BY <1>3
    <2> PICK kind \in Results : Receive(h, r, kind)
        OBVIOUS
    <2>1. r \in Nat /\ rows \in Nat
        BY Ranges, RefundBounds
    <2>2. cause' \in [Refunds -> SUBSET Causes]
        BY BlameType DEF Receive, Causes
    <2>3. hook' \in [Hooks -> HookRecs]
        BY <2>1, HookRec DEF Receive
    <2>4. told' \in [Refunds -> SUBSET Results]
        BY DEF Receive
    <2>. QED BY <2>2, <2>3, <2>4 DEF Receive, hookOnly
<1>. QED BY <1>1, <1>2, <1>3

LEMMA TypeNext == TypeOK /\ [Next]_vars => TypeOK'
<1> SUFFICES ASSUME TypeOK, [Next]_vars PROVE TypeOK'
    OBVIOUS
<1>1. CASE QueueRefund
    <2>1. rows' \in 0 .. MaxRefunds
        BY <1>1, RefundBounds DEF QueueRefund, TypeOK
    <2>. QED BY <1>1, <2>1 DEF QueueRefund, world, TypeOK
<1>2. CASE FundEscrow \/ GiveBankDetails
    BY <1>2 DEF FundEscrow, GiveBankDetails, world, TypeOK
<1>3. CASE \E r \in Refunds : DatePasses(r)
    BY <1>3 DEF DatePasses, world, TypeOK
<1>4. CASE \E c \in Crons : CronStep(c)
    BY <1>4, TypeCron
<1>5. CASE \E c \in Crons : CrashCron(c)
    <2> PICK c \in Crons : CrashCron(c)
        BY <1>5
    <2>1. cron' \in [Crons -> CronRecs]
        BY Ranges DEF CrashCron, TypeOK
    <2>2. cause' \in [Refunds -> SUBSET Causes]
        BY BlameType DEF CrashCron, TypeOK, Causes
    <2>. QED BY <2>1, <2>2 DEF CrashCron, TypeOK
<1>6. CASE \E r \in Refunds, kind \in Results : Settle(r, kind)
    BY <1>6 DEF Settle, hookOnly, TypeOK
<1>7. CASE \E h \in Hooks : \/ WriteHook(h) \/ CrashHook(h)
                           \/ \E r \in Refunds, kind \in Results : Receive(h, r, kind)
    BY <1>7, TypeHook
<1>8. CASE UNCHANGED vars
    BY <1>8 DEF vars, TypeOK
<1>. QED BY <1>1, <1>2, <1>3, <1>4, <1>5, <1>6, <1>7, <1>8 DEF Next

\* The type invariant holds of Refunds for every value of its constants.
THEOREM RefundsTypeCorrect == Spec => []TypeOK
<1>. QED BY TypeInit, TypeNext, PTL DEF Spec

-----------------------------------------------------------------------------
(* What is known of the causes, and of a row nobody has blamed.            *)

Grows == \A r \in Refunds : cause[r] \subseteq cause'[r]

LEMMA BlameGrows ==
    ASSUME cause \in [Refunds -> SUBSET Causes], NEW r \in Refunds, NEW why, NEW condition,
           Blame(r, why, condition)
    PROVE  /\ Grows /\ \A q \in Refunds : Clean(q)' => Clean(q)
           /\ condition => why \in cause'[r]
BY DEF Blame, Grows, Clean

LEMMA SameGrows ==
    ASSUME cause' = cause
    PROVE  Grows /\ \A q \in Refunds : Clean(q)' => Clean(q)
BY DEF Grows, Clean

LEMMA SafeInit == Init => Safe
<1> SUFFICES ASSUME Init PROVE Safe
    OBVIOUS
<1>1. \A c \in Crons : cron[c].pc = "idle"
    BY DEF Init, Idle
<1>2. \A h \in Hooks : hook[h].pc = "idle"
    BY DEF Init, IdleHook
<1>3. \A r \in Refunds : /\ asked[r] = 0 /\ reversals[r] = 0 /\ outcome[r] = {}
                         /\ told[r] = {} /\ status[r] = "pending"
    BY DEF Init
<1>4. CronOK /\ HeldOnce /\ NotYetAsked /\ PendingUnasked
    BY <1>1, <1>3 DEF CronOK, HeldOnce, NotYetAsked, PendingUnasked, Working
<1>5. GatewayOK /\ HookOK /\ AskedOnce /\ CompletedWasAsked /\ FailureIsSeen
    BY <1>2, <1>3 DEF GatewayOK, HookOK, AskedOnce, CompletedWasAsked, FailureIsSeen
<1>. QED BY <1>4, <1>5 DEF Safe

-----------------------------------------------------------------------------
(* A step that leaves the rows and the gateway alone, and in which c lets go *)
(* of what it has in hand: fine if nothing is lost, or the row is blamed.    *)

LEMMA LetGo ==
    ASSUME IInv, NEW c \in Crons, cron'[c].pc \in {"idle", "next"},
           \A d \in Crons : d # c => cron'[d] = cron[d],
           \A q \in Refunds : cron[c].pc = "save" /\ cron[c].r = q => ~Clean(q)',
           Grows, \A q \in Refunds : Clean(q)' => Clean(q),
           UNCHANGED <<status, asked, reversals, outcome, told, hook>>
    PROVE  Safe'
<1> USE DEF IInv, Safe
<1>1. CronOK'
    BY DEF CronOK
<1>2. HeldOnce'
    BY DEF HeldOnce, Working
<1>3. NotYetAsked'
    BY DEF NotYetAsked
<1>4. PendingUnasked'
    BY DEF PendingUnasked
<1>5. GatewayOK' /\ HookOK' /\ AskedOnce' /\ CompletedWasAsked' /\ FailureIsSeen'
    BY DEF GatewayOK, HookOK, AskedOnce, CompletedWasAsked, FailureIsSeen, Grows
<1>. QED BY <1>1, <1>2, <1>3, <1>4, <1>5

LEMMA SafeTake ==
    ASSUME IInv, NEW c \in Crons, NEW r \in Refunds, TakeNext(c, r)
    PROVE  Safe'
<1> USE DEF IInv, Safe
<1>0. UNCHANGED <<status, asked, reversals, outcome, told, hook>>
    BY DEF TakeNext, cronOnly
<1>1. /\ Grows /\ \A q \in Refunds : Clean(q)' => Clean(q)
      /\ funded /\ (r \notin Listed \/ \E d \in Crons : Working(d, r)) => "stale" \in cause'[r]
    BY BlameGrows DEF TakeNext, TypeOK
<1>2. CASE ~funded
    <2>1. cron'[c].pc = "next" /\ \A d \in Crons : d # c => cron'[d] = cron[d]
        BY <1>2 DEF TakeNext, Between, TypeOK
    <2>2. cron[c].pc = "next"
        BY DEF TakeNext
    <2> HIDE DEF IInv, Safe
    <2>. QED BY <1>0, <1>1, <2>1, <2>2, LetGo
<1>3. CASE funded
    <2> DEFINE x == [pc |-> "reverse", todo |-> cron[c].todo \ {r}, r |-> r,
                     hasBank |-> bank, to |-> "pending"]
    <2>1. cron' = [cron EXCEPT ![c] = x]
        BY <1>3 DEF TakeNext
    <2>2. cron'[c].pc = "reverse" /\ cron'[c].r = r /\ cron[c].pc = "next"
        BY <2>1 DEF TypeOK, TakeNext
    <2>3. \A d \in Crons : d # c => cron'[d] = cron[d]
        BY <2>1 DEF TypeOK
    <2>4. Clean(r)' => r \in Listed /\ ~\E d \in Crons : Working(d, r)
        BY <1>1, <1>3 DEF Clean, Serious
    <2>5. Clean(r)' => asked[r] = 0
        <3> SUFFICES ASSUME Clean(r)' PROVE asked[r] = 0
            OBVIOUS
        <3>1. status[r] = "pending" /\ Clean(r)
            BY <1>1, <2>4 DEF Listed
        <3>2. ~ asked[r] > 0
            BY <2>4, <3>1 DEF PendingUnasked, Working
        <3>. QED BY <3>2 DEF TypeOK
    <2>6. CronOK'
        BY <1>0, <2>2, <2>3 DEF CronOK
    <2>7. HeldOnce'
        BY <1>1, <2>2, <2>3, <2>4 DEF HeldOnce, Working
    <2>8. NotYetAsked'
        BY <1>0, <1>1, <2>2, <2>3, <2>5 DEF NotYetAsked
    <2>9. PendingUnasked'
        BY <1>0, <1>1, <2>2, <2>3 DEF PendingUnasked
    <2>10. GatewayOK' /\ HookOK' /\ AskedOnce' /\ CompletedWasAsked' /\ FailureIsSeen'
        BY <1>0, <1>1 DEF GatewayOK, HookOK, AskedOnce, CompletedWasAsked, FailureIsSeen, Grows
    <2>. QED BY <2>6, <2>7, <2>8, <2>9, <2>10
<1>. QED BY <1>2, <1>3

LEMMA SafeReverse ==
    ASSUME IInv, NEW c \in Crons, Reverse(c)
    PROVE  Safe'
<1> USE DEF IInv, Safe
<1> PICK r \in Refunds : cron[c].r = r
    BY DEF Reverse, CronOK
<1>0. cron[c].pc = "reverse" /\ UNCHANGED <<status, outcome, told, hook>>
    BY DEF Reverse, cronOnly
<1>1. Grows /\ \A q \in Refunds : Clean(q)' => Clean(q)
    BY BlameGrows, SameGrows DEF Reverse, TypeOK
<1>2. \/ /\ Accept(c) /\ reversals' = [reversals EXCEPT ![r] = @ + 1]
         /\ InHand(c, "save", "completed") \/ "lost" \in cause'[r]
      \/ UNCHANGED <<asked, reversals>>
    BY BlameGrows DEF Reverse, TypeOK
<1>3. \/ InHand(c, "save", "completed") /\ Accept(c)
      \/ InHand(c, "payout", "pending")
      \/ InHand(c, "save", "parked")
    BY DEF Reverse
<1>4. /\ cron'[c].r = r
      /\ \/ cron'[c].pc = "save" /\ cron'[c].to \in {"completed", "parked"}
         \/ cron'[c].pc = "payout"
      /\ \A d \in Crons : d # c => cron'[d] = cron[d]
    BY <1>3 DEF InHand, TypeOK
<1>5. /\ \A q \in Refunds : /\ asked'[q] \in Nat /\ asked'[q] >= asked[q]
                            /\ q # r => asked'[q] = asked[q]
      /\ Accept(c) => asked'[r] = asked[r] + 1
    <2>1. CASE Accept(c)
        BY <2>1 DEF Accept, TypeOK
    <2>2. CASE ~Accept(c)
        BY <1>2, <2>2 DEF TypeOK
    <2>. QED BY <2>1, <2>2
<1>6. Clean(r)' => asked[r] = 0
    BY <1>0, <1>1 DEF NotYetAsked
<1>7. Clean(r)' => asked'[r] = 0 \/ (cron'[c].pc = "save" /\ asked'[r] = 1)
    <2> SUFFICES ASSUME Clean(r)'
                 PROVE  asked'[r] = 0 \/ (cron'[c].pc = "save" /\ asked'[r] = 1)
        OBVIOUS
    <2>1. "lost" \notin cause'[r]
        BY DEF Clean, Serious
    <2>2. CASE InHand(c, "save", "completed") /\ Accept(c)
        <3>1. cron'[c].pc = "save"
            BY <2>2 DEF InHand, TypeOK
        <3>2. asked'[r] = 0 + 1
            BY <2>2, <1>5, <1>6
        <3>. QED BY <3>1, <3>2
    <2>3. CASE UNCHANGED asked
        BY <1>6, <2>3
    <2>. QED BY <1>2, <2>1, <2>2, <2>3
<1>8. cron'[c].pc = "save" /\ cron'[c].to = "completed" => asked'[r] > 0
    <2>1. CASE InHand(c, "save", "completed") /\ Accept(c)
        BY <2>1, <1>5 DEF TypeOK
    <2>2. CASE InHand(c, "payout", "pending") \/ InHand(c, "save", "parked")
        BY <2>2 DEF InHand, TypeOK
    <2>. QED BY <1>3, <2>1, <2>2
<1>9. CronOK' /\ HeldOnce'
    <2>1. \A d \in Crons : d # c /\ cron[d].pc = "save" /\ cron[d].to = "completed"
                => asked'[cron[d].r] > 0
        BY <1>5 DEF CronOK, TypeOK
    <2>3. CronOK'
        BY <1>0, <1>4, <1>8, <2>1 DEF CronOK
    <2>2. HeldOnce'
        BY <1>0, <1>1, <1>4 DEF HeldOnce, Working
    <2>. QED BY <2>2, <2>3
<1>10. NotYetAsked'
    BY <1>0, <1>1, <1>4, <1>5, <1>7 DEF NotYetAsked, HeldOnce, Working
<1>11. PendingUnasked'
    BY <1>0, <1>1, <1>4, <1>5, <1>7 DEF PendingUnasked
<1>12. AskedOnce'
    <2> SUFFICES ASSUME NEW q \in Refunds, asked'[q] > 1 PROVE ~Clean(q)'
        BY DEF AskedOnce, Clean, Serious
    <2>1. CASE q = r
        BY <2>1, <1>7
    <2>2. CASE q # r
        <3>1. ~Clean(q)
            BY <2>2, <1>5 DEF AskedOnce, Clean, Serious
        <3>. QED BY <3>1, <1>1
    <2>. QED BY <2>1, <2>2
<1>13. CompletedWasAsked'
    BY <1>0, <1>1, <1>5 DEF CompletedWasAsked, Grows, TypeOK
<1>14. GatewayOK' /\ HookOK' /\ FailureIsSeen'
    <2>1. \A q \in Refunds : reversals'[q] > 0 => asked'[q] > 0
        BY <1>2, <1>5 DEF GatewayOK, HookOK, TypeOK
    <2>2. \A q \in Refunds : reversals[q] > 0 => reversals'[q] > 0
        BY <1>2 DEF TypeOK
    <2>. QED BY <1>0, <1>1, <2>1, <2>2 DEF GatewayOK, HookOK, FailureIsSeen, Grows
<1>. QED BY <1>9, <1>10, <1>11, <1>12, <1>13, <1>14

LEMMA SafePayOut ==
    ASSUME IInv, NEW c \in Crons, PayOut(c)
    PROVE  Safe'
<1> USE DEF IInv, Safe
<1> PICK r \in Refunds : cron[c].r = r
    BY DEF PayOut, CronOK
<1>0. cron[c].pc = "payout" /\ UNCHANGED <<status, reversals, outcome, told, hook>>
    BY DEF PayOut, cronOnly
<1>1. /\ Grows /\ \A q \in Refunds : Clean(q)' => Clean(q)
      /\ \/ Accept(c)
         \/ InHand(c, "save", "failed") /\ UNCHANGED asked
    BY BlameGrows, SameGrows DEF PayOut, TypeOK
<1>2. (InHand(c, "save", "completed") /\ Accept(c)) \/ InHand(c, "save", "failed")
    BY DEF PayOut
<1>3. /\ cron'[c].r = r /\ cron'[c].pc = "save" /\ cron'[c].to \in {"completed", "failed"}
      /\ \A d \in Crons : d # c => cron'[d] = cron[d]
    BY <1>2 DEF InHand, TypeOK
<1>4. cron'[c].to = "completed" => Accept(c)
    BY <1>2 DEF InHand, TypeOK
<1>5. /\ \A q \in Refunds : /\ asked'[q] \in Nat /\ asked'[q] >= asked[q]
                            /\ q # r => asked'[q] = asked[q]
      /\ Accept(c) => asked'[r] = asked[r] + 1
      /\ ~Accept(c) => asked'[r] = asked[r]
    <2>1. CASE Accept(c)
        BY <2>1 DEF Accept, TypeOK
    <2>2. CASE ~Accept(c)
        BY <1>1, <2>2 DEF TypeOK
    <2>. QED BY <2>1, <2>2
<1>6. Clean(r)' => asked[r] = 0 /\ asked'[r] \in {0, 1}
    BY <1>0, <1>1, <1>5 DEF NotYetAsked
<1>7. CronOK' /\ HeldOnce'
    BY <1>0, <1>1, <1>3, <1>4, <1>5 DEF CronOK, HeldOnce, Working, TypeOK
<1>8. NotYetAsked'
    BY <1>0, <1>1, <1>3, <1>5, <1>6 DEF NotYetAsked, HeldOnce, Working
<1>9. PendingUnasked'
    BY <1>0, <1>1, <1>3, <1>5, <1>6 DEF PendingUnasked
<1>10. AskedOnce'
    <2> SUFFICES ASSUME NEW q \in Refunds, asked'[q] > 1 PROVE ~Clean(q)'
        BY DEF AskedOnce, Clean, Serious
    <2>1. CASE q = r
        BY <2>1, <1>6
    <2>2. CASE q # r
        <3>1. ~Clean(q)
            BY <2>2, <1>5 DEF AskedOnce, Clean, Serious
        <3>. QED BY <3>1, <1>1
    <2>. QED BY <2>1, <2>2
<1>11. GatewayOK' /\ HookOK' /\ CompletedWasAsked' /\ FailureIsSeen'
    BY <1>0, <1>1, <1>5 DEF GatewayOK, HookOK, CompletedWasAsked, FailureIsSeen, Grows, TypeOK
<1>. QED BY <1>7, <1>8, <1>9, <1>10, <1>11

LEMMA SafeSave ==
    ASSUME IInv, NEW c \in Crons, Save(c)
    PROVE  Safe'
<1> USE DEF IInv, Safe
<1> PICK r \in Refunds : cron[c].r = r
    BY DEF Save, CronOK
<1>0. /\ cron[c].pc = "save" /\ cron[c].to # "pending"
      /\ UNCHANGED <<asked, reversals, outcome, told, hook>>
    BY DEF Save, CronOK, cronOnly
<1>1. /\ Grows /\ \A q \in Refunds : Clean(q)' => Clean(q)
      /\ status[r] # "pending" => "overtaken" \in cause'[r]
    BY BlameGrows DEF Save, TypeOK
<1>2. cron'[c].pc = "next" /\ \A d \in Crons : d # c => cron'[d] = cron[d]
    BY DEF Save, Between, TypeOK
<1>3. status'[r] = cron[c].to /\ \A q \in Refunds : q # r => status'[q] = status[q]
    BY DEF Save, TypeOK
<1>4. CronOK' /\ HeldOnce' /\ NotYetAsked'
    BY <1>0, <1>1, <1>2 DEF CronOK, HeldOnce, NotYetAsked, Working
<1>5. PendingUnasked'
    BY <1>0, <1>1, <1>2, <1>3 DEF PendingUnasked
<1>6. CompletedWasAsked'
    BY <1>0, <1>1, <1>3 DEF CompletedWasAsked, CronOK, Grows
<1>7. FailureIsSeen'
    <2> SUFFICES ASSUME NEW q \in Refunds, "failed" \in told'[q], outcome'[q] = {"failed"},
                        cause'[q] \cap {"mistaken", "overtaken"} = {}
                 PROVE  status'[q] = "failed"
        BY DEF FailureIsSeen
    <2>1. status[q] = "failed"
        BY <1>0, <1>1 DEF FailureIsSeen, Grows
    <2>2. q # r
        BY <1>1, <2>1
    <2>. QED BY <1>3, <2>1, <2>2
<1>8. GatewayOK' /\ HookOK' /\ AskedOnce'
    BY <1>0, <1>1 DEF GatewayOK, HookOK, AskedOnce, Grows
<1>. QED BY <1>4, <1>5, <1>6, <1>7, <1>8

LEMMA SafeCrash ==
    ASSUME IInv, NEW c \in Crons, CrashCron(c)
    PROVE  Safe'
<1>1. cron'[c].pc = "idle" /\ \A d \in Crons : d # c => cron'[d] = cron[d]
    BY DEF CrashCron, Idle, IInv, TypeOK
<1>2. UNCHANGED <<status, asked, reversals, outcome, told, hook>>
    BY DEF CrashCron
<1>3. CASE cron[c].pc = "save"
    <2> PICK r \in Refunds : cron[c].r = r
        BY <1>3 DEF IInv, Safe, CronOK
    <2>1. /\ Grows /\ \A q \in Refunds : Clean(q)' => Clean(q)
          /\ "crash" \in cause'[r]
        BY <1>3, BlameGrows DEF CrashCron, IInv, TypeOK
    <2>2. \A q \in Refunds : cron[c].r = q => ~Clean(q)'
        BY <2>1 DEF Clean, Serious
    <2>. QED BY <1>1, <1>2, <2>1, <2>2, LetGo
<1>4. CASE cron[c].pc # "save"
    <2>1. Grows /\ \A q \in Refunds : Clean(q)' => Clean(q)
        BY <1>4, SameGrows DEF CrashCron
    <2>. QED BY <1>1, <1>2, <1>4, <2>1, LetGo
<1>. QED BY <1>3, <1>4

LEMMA SafeCron ==
    ASSUME IInv, NEW c \in Crons, CronStep(c)
    PROVE  Safe'
<1>1. CASE ListPending(c) \/ EndRun(c)
    <2>1. cron'[c].pc \in {"idle", "next"} /\ \A d \in Crons : d # c => cron'[d] = cron[d]
        BY <1>1 DEF ListPending, EndRun, Between, Idle, IInv, TypeOK
    <2>2. UNCHANGED <<status, asked, reversals, outcome, told, hook, cause>>
        BY <1>1 DEF ListPending, EndRun, cronOnly
    <2>3. cron[c].pc # "save"
        BY <1>1 DEF ListPending, EndRun
    <2>. QED BY <2>1, <2>2, <2>3, SameGrows, LetGo
<1>. QED BY <1>1, SafeTake, SafeReverse, SafePayOut, SafeSave DEF CronStep

-----------------------------------------------------------------------------
(* The webhooks and the world.                                             *)

\* Nothing about the rows changes when the cron has no part in a step but that a
\* row may be given a status other than pending.
LEMMA CronStays ==
    ASSUME IInv, \A q \in Refunds : status'[q] \in {"completed", "failed", status[q]},
           Grows, \A q \in Refunds : Clean(q)' => Clean(q),
           UNCHANGED <<cron, asked>>
    PROVE  CronOK' /\ HeldOnce' /\ NotYetAsked' /\ PendingUnasked' /\ AskedOnce'
<1> USE DEF IInv, Safe
<1>1. CronOK' /\ HeldOnce' /\ NotYetAsked'
    BY DEF CronOK, HeldOnce, NotYetAsked, Working
<1>2. PendingUnasked' /\ AskedOnce'
    BY DEF PendingUnasked, AskedOnce, Grows
<1>. QED BY <1>1, <1>2

LEMMA SafeReceive ==
    ASSUME IInv, NEW h \in Hooks, NEW r \in Refunds, NEW kind \in Results, Receive(h, r, kind)
    PROVE  Safe'
<1> USE DEF IInv
<1>0. UNCHANGED <<status, outcome, reversals, cron, asked>>
    BY DEF Receive, hookOnly
<1>1. /\ Grows /\ \A q \in Refunds : Clean(q)' => Clean(q)
      /\ rows # r => "mistaken" \in cause'[r]
    BY BlameGrows DEF Receive, TypeOK
<1>2. CronOK' /\ HeldOnce' /\ NotYetAsked' /\ PendingUnasked' /\ AskedOnce'
    BY <1>0, <1>1, CronStays
<1>3. CompletedWasAsked'
    BY <1>0, <1>1 DEF Safe, CompletedWasAsked, Grows
<1>4. rows \in Refunds
    BY RefundBounds DEF Receive, Existing, Refunds, TypeOK
<1>5. GatewayOK' /\ HookOK'
    <2>0. GatewayOK'
        BY <1>0 DEF Receive, Safe, GatewayOK, TypeOK
    <2>1. CASE status[rows] = StatusOf(kind)
        BY <1>0, <1>1, <2>0, <2>1 DEF Receive, Safe, HookOK, Grows
    <2>2. CASE status[rows] # StatusOf(kind)
        <3>1. /\ hook'[h].r = r /\ hook'[h].t = rows /\ hook'[h].kind = kind
              /\ \A g \in Hooks : g # h => hook'[g] = hook[g]
            BY <2>2 DEF Receive, TypeOK
        <3>2. kind \in outcome[r]
            BY DEF Receive
        <3>3. \A g \in Hooks : hook'[g].pc = "write" =>
                /\ hook'[g].r \in Refunds /\ hook'[g].t \in Refunds
                /\ hook'[g].kind \in outcome[hook'[g].r]
                /\ hook'[g].t # hook'[g].r => "mistaken" \in cause'[hook'[g].r]
            <4> SUFFICES ASSUME NEW g \in Hooks, hook'[g].pc = "write"
                         PROVE  /\ hook'[g].r \in Refunds /\ hook'[g].t \in Refunds
                                /\ hook'[g].kind \in outcome[hook'[g].r]
                                /\ hook'[g].t # hook'[g].r => "mistaken" \in cause'[hook'[g].r]
                OBVIOUS
            <4>1. CASE g = h
                BY <1>1, <1>4, <3>1, <3>2, <4>1
            <4>2. CASE g # h
                BY <1>1, <3>1, <4>2 DEF Safe, HookOK, Grows
            <4>. QED BY <4>1, <4>2
        <3>. QED BY <1>0, <2>0, <3>3 DEF HookOK
    <2>. QED BY <2>1, <2>2
<1>6. FailureIsSeen'
    <2> SUFFICES ASSUME NEW q \in Refunds, "failed" \in told'[q], outcome'[q] = {"failed"},
                        cause'[q] \cap {"mistaken", "overtaken"} = {}
                 PROVE  status[q] = "failed"
        BY <1>0 DEF FailureIsSeen
    <2>1. CASE "failed" \in told[q]
        BY <1>0, <1>1, <2>1 DEF Safe, FailureIsSeen, Grows
    <2>2. CASE "failed" \notin told[q]
        <3>1. q = r /\ kind = "failed" /\ status[rows] = StatusOf(kind)
            BY <2>2 DEF Receive, TypeOK
        <3>. QED BY <1>1, <3>1 DEF StatusOf
    <2>. QED BY <2>1, <2>2
<1>. QED BY <1>2, <1>3, <1>5, <1>6 DEF Safe

LEMMA SafeWrite ==
    ASSUME IInv, NEW h \in Hooks, WriteHook(h)
    PROVE  Safe'
<1> USE DEF IInv
<1>0. UNCHANGED <<outcome, reversals, cron, asked>>
    BY DEF WriteHook, hookOnly
<1> PICK r \in Refunds, t \in Refunds, kind \in Results :
        /\ kind \in outcome[r]
        /\ hook[h].r = r /\ hook[h].t = t /\ hook[h].kind = kind
        /\ t # r => "mistaken" \in cause[r]
    BY HookRec DEF WriteHook, Safe, HookOK, TypeOK
<1>1. /\ Grows /\ \A q \in Refunds : Clean(q)' => Clean(q)
      /\ t # r => "mistaken" \in cause'[t]
    BY BlameGrows DEF WriteHook, TypeOK
<1>2. /\ status'[t] = StatusOf(kind)
      /\ \A q \in Refunds : q # t => status'[q] = status[q]
      /\ told'[r] = told[r] \cup {kind}
      /\ \A q \in Refunds : q # r => told'[q] = told[q]
    BY DEF WriteHook, TypeOK
<1>3. CronOK' /\ HeldOnce' /\ NotYetAsked' /\ PendingUnasked' /\ AskedOnce'
    BY <1>0, <1>1, <1>2, CronStays DEF StatusOf
<1>4. CompletedWasAsked'
    <2>1. t = r /\ StatusOf(kind) = "completed" => asked[r] > 0
        BY DEF Safe, GatewayOK, HookOK
    <2>. QED BY <1>0, <1>1, <1>2, <2>1 DEF Safe, CompletedWasAsked, Grows
<1>5. GatewayOK' /\ HookOK'
    <2>1. hook'[h].pc = "idle" /\ \A g \in Hooks : g # h => hook'[g] = hook[g]
        BY DEF WriteHook, IdleHook, TypeOK
    <2>2. GatewayOK'
        BY <1>0, <1>2 DEF Safe, GatewayOK
    <2>. QED BY <1>0, <1>1, <2>1, <2>2 DEF Safe, HookOK, Grows
<1>6. FailureIsSeen'
    <2> SUFFICES ASSUME NEW q \in Refunds, "failed" \in told'[q], outcome[q] = {"failed"},
                        cause'[q] \cap {"mistaken", "overtaken"} = {}
                 PROVE  status'[q] = "failed"
        BY <1>0 DEF FailureIsSeen
    <2>1. cause[q] \cap {"mistaken", "overtaken"} = {}
        BY <1>1 DEF Grows
    <2>2. CASE q = t
        <3>1. t = r
            BY <1>1, <2>2
        <3>. QED BY <1>2, <2>2, <3>1 DEF StatusOf
    <2>3. CASE q # t
        <3>1. q # r
            BY <2>1, <2>3
        <3>. QED BY <1>2, <2>1, <2>3, <3>1 DEF Safe, FailureIsSeen
    <2>. QED BY <2>2, <2>3
<1>. QED BY <1>3, <1>4, <1>5, <1>6 DEF Safe

LEMMA SafeNext == IInv /\ [Next]_vars => Safe'
<1> SUFFICES ASSUME IInv, [Next]_vars PROVE Safe'
    OBVIOUS
<1>1. CASE QueueRefund \/ FundEscrow \/ GiveBankDetails \/ \E r \in Refunds : DatePasses(r)
    <2>1. UNCHANGED world
        BY <1>1 DEF QueueRefund, FundEscrow, GiveBankDetails, DatePasses
    <2>2. Grows /\ \A q \in Refunds : Clean(q)' => Clean(q)
        BY <2>1, SameGrows DEF world
    <2>3. CronOK' /\ HeldOnce' /\ NotYetAsked' /\ PendingUnasked' /\ AskedOnce'
        BY <2>1, <2>2, CronStays DEF world
    <2>4. GatewayOK' /\ HookOK' /\ CompletedWasAsked' /\ FailureIsSeen'
        BY <2>1 DEF world, IInv, Safe, GatewayOK, HookOK, CompletedWasAsked, FailureIsSeen
    <2>. QED BY <2>3, <2>4 DEF Safe
<1>2. CASE \E c \in Crons : CronStep(c) \/ CrashCron(c)
    BY <1>2, SafeCron, SafeCrash
<1>3. CASE \E r \in Refunds, kind \in Results : Settle(r, kind)
    <2> PICK r \in Refunds : \E kind \in Results : Settle(r, kind)
        BY <1>3
    <2> PICK kind \in Results : Settle(r, kind)
        OBVIOUS
    <2>1. UNCHANGED <<status, told, hook, cause, cron, asked, reversals>>
        BY DEF Settle, hookOnly
    <2>2. /\ outcome[r] \subseteq outcome'[r] /\ reversals[r] > 0
          /\ \A q \in Refunds : q # r => outcome'[q] = outcome[q]
          /\ \A q \in Refunds : outcome'[q] = {"failed"} => outcome[q] \in {{}, {"failed"}}
        BY DEF Settle, IInv, TypeOK
    <2>3. Grows /\ \A q \in Refunds : Clean(q)' => Clean(q)
        BY <2>1, SameGrows
    <2>4. CronOK' /\ HeldOnce' /\ NotYetAsked' /\ PendingUnasked' /\ AskedOnce'
        BY <2>1, <2>3, CronStays
    <2>5. GatewayOK' /\ HookOK' /\ CompletedWasAsked'
        BY <2>1, <2>2 DEF IInv, Safe, GatewayOK, HookOK, CompletedWasAsked
    <2>6. FailureIsSeen'
        BY <2>1, <2>2 DEF IInv, Safe, FailureIsSeen, GatewayOK
    <2>. QED BY <2>4, <2>5, <2>6 DEF Safe
<1>4. CASE \E h \in Hooks : \/ WriteHook(h) \/ CrashHook(h)
                           \/ \E r \in Refunds, kind \in Results : Receive(h, r, kind)
    <2> PICK h \in Hooks : \/ WriteHook(h) \/ CrashHook(h)
                          \/ \E r \in Refunds, kind \in Results : Receive(h, r, kind)
        BY <1>4
    <2>1. CASE CrashHook(h)
        <3>1. UNCHANGED <<status, outcome, told, cause, cron, asked, reversals>>
            BY <2>1 DEF CrashHook, hookOnly
        <3>2. hook'[h].pc = "idle" /\ \A g \in Hooks : g # h => hook'[g] = hook[g]
            BY <2>1 DEF CrashHook, IdleHook, IInv, TypeOK
        <3>3. Grows /\ \A q \in Refunds : Clean(q)' => Clean(q)
            BY <3>1, SameGrows
        <3>4. CronOK' /\ HeldOnce' /\ NotYetAsked' /\ PendingUnasked' /\ AskedOnce'
            BY <3>1, <3>3, CronStays
        <3>5. GatewayOK' /\ HookOK' /\ CompletedWasAsked' /\ FailureIsSeen'
            BY <3>1, <3>2 DEF IInv, Safe, GatewayOK, HookOK, CompletedWasAsked, FailureIsSeen
        <3>. QED BY <3>4, <3>5 DEF Safe
    <2>. QED BY <2>1, SafeReceive, SafeWrite
<1>5. CASE UNCHANGED vars
    <2>1. Grows /\ \A q \in Refunds : Clean(q)' => Clean(q)
        BY <1>5, SameGrows DEF vars
    <2>2. CronOK' /\ HeldOnce' /\ NotYetAsked' /\ PendingUnasked' /\ AskedOnce'
        BY <1>5, <2>1, CronStays DEF vars
    <2>3. GatewayOK' /\ HookOK' /\ CompletedWasAsked' /\ FailureIsSeen'
        BY <1>5 DEF vars, IInv, Safe, GatewayOK, HookOK, CompletedWasAsked, FailureIsSeen
    <2>. QED BY <2>2, <2>3 DEF Safe
<1>. QED BY <1>1, <1>2, <1>3, <1>4, <1>5 DEF Next

-----------------------------------------------------------------------------
(* IInv is an inductive invariant, and the three properties follow.        *)
LEMMA Inductive == Spec => []IInv
<1>1. Init => IInv
    BY TypeInit, SafeInit DEF IInv
<1>2. IInv /\ [Next]_vars => IInv'
    BY TypeNext, SafeNext DEF IInv
<1>. QED BY <1>1, <1>2, PTL DEF Spec

\* processPendingRefunds asks for a row's money at most once, whatever the webhooks do
\* and however many instances run it, unless the row is blamed for one of the three
\* events its code has no defence against.
THEOREM RefundedOnce == Spec => []AskedOnce
<1>1. IInv => AskedOnce
    BY DEF IInv, Safe
<1>. QED BY <1>1, Inductive, PTL

\* A completed row was asked for, or a webhook took it for another.
THEOREM CompletedRefundsWereAsked == Spec => []CompletedWasAsked
<1>1. IInv => CompletedWasAsked
    BY DEF IInv, Safe
<1>. QED BY <1>1, Inductive, PTL

\* A failed reversal the webhook reported stays on record, for rows nothing else
\* has happened to.
THEOREM FailuresAreSeen == Spec => []FailureIsSeen
<1>1. IInv => FailureIsSeen
    BY DEF IInv, Safe
<1>. QED BY <1>1, Inductive, PTL
=============================================================================
