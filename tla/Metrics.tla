------------------------------- MODULE Metrics -------------------------------
(***************************************************************************)
(* The collection of the figures of live posts.  A tick of the queue       *)
(* registers the links of submissions that have no row yet, resolves rows  *)
(* that are pending against the creator's account at the platform, and     *)
(* takes the readings that have come due: a story's before it disappears,  *)
(* any other post's after a day, a week and a month.  Staff retry a        *)
(* resolution or take a reading of their own beside the tick.              *)
(***************************************************************************)
EXTENDS Integers, Sequences, FiniteSetsExt

CONSTANTS
    Posts,          \* one post of one submission at one platform, as a pair
    Workers,        \* instances that may have a tick in hand
    Staff,          \* requests of staff handled at one time
    Instants,       \* the hours since the posts went out at which steps may be taken
    ResolveBatch, CaptureBatch,
    MaxLinks,       \* bound: links submitted or changed
    MaxTicks,       \* bound: ticks
    MaxManual,      \* bound: requests of staff
    MaxTroubles     \* bound: answers of a platform that are not a success, ended
                    \* connections and killed processes, together

Day == 24
CaptureWindows == [t24h |-> Day, t7d |-> 7 * Day, t30d |-> 30 * Day]
Scheduled == DOMAIN CaptureWindows \cup {"story"}
StoryOffset == 20
Grace == 7 * Day

ASSUME MetricsConstants ==
    /\ Posts \subseteq STRING \X STRING /\ Instants \in Seq(Nat) /\ Instants # <<>>
    /\ \A i, k \in DOMAIN Instants : i <= k => Instants[i] <= Instants[k]
    /\ Workers \cap Staff = {}
    /\ {ResolveBatch, CaptureBatch, MaxLinks, MaxTicks, MaxManual, MaxTroubles} \subseteq Nat

VARIABLES
    link,         \* of each post the link that was submitted, 0 if none was
    media,        \* submission_post_media: of each post its row, NoMedia before
    connected,    \* the creator's account is connected with a token
    hour,         \* index of the present instant
    job,          \* of each worker and request of staff: the step, and its locals
    readings,     \* of each row the snapshots of each window that show its link
    blurred,      \* history: posts of which two captures or two ticks overlapped, of which a
                  \* capture was cut off before its mark, or that got another link from one
                  \* tick while another captured them or had them listed
    skipped,      \* history: posts that a quiet tick listed and did not serve
    linked, ticks, manual, troubles

metricsBounds == <<linked, ticks, manual, troubles>>
metricsVars == <<link, media, connected, hour, job, readings, blurred, skipped, metricsBounds>>

NoMedia == [status |-> "none", link |-> 0, type |-> "none", at |-> -1, windows |-> {},
            owned |-> FALSE]
Seed(l) == [NoMedia EXCEPT !.status = "pending", !.link = l]

Nothing == <<"", "">>
Idle == [at |-> "idle", seen |-> [p \in {} |-> NoMedia], todo |-> {}, post |-> Nothing,
         windows |-> {}, window |-> "none", read |-> NoMedia, quiet |-> TRUE,
         since |-> 0]

Jobs == Workers \cup Staff
NoReadings == [w \in Scheduled \cup {"manual"} |-> 0]

InitMetrics ==
    /\ link = [p \in Posts |-> 0]
    /\ media = [p \in Posts |-> NoMedia]
    /\ connected = TRUE /\ hour = 1
    /\ job = [j \in Jobs |-> Idle]
    /\ readings = [p \in Posts |-> NoReadings]
    /\ blurred = {} /\ skipped = {}
    /\ linked = 0 /\ ticks = 0 /\ manual = 0 /\ troubles = 0

Now == Instants[hour]

Become(j, step) == job' = [job EXCEPT ![j].at = step]
Spoil(n) == troubles + n <= MaxTroubles /\ troubles' = troubles + n

-----------------------------------------------------------------------------
(* The creator, and time.                                                  *)

\* A link, and another in its place: campaigns.service writes the submission only.
SubmitLink(p) ==
    /\ linked < MaxLinks /\ linked' = linked + 1
    /\ link' = [link EXCEPT ![p] = @ + 1]
    /\ UNCHANGED <<media, connected, hour, job, readings, blurred, skipped, ticks, manual,
                   troubles>>

Reconnect ==
    /\ IF connected THEN Spoil(1) ELSE UNCHANGED troubles
    /\ connected' = ~connected
    /\ UNCHANGED <<link, media, hour, job, readings, blurred, skipped, linked, ticks, manual>>

Later ==
    /\ hour < Len(Instants) /\ hour' = hour + 1
    /\ UNCHANGED <<link, media, connected, job, readings, blurred, skipped, metricsBounds>>

-----------------------------------------------------------------------------
(* The tick: one worker takes it, another may have the one before in hand. *)

Missing(p) == \A o \in Posts : o[1] = p[1] => media[o] = NoMedia
NeedRegistration == {p[1] : p \in {q \in Posts : link[q] # 0 /\ Missing(q)}}

UpTo(n, S) == kSubset(Min({n, Cardinality(S)}), S)

\* The links are those of the moment they were listed.
RegisterNewLiveLinks(j) ==
    /\ job[j].at = "idle" /\ ticks < MaxTicks /\ ticks' = ticks + 1
    /\ \E subs \in UpTo(ResolveBatch, NeedRegistration) :
         LET mine == {p \in Posts : p[1] \in subs /\ link[p] # 0}
         IN  job' = [job EXCEPT ![j] = [Idle EXCEPT
                       !.at = "register", !.todo = mine, !.seen = [p \in mine |-> Seed(link[p])]]]
    /\ UNCHANGED <<link, media, connected, hour, readings, blurred, skipped, linked, manual,
                   troubles>>

Capturing(p) == {j \in Jobs : job[j].post = p /\ job[j].at \in {"store", "mark"}}

\* Posts that a tick has listed and is not done with: ticks are a quarter of an
\* hour apart, and one may outlast that.
Listed ==
    UNION {DOMAIN job[j].seen : j \in {i \in Workers : job[i].at \in {"capture", "store", "mark"}}}

\* Another link in a row that is there resets it; its snapshots stay.
UpsertMedia(j) ==
    \E p \in job[j].todo :
        LET seed == job[j].seen[p]
            new == media[p].link # seed.link
        IN  /\ job[j].at = "register"
            /\ media' = [media EXCEPT ![p] = IF new THEN seed ELSE @]
            /\ readings' = [readings EXCEPT ![p] = IF new THEN NoReadings ELSE @]
            /\ blurred' = IF new /\ (Capturing(p) # {} \/ p \in Listed) THEN blurred \cup {p}
                           ELSE blurred
            /\ job' = [job EXCEPT ![j].todo = @ \ {p}]
            /\ UNCHANGED <<link, connected, hour, skipped, metricsBounds>>

Pending == {p \in Posts : media[p].status = "pending"}

FindPending(j) ==
    /\ job[j].at = "register" /\ job[j].todo = {}
    /\ \E batch \in UpTo(ResolveBatch, Pending) :
         job' = [job EXCEPT ![j] = [Idle EXCEPT !.at = "resolve", !.todo = batch]]
    /\ UNCHANGED <<link, media, connected, hour, readings, blurred, skipped, metricsBounds>>

ResolveNext(j) ==
    \E p \in job[j].todo :
        /\ job[j].at = "resolve"
        /\ job' = [job EXCEPT ![j].at = "ask", ![j].post = p, ![j].todo = @ \ {p}]
        /\ UNCHANGED <<link, media, connected, hour, readings, blurred, skipped, metricsBounds>>

-----------------------------------------------------------------------------
(* resolve: the row and the connection are read, the platform is asked,    *)
(* and what came of it is written to the row.                              *)

AfterPost(j) == IF j \in Staff THEN Idle ELSE [job[j] EXCEPT !.at = "resolve", !.post = Nothing,
                                                          !.read = NoMedia]

\* The platform tells when the post went out, or that moment is taken to be now.
Resolved(row) ==
    {[row EXCEPT !.status = "resolved", !.owned = TRUE, !.type = type, !.at = at] :
        type \in {"STORY", "REEL"}, at \in {0, Now}}

\* An outcome of unsupported goes the way of unowned.
Failed(row) ==
    {[row EXCEPT !.status = s, !.owned = FALSE] : s \in {"unowned", "unauthorized"}}

\* The answer is kept until it is written.
AskPlatform(j) ==
    LET row == media[job[j].post]
    IN  /\ job[j].at = "ask"
        /\ \/ /\ connected /\ \E new \in Resolved(row) : job' = [job EXCEPT ![j].read = new,
                                                                           ![j].at = "answer"]
              /\ UNCHANGED troubles
           \/ /\ connected /\ Spoil(1)
              /\ \E new \in Failed(row) \cup {row} :
                   job' = [job EXCEPT ![j].read = new, ![j].at = "answer"]
           \/ /\ ~connected /\ UNCHANGED troubles
              /\ job' = [job EXCEPT ![j].at = "answer", ![j].read =
                           [row EXCEPT !.status = "unauthorized", !.owned = FALSE]]
        /\ UNCHANGED <<link, media, connected, hour, readings, blurred, skipped, linked, ticks,
                       manual>>

\* The fields that an outcome names are written to the row as it is by now; a transient
\* failure names none of them.
WriteResolution(j) ==
    LET me == job[j]
        p == me.post
        told == [media[p] EXCEPT !.status = me.read.status, !.owned = me.read.owned,
                                 !.type = me.read.type, !.at = me.read.at]
    IN  /\ me.at = "answer"
        /\ media' = [media EXCEPT ![p] = CASE me.read.status = "resolved" -> told
                       [] me.read.status = "pending" -> @
                       [] OTHER -> [@ EXCEPT !.status = me.read.status, !.owned = FALSE]]
        /\ job' = [job EXCEPT ![j] = AfterPost(j)]
        /\ UNCHANGED <<link, connected, hour, readings, blurred, skipped, metricsBounds>>

-----------------------------------------------------------------------------
(* captureDue.                                                             *)

Candidates ==
    {p \in Posts : media[p].status = "resolved" /\ media[p].owned
                   /\ media[p].at >= Now - CaptureWindows.t30d - Grace}

\* A story has a window of its own.
DueWindows(row, now) ==
    IF row.type = "STORY"
    THEN {w \in {"story"} : now - row.at >= StoryOffset} \ row.windows
    ELSE {w \in DOMAIN CaptureWindows : now - row.at >= CaptureWindows[w]} \ row.windows

FindCandidates(j) ==
    /\ job[j].at = "resolve" /\ job[j].todo = {} /\ j \in Workers
    /\ \E batch \in UpTo(CaptureBatch, Candidates) :
         /\ job' = [job EXCEPT ![j] = [Idle EXCEPT !.at = "capture", !.todo = batch, !.since = Now,
                                                !.seen = [p \in batch |-> media[p]]]]
         /\ blurred' = blurred \cup (batch \cap Listed)
    /\ UNCHANGED <<link, media, connected, hour, readings, skipped, metricsBounds>>

\* Mutant of CaptureNext: a window is due once its hour has passed.
CaptureLate(j) ==
    \E p \in job[j].todo :
        /\ job[j].at = "capture" /\ job[j].windows = {}
        /\ job' = [job EXCEPT ![j].post = p, ![j].todo = @ \ {p},
                              ![j].windows = DueWindows(job[j].seen[p], Now - 1)]
        /\ UNCHANGED <<link, media, connected, hour, readings, blurred, skipped, metricsBounds>>

\* The windows of a post follow from the row as it was listed, and from the hour.
CaptureNext(j) ==
    \E p \in job[j].todo :
        /\ job[j].at = "capture" /\ job[j].windows = {}
        /\ job' = [job EXCEPT ![j].post = p, ![j].todo = @ \ {p},
                              ![j].windows = DueWindows(job[j].seen[p], Now)]
        /\ UNCHANGED <<link, media, connected, hour, readings, blurred, skipped, metricsBounds>>

\* Whether the listed posts were served is judged by what was due when they were listed.
EndTick(j) ==
    /\ job[j].at = "capture" /\ job[j].todo = {} /\ job[j].windows = {} /\ j \in Workers
    /\ skipped' = skipped \cup IF ~job[j].quiet THEN {} ELSE
                    {p \in DOMAIN job[j].seen \ blurred :
                        ~(DueWindows(job[j].seen[p], job[j].since) \subseteq media[p].windows)}
    /\ job' = [job EXCEPT ![j] = Idle]
    /\ UNCHANGED <<link, media, connected, hour, readings, blurred, metricsBounds>>

\* captureSnapshot: the row and the connection are read, and the platform is asked.
OneWindow(j, w) == [job[j] EXCEPT !.windows = @ \ {w}, !.window = w, !.read = media[job[j].post]]

\* A tick that fails to take a reading goes on to the next; a request of staff ends there.
GivenUp(j, w) ==
    IF j \in Staff THEN Idle ELSE [job[j] EXCEPT !.windows = @ \ {w}, !.quiet = FALSE]

\* Mutant of Fetch: a window is marked whatever came of its capture.
FetchAndMark(j) ==
    LET p == job[j].post
    IN  /\ job[j].at = "capture" /\ connected
        /\ \E w \in job[j].windows : media[p].status = "resolved" /\
             \/ /\ job' = [job EXCEPT ![j] = [OneWindow(j, w) EXCEPT !.at = "store"]]
                /\ UNCHANGED <<media, troubles>>
             \/ /\ Spoil(1)
                /\ media' = [media EXCEPT ![p].windows = @ \cup {w}]
                /\ job' = [job EXCEPT ![j] = GivenUp(j, w)]
        /\ UNCHANGED <<link, connected, hour, readings, blurred, skipped, linked, ticks, manual>>

Fetch(j) ==
    LET p == job[j].post
        unauthorized == media' = [media EXCEPT ![p].status = "unauthorized"]
    IN  /\ job[j].at = "capture"
        /\ \E w \in job[j].windows :
             \/ /\ media[p].status # "resolved" \/ ~connected
                /\ IF media[p].status # "resolved" THEN UNCHANGED media ELSE unauthorized
                /\ job' = [job EXCEPT ![j] = GivenUp(j, w)]
                /\ UNCHANGED <<blurred, troubles>>
             \/ /\ media[p].status = "resolved" /\ connected
                /\ job' = [job EXCEPT ![j] = [OneWindow(j, w) EXCEPT !.at = "store"]]
                /\ blurred' = IF Capturing(p) = {} THEN blurred ELSE blurred \cup {p}
                /\ UNCHANGED <<media, troubles>>
             \/ /\ media[p].status = "resolved" /\ connected /\ Spoil(1)
                /\ unauthorized \/ UNCHANGED media
                /\ job' = [job EXCEPT ![j] = GivenUp(j, w)]
                /\ UNCHANGED blurred
        /\ UNCHANGED <<link, connected, hour, readings, skipped, linked, ticks, manual>>

\* The snapshot is made of what the platform said of the link that was read.
CreateSnapshot(j) ==
    LET p == job[j].post
        w == job[j].window
        mine == media[p].link = job[j].read.link
    IN  /\ job[j].at = "store" /\ Become(j, "mark")
        /\ readings' = [readings EXCEPT ![p][w] = IF mine /\ @ < 2 THEN @ + 1 ELSE @]
        /\ UNCHANGED <<link, media, connected, hour, blurred, skipped, metricsBounds>>

\* The windows are those that were read, and this one.
MarkCaptured(j) ==
    LET p == job[j].post
    IN  /\ job[j].at = "mark"
        /\ media' = [media EXCEPT ![p].windows = job[j].read.windows \cup {job[j].window}]
        /\ job' = [job EXCEPT ![j] = IF j \in Staff THEN Idle
                       ELSE [@ EXCEPT !.at = "capture", !.window = "none", !.read = NoMedia]]
        /\ UNCHANGED <<link, connected, hour, readings, blurred, skipped, metricsBounds>>

-----------------------------------------------------------------------------
(* Staff, and the failure of an instance.                                  *)

AskStaff(j, p, locals) ==
    /\ job[j].at = "idle" /\ media[p] # NoMedia
    /\ manual < MaxManual /\ manual' = manual + 1
    /\ job' = [job EXCEPT ![j] = locals]
    /\ UNCHANGED <<link, media, connected, hour, readings, blurred, skipped, linked, ticks,
                   troubles>>

ResolveAgain(j, p) == AskStaff(j, p, [Idle EXCEPT !.at = "ask", !.post = p])
CaptureNow(j, p) ==
    AskStaff(j, p, [Idle EXCEPT !.at = "capture", !.post = p, !.windows = {"manual"}])

CutJob(j) ==
    /\ job[j].at # "idle" /\ Spoil(1)
    /\ blurred' = IF job[j].at = "mark" THEN blurred \cup {job[j].post} ELSE blurred
    /\ job' = [job EXCEPT ![j] = Idle]
    /\ UNCHANGED <<link, media, connected, hour, readings, skipped, linked, ticks, manual>>

NextMetrics ==
    \/ \E p \in Posts : SubmitLink(p)
    \/ Reconnect \/ Later
    \/ \E j \in Workers :
         \/ RegisterNewLiveLinks(j) \/ UpsertMedia(j) \/ FindPending(j) \/ ResolveNext(j)
         \/ FindCandidates(j) \/ CaptureNext(j) \/ EndTick(j)
    \/ \E j \in Staff, p \in Posts : ResolveAgain(j, p) \/ CaptureNow(j, p)
    \/ \E j \in Jobs :
         \/ AskPlatform(j) \/ WriteResolution(j)
         \/ Fetch(j) \/ CreateSnapshot(j) \/ MarkCaptured(j) \/ CutJob(j)

SpecMetrics == InitMetrics /\ [][NextMetrics]_metricsVars

-----------------------------------------------------------------------------
(* Properties.                                                             *)

\* A scheduled reading of a post is taken once, through failures, retries and ticks that
\* overlap elsewhere; and no window counts as captured that has no snapshot, wherever a
\* process is cut off (post-metrics.service.ts:85-118).  A reading that staff take while the
\* tick takes one of the same post may undo its mark.
ReadOnce ==
    \A p \in Posts \ blurred, w \in Scheduled :
        /\ readings[p][w] <= 1
        /\ w \in media[p].windows => readings[p][w] = 1

\* A tick in which nothing failed has taken every reading that was due when it listed the
\* post (post-metrics.processor.ts:116-135).
TickServes == skipped = {}
=============================================================================
