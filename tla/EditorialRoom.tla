---------------------------- MODULE EditorialRoom ----------------------------
(***************************************************************************)
(* The editorial room of the newspaper: the artifacts waiting for an       *)
(* article, their pending index, the slate of each day (to_compose), and   *)
(* the tasks that move them: crawls, the daily selection, the admin's redo *)
(* and pin, the drain that composes, the reclaim of what a day left over,  *)
(* and the sweeps.                                                         *)
(*                                                                         *)
(* db is what the tables hold.  A call is the sequence of the db's that    *)
(* its statements leave one after the other: it ends in the last one, and  *)
(* a task that fails or dies in it leaves any of them.  What a task has    *)
(* read it keeps in job, and acts on one call later, when others may have  *)
(* moved.  Artifacts are numbered in the order of their created_at.        *)
(***************************************************************************)
EXTENDS Integers, FiniteSets, SequencesExt

CONSTANTS
    Task,          \* tasks that may overlap; each one comes again
    Service,       \* services the crawler watches
    NoService,     \* an artifact of no service (a brief, a mail)
    Covered,       \* those with a published article at the start
    SlotsPerDay,   \* NEWS_MAX_ARTICLES_PER_DAY
    NewShare,      \* ARTIFACT_NEW_SERVICE_MIN_SHARE, in percent
    MaxOld,        \* ARTIFACT_CONCAT_MAX_OLD_CHARS, in updates
    MaxArtifacts,  \* bound: artifacts
    MaxPriority,   \* bound: priorities a sweep computes
    MaxBoost,      \* bound: how far above those the reclaim goes
    LastDay,       \* bound: days
    MaxFailures    \* bound: failed calls and dead tasks

ASSUME ServiceAssumption == NoService \notin Service /\ Covered \subseteq Service
ASSUME SlotAssumption == SlotsPerDay \in Nat \ {0} /\ NewShare \in 0..100
ASSUME CapAssumption == MaxOld \in Nat
ASSUME BoundAssumption ==
    /\ MaxArtifacts \in Nat \ {0} /\ MaxPriority \in Nat
    /\ MaxBoost \in Nat /\ LastDay \in Nat /\ MaxFailures \in Nat

VARIABLES
    today,     \* the day, UTC
    db,        \* the tables: art (artifacts and artifact_content), listed
               \* (artifacts_pending), slate (to_compose)
    pc,        \* pc[t]: the next call of t
    job,       \* job[t]: what t has read
    covered,   \* services with a published article: service_has_article
    told,      \* history: how many articles have told each update
    dropped,   \* history: updates dropped for good, by a gate or a dead source
    failures,  \* history: calls failed, tasks dead
    stale      \* history: a task has written on what had changed since it read it

vars == <<today, db, pc, job, covered, told, dropped, failures, stale>>

Id       == 1..MaxArtifacts
Day      == 0..(LastDay + 2)
NoDay    == -1
Priority == 0..(MaxPriority + MaxBoost)
Status   == {"absent", "pending", "selected", "composed", "discarded"}
Lane     == {"human", "platform"}
Slot     == 0..(SlotsPerDay - 1)
Row      == [day : Day, slot : Slot, id : Id, lane : Lane]
Pick     == [slot : Slot, id : Id, lane : Lane]
Entry    == [id : Id, priority : Priority, pin : Day \cup {NoDay}]
Artifact == [status : Status, service : Service \cup {NoService},
             priority : Priority, pin : Day \cup {NoDay}, content : Seq(Id)]
PC == {"idle", "clear", "place", "reset", "reclaim", "drain", "weigh",
       "compose", "dead", "merge"}
Tables == [art : [Id -> Artifact], listed : SUBSET Entry, slate : SUBSET Row]
Job == [day : Day, then : {"idle", "drain"}, rows : SUBSET Row, plan : SUBSET Pick,
        id : Id \cup {0}, seen : SUBSET Row, service : Service \cup {NoService},
        ids : SUBSET Id, claimed : SUBSET Day]

NoJob == [day |-> 0, then |-> "idle", rows |-> {}, plan |-> {}, id |-> 0,
          seen |-> {}, service |-> NoService, ids |-> {}, claimed |-> {}]

TypeOK ==
    /\ today \in 0..LastDay
    /\ db \in Tables
    /\ pc \in [Task -> PC]
    /\ job \in [Task -> Job]
    /\ covered \subseteq Service
    /\ told \in [Id -> 0..2]
    /\ dropped \subseteq Id
    /\ failures \in 0..MaxFailures
    /\ stale \in BOOLEAN

Init ==
    /\ today = 0
    /\ db = [art |-> [i \in Id |-> [status |-> "absent", service |-> NoService,
                                    priority |-> 0, pin |-> NoDay, content |-> <<>>]],
             listed |-> {}, slate |-> {}]
    /\ pc = [t \in Task |-> "idle"]
    /\ job = [t \in Task |-> NoJob]
    /\ covered = Covered
    /\ told = [u \in Id |-> 0]
    /\ dropped = {}
    /\ failures = 0
    /\ stale = FALSE

-----------------------------------------------------------------------------
(* Statements, and the calls of artifact_store made of them.               *)

SlateOf(d, day) == {r \in d.slate : r.day = day}
RowsOf(d, i)    == {r \in d.slate : r.id = i}
Live(i)         == db.art[i].status \in {"pending", "selected"}
Says(content)   == Range(content)

SetStatus(d, i, s)   == [d EXCEPT !.art[i].status = s]
SetPriority(d, i, p) == [d EXCEPT !.art[i].priority = p]
SetPin(d, i, day)    == [d EXCEPT !.art[i].pin = day]
SetContent(d, i, c)  == [d EXCEPT !.art[i].content = c]
Listed(d, i, p)    == [d EXCEPT !.listed = {r \in @ : ~(r.id = i /\ r.priority = p)}
                          \cup {[id |-> i, priority |-> p, pin |-> d.art[i].pin]}]
Unlisted(d, i, p)  == [d EXCEPT !.listed = {r \in @ : ~(r.id = i /\ r.priority = p)}]
Cleared(d, rows)   == [d EXCEPT !.slate = @ \ rows]

\* mark_artifact_status.
Mark(d, i, s) ==
    LET first == SetStatus(d, i, s)
    IN  IF d.art[i].status # "pending" THEN <<first>>
        ELSE <<first, Unlisted(first, i, d.art[i].priority)>>

\* revert_artifact_to_pending, of a selected artifact.
Revert(d, i) ==
    LET first == SetStatus(d, i, "pending")
    IN  <<first, Listed(first, i, d.art[i].priority)>>

\* Variant: the row it had stays in the index.
AddPriority(d, i, p) ==
    LET first == SetPriority(d, i, p)
    IN  IF d.art[i].status # "pending" THEN <<first>> ELSE <<first, Listed(first, i, p)>>

\* update_artifact_priority: the index is keyed on the priority.
Reprioritise(d, i, p) ==
    LET first == SetPriority(d, i, p)
        gone  == Unlisted(first, i, d.art[i].priority)
    IN  IF d.art[i].status # "pending" THEN <<first>>
        ELSE <<first, gone, Listed(gone, i, p)>>

\* pin_artifact_for_day, of a pending artifact: what else is pinned for that
\* day loses its pin first.
PinFor(d, i, day) ==
    LET others == {r.id : r \in {r \in d.listed : r.pin = day /\ r.id # i}}
        unpinned == [d EXCEPT !.art = [j \in Id |-> IF j \in others
                                                    THEN [@[j] EXCEPT !.pin = NoDay]
                                                    ELSE @[j]]]
        freed == [unpinned EXCEPT !.listed =
                    {IF r.id \in others THEN [r EXCEPT !.pin = NoDay] ELSE r : r \in @}]
        pinned == SetPin(freed, i, day)
    IN  <<unpinned, freed, pinned,
          Listed(pinned, i, d.art[i].priority)>>

\* list_pending_artifacts: priority DESC, created_at ASC.
Ahead(a, b) == a.priority > b.priority \/ (a.priority = b.priority /\ a.id < b.id)

First(rows) == CHOOSE r \in rows : \A o \in rows : ~Ahead(o, r)

\* The first n.
Best(rows, n) == {r \in rows : Cardinality({o \in rows : Ahead(o, r)}) < n}

\* The next artifact's number: it is younger than those there are.
IsNext(n) == \A i \in Id : db.art[i].status = "absent" <=> n <= i

\* The statements that file a new artifact.
File(d, n, s, pin, content) ==
    LET row == [d EXCEPT !.art[n] = [status |-> "pending", service |-> s, priority |-> 0,
                                     pin |-> pin, content |-> <<>>]]
        filed == Listed(row, n, 0)
    IN  <<row, filed, SetContent(filed, n, content)>>

\* Variant: the front is kept.
CappedAtBack(content) ==
    IF Len(content) <= MaxOld THEN content ELSE SubSeq(content, 1, MaxOld)

\* _cap_old_content: too long, it loses its front.  Updates count as equally
\* long, and one that is cut in two as cut away.
Capped(content) ==
    IF Len(content) <= MaxOld THEN content
    ELSE SubSeq(content, Len(content) - MaxOld + 1, Len(content))

\* Variant: the successor starts with no pin.
InsertUnpinned(d, n, s, update) ==
    LET same == {r \in d.listed : d.art[r.id].service = s}
        old  == First(same)
        gone == Unlisted(d, old.id, old.priority)
        dead == SetStatus(gone, old.id, "discarded")
    IN  IF s = NoService \/ same = {}
        THEN File(d, n, s, NoDay, update)
        ELSE <<gone, dead>> \o File(dead, n, s, NoDay, Capped(d.art[old.id].content) \o update)

\* insert_artifact: the pending artifact of the service is superseded; the new
\* one takes its pin, and its content after what the cap leaves of the old one's.
Insert(d, n, s, update) ==
    LET same == {r \in d.listed : d.art[r.id].service = s}
        old  == First(same)
        gone == Unlisted(d, old.id, old.priority)
        dead == SetStatus(gone, old.id, "discarded")
    IN  IF s = NoService \/ same = {}
        THEN File(d, n, s, NoDay, update)
        ELSE <<gone, dead>> \o
             File(dead, n, s, old.pin, Capped(d.art[old.id].content) \o update)

-----------------------------------------------------------------------------
(* The tasks' steps.                                                       *)

Goto(t, next, task) ==
    /\ pc' = [pc EXCEPT ![t] = next]
    /\ job' = [job EXCEPT ![t] = IF next = "idle" THEN NoJob ELSE task]

Dies(t) ==
    /\ failures < MaxFailures
    /\ failures' = failures + 1
    /\ Goto(t, "idle", NoJob)

\* t makes the statements that leave steps, or some of them.
Makes(t, steps, next, task) ==
    \/ db' = Last(steps) /\ Goto(t, next, task) /\ UNCHANGED failures
    \/ db' \in {db} \cup Range(steps) /\ Dies(t)

\* t goes on with what it has read, or what it has read since.
Reads(t, next, task) ==
    /\ Goto(t, next, task)
    /\ UNCHANGED <<db, failures>>

StaleIf(what) == stale' = (stale \/ what)

Begins(t, next, task) ==
    /\ pc[t] = "idle"
    /\ Reads(t, next, task)
    /\ UNCHANGED <<today, covered, told, dropped, stale>>

-----------------------------------------------------------------------------
(* A crawl brings an update.                                               *)

Crawl(t) ==
    /\ pc[t] = "idle"
    /\ \E n \in Id, s \in Service \cup {NoService} :
          IsNext(n) /\ Makes(t, Insert(db, n, s, <<n>>), "idle", NoJob)
    /\ UNCHANGED <<today, covered, told, dropped, stale>>

-----------------------------------------------------------------------------
(* The day's selection.                                                    *)

HumanPick(d, day) == Best({r \in d.listed : r.pin = day}, 1)

\* What the human pick leaves to the platform.
Free(d, human) ==
    {r \in d.listed : \A h \in human :
        /\ r.id # h.id
        /\ d.art[r.id].service = d.art[h.id].service => d.art[r.id].service = NoService}

\* Variant: every row.
EligibleRows(d, human) == Free(d, human)

\* The candidates of _rank_platform_picks: one row of a service.
Eligible(d, human) ==
    {r \in Free(d, human) : \A o \in Free(d, human) :
        d.art[o.id].service = d.art[r.id].service /\ Ahead(o, r)
            => d.art[r.id].service = NoService}

IsNew(d, i) == d.art[i].service \notin (covered \cup {NoService})
Floor(n, isNew) == (n * (IF isNew THEN NewShare ELSE 100 - NewShare)) \div 100

\* Variant: no floors.
TopPicks(d, human, n) == Best(Eligible(d, human), n)

\* _rank_platform_picks: each pool has its floor, and what is left goes to the
\* best of the rest.
PlatformPicks(d, human, n) ==
    LET eligible == Eligible(d, human)
        pool(isNew) == {r \in eligible : IsNew(d, r.id) = isNew}
        floors == {r.id : r \in UNION {Best(pool(b), Floor(n, b)) : b \in BOOLEAN}}
        leftover == {r \in eligible : r.id \notin floors}
        chosen == floors \cup {r.id : r \in Best(leftover, n - Cardinality(floors))}
    IN  Best({r \in eligible : r.id \in chosen}, n)

\* Variant: the slots are counted from one.
PlanFromOne(d, day) ==
    LET human == HumanPick(d, day)
        picks == PlatformPicks(d, human, SlotsPerDay - Cardinality(human))
        slot(r) == 1 + Cardinality(human) + Cardinality({o \in picks : Ahead(o, r)})
    IN  {[slot |-> 1, id |-> r.id, lane |-> "human"] : r \in human}
            \cup {[slot |-> slot(r), id |-> r.id, lane |-> "platform"] : r \in picks}

\* The human pick, if the day has one, and the platform's for the other slots.
Plan(d, day) ==
    LET human == HumanPick(d, day)
        picks == PlatformPicks(d, human, SlotsPerDay - Cardinality(human))
        slot(r) == Cardinality(human) + Cardinality({o \in picks : Ahead(o, r)})
    IN  {[slot |-> 0, id |-> r.id, lane |-> "human"] : r \in human}
            \cup {[slot |-> slot(r), id |-> r.id, lane |-> "platform"] : r \in picks}

\* select_to_compose_for_today_task; it does nothing on a day that has a slate.
StartSelect(t) ==
    /\ SlateOf(db, today) = {}
    /\ Begins(t, "clear", [NoJob EXCEPT !.day = today])

\* Slot by slot.
FirstRow(rows) == CHOOSE r \in rows : \A o \in rows : r.slot <= o.slot

\* What a selection goes on to.
Slate(t, d) == [job[t] EXCEPT !.plan = {}, !.seen = {}, !.rows = SlateOf(d, job[t].day)]
Then(t, d) == IF job[t].then = "drain" /\ SlateOf(d, job[t].day) # {} THEN "drain" ELSE "idle"

\* The day's slate is not as t last read or wrote it.
SlateMoved(t) == SlateOf(db, job[t].day) # job[t].seen

Clear(t) ==
    LET day == job[t].day
        cleared == Cleared(db, SlateOf(db, day))
        plan == Plan(db, day)
    IN  /\ pc[t] = "clear"
        /\ Makes(t, <<cleared>>, IF plan = {} THEN "idle" ELSE "place",
                 [job[t] EXCEPT !.plan = plan, !.seen = {}])
        /\ StaleIf(SlateMoved(t))
        /\ UNCHANGED <<today, covered, told, dropped>>

\* Variant: the artifact is marked before its row is there.
MarkThenInsert(d, p, day) ==
    LET marked == Last(Mark(d, p.id, "selected"))
        purged == Cleared(marked, RowsOf(d, p.id))
    IN  Mark(d, p.id, "selected") \o
        <<purged, [purged EXCEPT !.slate =
            {r \in @ : ~(r.day = day /\ r.slot = p.slot)}
                \cup {[day |-> day, slot |-> p.slot, id |-> p.id, lane |-> p.lane]}]>>

\* _insert_slot.
InsertSlot(d, p, day) ==
    LET purged == Cleared(d, RowsOf(d, p.id))
        placed == [purged EXCEPT !.slate =
            {r \in @ : ~(r.day = day /\ r.slot = p.slot)}
                \cup {[day |-> day, slot |-> p.slot, id |-> p.id, lane |-> p.lane]}]
    IN  <<purged, placed>> \o Mark(placed, p.id, "selected")

\* What p was chosen for holds no more: its artifact went elsewhere, or its pin
\* to another day.
PickMoved(p, day) ==
    db.art[p.id].status # "pending" \/ (p.lane = "human" /\ db.art[p.id].pin # day)

Place(t) ==
    LET p == FirstRow(job[t].plan)
        day == job[t].day
        rest == job[t].plan \ {p}
        steps == InsertSlot(db, p, day)
        seen == SlateOf(Last(steps), day)
    IN  /\ pc[t] = "place"
        /\ IF rest # {}
           THEN Makes(t, steps, "place", [job[t] EXCEPT !.plan = rest, !.seen = seen])
           ELSE Makes(t, steps, Then(t, Last(steps)), Slate(t, Last(steps)))
        /\ StaleIf(SlateMoved(t) \/ PickMoved(p, day))
        /\ UNCHANGED <<today, covered, told, dropped>>

-----------------------------------------------------------------------------
(* The admin: reset_and_reselect_for_day, and pin_for_tomorrow.            *)

\* Bound: the admin redoes today or tomorrow.
StartRedo(t) ==
    \E day \in {today, today + 1} \cap 0..LastDay :
        Begins(t, "reset", [NoJob EXCEPT !.day = day, !.rows = SlateOf(db, day),
                                !.seen = SlateOf(db, day)])

ResetRow(t) ==
    LET r == FirstRow(job[t].rows)
        rest == [job[t] EXCEPT !.rows = @ \ {r}]
    IN  /\ pc[t] = "reset" /\ job[t].rows # {}
        /\ IF db.art[r.id].status = "selected"
           THEN Makes(t, Revert(db, r.id), "reset", rest)
           ELSE Reads(t, "reset", rest)
        /\ StaleIf(db.art[r.id].status = "selected" /\ r \notin db.slate)
        /\ UNCHANGED <<today, covered, told, dropped>>

ResetDay(t) ==
    /\ pc[t] = "reset" /\ job[t].rows = {}
    /\ Makes(t, <<Cleared(db, SlateOf(db, job[t].day))>>, "clear", [job[t] EXCEPT !.seen = {}])
    /\ StaleIf(SlateMoved(t) \/ \E r \in job[t].seen : db.art[r.id].status = "selected")
    /\ UNCHANGED <<today, covered, told, dropped>>

PinForTomorrow(t) ==
    /\ pc[t] = "idle" /\ today < LastDay
    /\ \E i \in Id :
          /\ db.art[i].status = "pending"
          /\ db.art[i].pin # today + 1
          /\ Makes(t, PinFor(db, i, today + 1), "idle", NoJob)
    /\ UNCHANGED <<today, covered, told, dropped, stale>>

-----------------------------------------------------------------------------
(* drain_to_compose, and compose_artifact_now.                             *)

Draining(t) == pc[t] # "idle" /\ job[t].then = "drain"

\* One drain at a time; it selects first if the day has no slate.
StartDrain(t) ==
    /\ \A u \in Task : ~Draining(u)
    /\ LET slate == SlateOf(db, today)
           task == [NoJob EXCEPT !.day = today, !.then = "drain", !.rows = slate]
       IN  Begins(t, IF slate = {} THEN "clear" ELSE "drain", task)

\* get_artifact of the next slot's artifact.
DrainNext(t) ==
    LET r == FirstRow(job[t].rows)
        rest == job[t].rows \ {r}
        task == [job[t] EXCEPT !.rows = rest]
    IN  /\ pc[t] = "drain"
        /\ Reads(t, IF db.art[r.id].status = "selected" THEN "weigh"
                    ELSE IF rest = {} THEN "idle" ELSE "drain",
                    [task EXCEPT !.id = IF db.art[r.id].status = "selected" THEN r.id ELSE 0])
        /\ UNCHANGED <<today, covered, told, dropped, stale>>

\* The budget is spent, or the day's rate limit reached.
DrainEnds(t) ==
    /\ pc[t] = "drain"
    /\ Reads(t, "idle", NoJob)
    /\ UNCHANGED <<today, covered, told, dropped, stale>>

ComposeNow(t) ==
    \E i \in Id : Live(i) /\ Begins(t, "weigh", [NoJob EXCEPT !.id = i])

Onward(t) == IF job[t].rows = {} THEN "idle" ELSE "drain"
Rest(t) == [job[t] EXCEPT !.id = 0]

Drops(t) ==
    /\ Makes(t, Mark(db, job[t].id, "discarded"), Onward(t), Rest(t))
    /\ StaleIf(~Live(job[t].id))
    /\ dropped' = dropped \cup Says(db.art[job[t].id].content)
    /\ UNCHANGED <<today, covered, told>>

\* A gate with a mark_status.
GateDrops(t) == pc[t] = "weigh" /\ job[t].then = "drain" /\ Drops(t)

\* A gate without one, a full queue, a lock held, or a compose that failed.
Leaves(t) ==
    /\ pc[t] \in {"weigh", "compose"}
    /\ Reads(t, Onward(t), Rest(t))
    /\ UNCHANGED <<today, covered, told, dropped, stale>>

\* Variant: no lock.
ComposeUnlocked(t) ==
    /\ pc[t] = "weigh"
    /\ Reads(t, "compose", job[t])
    /\ StaleIf(~Live(job[t].id))
    /\ UNCHANGED <<today, covered, told, dropped>>

\* publish_from_queued_row, under the lock of this artifact.
Compose(t) ==
    /\ pc[t] = "weigh"
    /\ \A u \in Task : pc[u] = "compose" => job[u].id # job[t].id
    /\ Reads(t, "compose", job[t])
    /\ StaleIf(~Live(job[t].id))
    /\ UNCHANGED <<today, covered, told, dropped>>

\* _resolve_artifact, of a terminal outcome: the article is out before the
\* artifact is marked.
Resolve(t) ==
    LET a == db.art[job[t].id] IN
    /\ pc[t] = "compose"
    /\ Makes(t, Mark(db, job[t].id, "composed"), Onward(t), Rest(t))
    /\ told' = [u \in Id |-> IF u \in Says(a.content) /\ told[u] < 2 THEN told[u] + 1 ELSE told[u]]
    /\ covered' \in {covered, (covered \cup {a.service}) \ {NoService}}
    /\ StaleIf(a.status = "discarded")
    /\ UNCHANGED <<today, dropped>>

\* _resolve_artifact, of an outcome with a queue_status.
ComposeDrops(t) == pc[t] = "compose" /\ Drops(t)

-----------------------------------------------------------------------------
(* reclaim_stale_selected_artifacts.                                       *)

LeftOver == {r \in db.slate : r.day < today /\ db.art[r.id].status = "selected"}

StartReclaim(t) ==
    /\ LeftOver # {}
    /\ Begins(t, "reclaim", [NoJob EXCEPT !.day = today, !.rows = LeftOver,
                             !.claimed = {r.pin : r \in db.listed} \ {NoDay}])

\* _next_open_day_for_pin.
OpenDays(t) == {d \in Day : d >= job[t].day /\ d \notin job[t].claimed
                            /\ SlateOf(db, d) = {}}
NextOpenDay(t) == CHOOSE d \in OpenDays(t) : \A e \in OpenDays(t) : d <= e

\* _PLATFORM_RECLAIM_PRIORITY_BOOST above the highest.
Boosted(i) ==
    LET priorities == {e.priority : e \in db.listed} \cup {db.art[i].priority}
    IN  1 + CHOOSE p \in priorities : \A q \in priorities : q <= p

\* A human pick is pinned again; a platform pick goes to the top of the pool.
\* An artifact has one row (SlateSound), so has_current_reference is false.
CarryForward(t, r) ==
    LET reverted == Revert(db, r.id)
        d == Last(reverted)
        moved == IF r.lane = "human" THEN PinFor(d, r.id, NextOpenDay(t))
                 ELSE Reprioritise(d, r.id, Boosted(r.id))
    IN  reverted \o moved \o <<Cleared(Last(moved), {r})>>

ReclaimRow(t) ==
    \E r \in job[t].rows :
        LET rest == job[t].rows \ {r}
            next == IF rest = {} THEN "idle" ELSE "reclaim"
            claimed == IF r.lane = "human" THEN job[t].claimed \cup {NextOpenDay(t)}
                       ELSE job[t].claimed
        IN  /\ pc[t] = "reclaim"
            /\ OpenDays(t) # {} /\ Boosted(r.id) \in Priority
            /\ IF db.art[r.id].status = "selected"
               THEN Makes(t, CarryForward(t, r), next,
                          [job[t] EXCEPT !.rows = rest, !.claimed = claimed])
               ELSE Reads(t, next, [job[t] EXCEPT !.rows = rest, !.claimed = claimed])
            /\ StaleIf(db.art[r.id].status = "selected" /\
                       \/ r \notin db.slate
                       \/ r.lane = "human" /\ \E e \in db.listed : e.pin = NextOpenDay(t))
            /\ UNCHANGED <<today, covered, told, dropped>>

-----------------------------------------------------------------------------
(* The sweeps.                                                             *)

\* One step of sweep_artifact_priorities.
Sweep(t) ==
    /\ pc[t] = "idle"
    /\ \E i \in Id, p \in 0..MaxPriority :
          /\ Live(i) /\ p # db.art[i].priority
          /\ Makes(t, Reprioritise(db, i, p), "idle", NoJob)
    /\ UNCHANGED <<today, covered, told, dropped, stale>>

\* discard_dead_pending_artifacts: the source is fetched, then the mark made.
Probe(t) ==
    \E r \in db.listed :
        /\ db.art[r.id].service # NoService
        /\ Begins(t, "dead", [NoJob EXCEPT !.id = r.id])

DiscardDead(t) ==
    /\ pc[t] = "dead"
    /\ Makes(t, Mark(db, job[t].id, "discarded"), "idle", NoJob)
    /\ StaleIf(db.art[job[t].id].status # "pending")
    /\ dropped' = dropped \cup Says(db.art[job[t].id].content)
    /\ UNCHANGED <<today, covered, told>>

Oldest(ids) == CHOOSE i \in ids : \A j \in ids : i <= j

\* reconcile_duplicate_pending_artifacts, for one service: the oldest stays.
StartMerge(t) ==
    \E s \in Service :
        LET ids == {r.id : r \in {r \in db.listed : db.art[r.id].service = s}}
        IN  /\ Cardinality(ids) > 1
            /\ Begins(t, "merge", [NoJob EXCEPT !.service = s, !.ids = ids \ {Oldest(ids)}])

\* Variant: the duplicate goes, and what it says with it.
MergeAway(t) ==
    LET i == Oldest(job[t].ids)
        rest == job[t].ids \ {i}
    IN  /\ pc[t] = "merge"
        /\ Makes(t, Mark(db, i, "discarded"), IF rest = {} THEN "idle" ELSE "merge",
                 [job[t] EXCEPT !.ids = rest])
        /\ StaleIf(db.art[i].status # "pending")
        /\ UNCHANGED <<today, covered, told, dropped>>

MergeOne(t) ==
    LET i == Oldest(job[t].ids)
        rest == job[t].ids \ {i}
        marked == Mark(db, i, "discarded")
    IN  /\ pc[t] = "merge"
        /\ \E n \in Id :
              /\ IsNext(n)
              /\ Makes(t, marked \o Insert(Last(marked), n, job[t].service, db.art[i].content),
                       IF rest = {} THEN "idle" ELSE "merge", [job[t] EXCEPT !.ids = rest])
        /\ StaleIf(db.art[i].status # "pending")
        /\ UNCHANGED <<today, covered, told, dropped>>

-----------------------------------------------------------------------------
Tick ==
    /\ today < LastDay
    /\ today' = today + 1
    /\ UNCHANGED <<db, pc, job, covered, told, dropped, failures, stale>>

Step(t) ==
    \/ Crawl(t)
    \/ StartSelect(t) \/ Clear(t) \/ Place(t)
    \/ StartRedo(t) \/ ResetRow(t) \/ ResetDay(t) \/ PinForTomorrow(t)
    \/ StartDrain(t) \/ DrainNext(t) \/ DrainEnds(t) \/ ComposeNow(t)
    \/ GateDrops(t) \/ Leaves(t) \/ Compose(t) \/ Resolve(t) \/ ComposeDrops(t)
    \/ StartReclaim(t) \/ ReclaimRow(t)
    \/ Sweep(t) \/ Probe(t) \/ DiscardDead(t) \/ StartMerge(t) \/ MergeOne(t)

Next == Tick \/ \E t \in Task : Step(t)

Spec == Init /\ [][Next]_vars

-----------------------------------------------------------------------------
(* Properties.                                                             *)

Healthy == failures = 0

\* A selected artifact is on a slate, where the drain or the reclaim will find
\* it: no selection, redo or reclaim strands one, even if one call fails or a
\* task dies in the middle of it.
NoneStranded ==
    ~stale => \A i \in Id : db.art[i].status = "selected" => RowsOf(db, i) # {}

\* A day's slate is one the room could have chosen: an artifact has one row in
\* all the days, a day one human pick, and a service one slot of a day.
SlateSound ==
    ~stale =>
        \A r \in db.slate : \A o \in db.slate \ {r} :
            /\ r.id # o.id
            /\ r.day = o.day =>
                  /\ r.slot # o.slot
                  /\ ~(r.lane = "human" /\ o.lane = "human")
                  /\ db.art[r.id].service = db.art[o.id].service
                        => db.art[r.id].service = NoService

\* Statuses and slates agree, whatever a task dies in.
SlatesAgree == NoneStranded /\ SlateSound

\* The index and the rows agree: while every call works and no task has written
\* on what another had changed, what is listed is what is pending, under the
\* priority and with the pin that its row has.
IndexFollows ==
    Healthy /\ ~stale =>
        db.listed = {[id |-> i, priority |-> db.art[i].priority, pin |-> db.art[i].pin] :
                        i \in {i \in Id : db.art[i].status = "pending"}}

\* What the cap takes of a text that is superseded: all but its last MaxOld.
BeyondCap(content) == {content[k] : k \in 1..(Len(content) - MaxOld)}

\* No update is lost but to a gate, a dead source or the cap: while every call
\* works, each one that a crawl has stored is in an artifact that waits, is
\* selected or has been composed, however often it was superseded, merged or
\* reclaimed.  The cap only takes what MaxOld others follow in a text that was
\* superseded: it trims from the front (_cap_old_content).
UpdatesKept ==
    Healthy /\ ~stale =>
        \A u \in Id :
            LET holders == {i \in Id : u \in Says(db.art[i].content)}
            IN  \/ u \in dropped \/ holders = {}
                \/ \E i \in holders : db.art[i].status \notin {"absent", "discarded"}
                \/ \E i \in holders : /\ db.art[i].status = "discarded"
                                      /\ u \in BeyondCap(db.art[i].content)

\* No update is told twice: while every call works, no redo, reclaim or second
\* drain makes an article of what an article has been made of.
ToldOnce ==
    Healthy /\ ~stale =>
        \A u \in Id : told[u] <= 1

PinnedFor(a, day) == a.status \in {"pending", "selected", "composed"} /\ a.pin = day

\* A pin stays with what it was granted for: while every call works, an update
\* pinned for a day to come is still pinned for it after any step that leaves
\* it waiting or selected, a supersession of its artifact included, unless the
\* cap took it, the day went to another pin, the admin pinned the artifact for
\* tomorrow, or it was the newer of two that were merged.
PinsKept ==
    [][failures' = 0 /\ ~stale' =>
         \A i \in Id :
            LET a == db.art[i] IN
            Live(i) /\ a.pin >= today' =>
               \/ \E j \in Id : /\ PinnedFor(db'.art[j], a.pin)
                                /\ Says(Capped(a.content)) \subseteq Says(db'.art[j].content)
               \/ Says(a.content) \subseteq dropped'
               \/ \E j \in Id : db'.art[j].pin = a.pin /\ db.art[j].pin # a.pin
               \/ db'.art[i].pin = today + 1
               \/ \E t \in Task : pc[t] = "merge" /\ Oldest(job[t].ids) = i]_vars

\* What is promised of a slate, stated without the steps: it is
\* as long as there are candidates for it, the day's pin has the first slot, each
\* pool has its floor, and a candidate is passed over for a lower one only if
\* the lower one is of the other pool and that pool is within its floor.
FairSlate(plan, day) ==
    LET service(i) == db.art[i].service
        human == {p.id : p \in {p \in plan : p.lane = "human"}}
        chosen == {p.id : p \in plan} \ human
        free == {r \in db.listed : \A h \in human :
                    r.id # h /\ (service(r.id) = NoService \/ service(r.id) # service(h))}
        candidates == {r \in free : \A o \in free :
                          service(o.id) = service(r.id) /\ Ahead(o, r) => service(r.id) = NoService}
        slots == SlotsPerDay - Cardinality(human)
        pool(b) == {r \in candidates : IsNew(db, r.id) = b}
        taken(b) == {r \in pool(b) : r.id \in chosen}
        atLeast(a, b, c) == a >= b \/ a >= c
    IN  /\ human = {} <=> \A r \in db.listed : r.pin # day
        /\ atLeast(Cardinality(chosen), slots, Cardinality(candidates))
        /\ Cardinality(chosen) <= slots
        /\ \A b \in BOOLEAN :
              atLeast(Cardinality(taken(b)), Floor(slots, b), Cardinality(pool(b)))
        /\ \A c \in candidates, x \in candidates :
              c.id \notin chosen /\ x.id \in chosen /\ Ahead(c, x) =>
                 LET b == IsNew(db, x.id)
                 IN  c \notin pool(b) /\ Cardinality(taken(b)) <= Floor(slots, b)

\* The selection keeps what _rank_platform_picks promises: its floors do not make
\* it pass over a better artifact, leave a slot empty, or seat a service twice.
RankingFair ==
    [][Healthy /\ ~stale =>
         \A t \in Task : pc[t] = "clear" /\ pc'[t] # "clear" /\ failures' = 0 =>
            FairSlate(job'[t].plan, job[t].day)]_vars

=============================================================================
