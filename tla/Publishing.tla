----------------------------- MODULE Publishing -----------------------------
(***************************************************************************)
(* How an article goes out: the compose lock that lets one writer loop run *)
(* at a time, the slots of the day (a counter in Redis), the articles      *)
(* table, whose rows move by a DELETE and an INSERT, the backlog of what   *)
(* was approved or composed with no slot left, and the admin who approves, *)
(* drafts, deletes and recomposes.                                         *)
(*                                                                         *)
(* A task is one run of one of those; it may die before any of its steps.  *)
(* The article that a compose writes is named after its task, and so is a  *)
(* published_at after the task that stamped it.                            *)
(***************************************************************************)
EXTENDS Integers, FiniteSets

CONSTANTS
    Task,         \* runs: composes, releases, the admin's requests, recomposes
    Existing,     \* rows of the articles table at the start, one of an article
    Service,      \* services
    NoService,    \* an article of no service (editorial)
    NoTask,       \* nobody; a published_at stamped before the start
    Cap,          \* NEWS_MAX_ARTICLES_PER_DAY
    LastDay,      \* bound: days
    MaxFailures   \* bound: failed statements and dead tasks

ASSUME TaskAssumption ==
    IsFiniteSet(Task) /\ NoTask \notin Task /\ NoService \notin Service
ASSUME CapAssumption == Cap \in Nat \ {0}
ASSUME BoundAssumption == LastDay \in Nat /\ MaxFailures \in Nat

VARIABLES
    today,     \* the day, UTC
    rows,      \* articles: its key is status, published_at (at) and id
    reviews,   \* articles with a pending review
    lock,      \* lock:compose:article, the task whose token it holds
    meta,      \* the metadata beside it: the task of its holder
    begun,     \* days whose counter has its init flag
    count,     \* news:publish_count of each day
    pc,        \* pc[t]: the next step of t
    job,       \* job[t]: what t works on and has read
    failures,  \* history: failed statements, dead tasks
    written,   \* history: composes that ended with an article
    stored,    \* history: articles that have had a row
    torn,      \* history: articles whose move ended between DELETE and INSERT
    moved,     \* history: a row was moved by two tasks at once
    broken,    \* history: a lock was deleted that was not the dead one's, or missed
    used,      \* history: articles gone live on a slot of each day
    leaked,    \* history: slots of each day that its counter has lost count of
    refused    \* history: the article of the last release, if a duplicate

vars == <<today, rows, reviews, lock, meta, begun, count, pc, job, failures,
          written, stored, torn, moved, broken, used, leaked, refused>>
table   == <<rows, reviews>>
locks   == <<lock, meta>>
slots   == <<begun, count>>
history == <<written, stored, torn, moved, broken, used, leaked, refused>>

Day    == 0..LastDay
Status == {"published", "draft", "backlog", "on_hold", "deleted"}
Id     == Task \cup {r.id : r \in Existing}
Row    == [id : Id, status : Status, at : Task \cup {NoTask}, day : Day,
           service : Service \cup {NoService}]

ASSUME ExistingAssumption ==
    /\ IsFiniteSet(Existing) /\ Existing \subseteq Row
    /\ \A r \in Existing : r.id \notin Task /\ r.at = NoTask /\ r.day = 0
    /\ \A r \in Existing, o \in Existing : r.id = o.id => r = o

Running == {"acquire", "judge", "break", "unmark", "reacquire", "mark", "write",
            "unlock", "forget", "file", "assert", "count", "set", "check",
            "reserve", "incr", "undo", "stash", "insert", "decide", "load",
            "read", "delete", "move", "giveback", "decr"}
PC == Running \cup {"idle", "done", "dead"}

Nothing == [kind |-> "none", id |-> NoTask, service |-> NoService, day |-> 0, n |-> 0,
            judged |-> NoTask, then |-> "done", to |-> "published", old |-> {}]

TypeOK ==
    /\ today \in Day
    /\ rows \subseteq Row
    /\ reviews \subseteq Id
    /\ lock \in Task \cup {NoTask} /\ meta \in Task \cup {NoTask}
    /\ begun \subseteq Day
    /\ count \in [Day -> Int]
    /\ pc \in [Task -> PC]
    /\ job \in [Task -> [kind : {"none", "compose", "release", "approve", "admin"},
                         id : Id \cup {NoTask}, service : Service \cup {NoService},
                         day : Day, n : Nat, judged : Task \cup {NoTask}, then : {"done", "check", "incr"},
                         to : Status \cup {"same"}, old : SUBSET Row]]
    /\ failures \in 0..MaxFailures
    /\ written \subseteq Task /\ stored \subseteq Id /\ torn \subseteq Id
    /\ moved \in BOOLEAN /\ broken \in BOOLEAN
    /\ used \in [Day -> Nat] /\ leaked \in [Day -> Nat]
    /\ refused \in Id \cup {NoTask}

Init ==
    /\ today = 0
    /\ rows = Existing
    /\ reviews = {r.id : r \in {r \in Existing : r.status = "on_hold"}}
    /\ lock = NoTask /\ meta = NoTask
    /\ begun = {}
    /\ count = [d \in Day |-> 0]
    /\ pc = [t \in Task |-> "idle"]
    /\ job = [t \in Task |-> Nothing]
    /\ failures = 0
    /\ written = {}
    /\ stored = {r.id : r \in Existing}
    /\ torn = {} /\ moved = FALSE /\ broken = FALSE
    /\ used = [d \in Day |-> 0] /\ leaked = [d \in Day |-> 0]
    /\ refused = NoTask

-----------------------------------------------------------------------------
Goto(t, step) == pc' = [pc EXCEPT ![t] = step]
At(t, step, task) ==
    /\ Goto(t, step)
    /\ job' = [job EXCEPT ![t] = IF step = "done" THEN Nothing ELSE task]

Starts(t, step, task) ==
    /\ pc[t] = "idle"
    /\ At(t, step, task)
    /\ UNCHANGED <<today, locks, slots, failures>>

Alive(t) == pc[t] \in Running

\* A statement or a call of t fails.
Fails == failures < MaxFailures /\ failures' = failures + 1

-----------------------------------------------------------------------------
(* compose_lock.                                                           *)

StartCompose(t) ==
    /\ \E s \in Service \cup {NoService} :
          Starts(t, "acquire", [Nothing EXCEPT !.kind = "compose", !.id = t, !.service = s])
    /\ UNCHANGED <<table, history>>

Held(t) == lock' = t /\ Goto(t, "mark")

\* acquire: with Redis out of reach the work goes on without a lock.
Acquire(t) ==
    /\ pc[t] = "acquire"
    /\ \/ /\ IF lock = NoTask THEN Held(t) ELSE Goto(t, "judge") /\ UNCHANGED lock
          /\ UNCHANGED <<failures, broken>>
       \/ /\ Fails /\ broken' = TRUE
          /\ Goto(t, "mark") /\ UNCHANGED lock
    /\ UNCHANGED <<today, table, meta, slots, job,
                   written, stored, torn, moved, used, leaked, refused>>

\* _try_reclaim: the holder is dead if its metadata say who it is, it is old
\* enough, and Celery knows of no such task.
Judge(t) ==
    /\ pc[t] = "judge"
    /\ \/ /\ lock # NoTask /\ meta # NoTask /\ ~Alive(meta)
          /\ At(t, "break", [job[t] EXCEPT !.judged = meta])
       \/ At(t, "done", Nothing)
    /\ UNCHANGED <<today, table, locks, slots, failures, history>>

\* The lock is deleted, whoever holds it by now, and then the metadata.
Break(t) ==
    /\ pc[t] = "break"
    /\ lock' = NoTask
    /\ broken' = (broken \/ lock \notin {NoTask, job[t].judged})
    /\ At(t, "unmark", [job[t] EXCEPT !.judged = NoTask])
    /\ UNCHANGED <<today, table, meta, slots, failures,
                   written, stored, torn, moved, used, leaked, refused>>

Unmark(t) ==
    /\ pc[t] = "unmark"
    /\ meta' = NoTask
    /\ Goto(t, "reacquire")
    /\ UNCHANGED <<today, table, lock, slots, job, failures, history>>

\* Variant: the lock it has reclaimed is its own.
ReacquireAnyway(t) ==
    /\ pc[t] = "reacquire"
    /\ Held(t)
    /\ UNCHANGED <<today, table, meta, slots, job, failures, history>>

Reacquire(t) ==
    /\ pc[t] = "reacquire"
    /\ IF lock = NoTask THEN Held(t) /\ UNCHANGED job
       ELSE At(t, "done", Nothing) /\ UNCHANGED lock
    /\ UNCHANGED <<today, table, meta, slots, failures, history>>

Mark(t) ==
    /\ pc[t] = "mark"
    /\ meta' = t
    /\ Goto(t, "write")
    /\ UNCHANGED <<today, table, lock, slots, job, failures, history>>

\* The writer loop has an article, or an error.
Write(t) ==
    /\ pc[t] = "write"
    /\ Goto(t, "unlock")
    /\ written' \in {written, written \cup {t}}
    /\ UNCHANGED <<today, table, locks, slots, job, failures,
                   stored, torn, moved, broken, used, leaked, refused>>

\* release: only with its own token.
Unlock(t) ==
    /\ pc[t] = "unlock"
    /\ lock' = IF lock = t THEN NoTask ELSE lock
    /\ Goto(t, "forget")
    /\ UNCHANGED <<today, table, meta, slots, job, failures, history>>

Forget(t) ==
    /\ pc[t] = "forget"
    /\ meta' = NoTask
    /\ IF t \in written THEN Goto(t, "file") /\ UNCHANGED job ELSE At(t, "done", Nothing)
    /\ UNCHANGED <<today, table, lock, slots, failures, history>>

\* The lock outlives any compose: it expires under a dead holder only.
Expire ==
    /\ lock # NoTask /\ ~Alive(lock)
    /\ lock' = NoTask
    /\ meta' \in {meta, NoTask}
    /\ UNCHANGED <<today, table, slots, pc, job, failures, history>>

-----------------------------------------------------------------------------
(* The articles table.                                                     *)

Of(id)        == {r \in rows : r.id = id}
SameKey(a, b) == a.id = b.id /\ a.status = b.status /\ a.at = b.at
Put(row)      == {r \in rows : ~SameKey(r, row)} \cup {row}
Published(d)  == Cardinality({r \in rows : r.status = "published" /\ r.day = d})

\* published_rows_for_service, of another article.
Duplicate(id, s) ==
    s # NoService /\ \E r \in rows : r.status = "published" /\ r.service = s /\ r.id # id

\* insert_stored_article, of a new article.
Store(t, status) ==
    LET row == [id |-> t, status |-> status, at |-> t, day |-> today, service |-> job[t].service]
    IN  rows' = Put(row) /\ stored' = stored \cup {t}

\* A finished compose: held for a review, approved with the cap closed, or out.
File(t) ==
    /\ pc[t] = "file"
    /\ \/ /\ Store(t, "on_hold") /\ reviews' = reviews \cup {t}
          /\ At(t, "done", Nothing)
       \/ /\ Store(t, "backlog") /\ UNCHANGED reviews
          /\ At(t, "done", Nothing)
       \/ /\ Goto(t, "assert")
          /\ UNCHANGED <<table, job, stored>>
    /\ UNCHANGED <<today, locks, slots, failures, written, torn, moved, broken, used, leaked, refused>>

\* Variant: the draft is thrown away.
StashNothing(t) ==
    /\ pc[t] = "stash"
    /\ At(t, "done", Nothing)
    /\ UNCHANGED <<today, table, locks, slots, failures, history>>

\* _stash_capped_compose_to_backlog.
Stash(t) ==
    /\ pc[t] = "stash"
    /\ Store(t, "backlog")
    /\ At(t, "done", Nothing)
    /\ UNCHANGED <<today, reviews, locks, slots, failures,
                   written, torn, moved, broken, used, leaked, refused>>

-----------------------------------------------------------------------------
(* publish_daily_guard.  then is where a task goes on once it knows that    *)
(* the day's counter has been begun.                                       *)

Begin(t, then) ==
    /\ job' = [job EXCEPT ![t].day = today, ![t].then = then]
    /\ IF today \in begun THEN Goto(t, then) /\ UNCHANGED begun
       ELSE Goto(t, "count") /\ begun' = begun \cup {today}
    /\ UNCHANGED <<today, table, locks, count, failures, history>>

AssertAllowed(t)  == pc[t] = "assert" /\ Begin(t, "check")
Reserve(t) == pc[t] = "reserve" /\ Begin(t, "incr")

\* count_articles_published_on_utc_day.
Count(t) ==
    /\ pc[t] = "count"
    /\ job' = [job EXCEPT ![t].n = Published(job[t].day)]
    /\ Goto(t, "set")
    /\ UNCHANGED <<today, table, locks, slots, failures, history>>

\* The SET: what others have added meanwhile is overwritten.
Set(t) ==
    LET d == job[t].day IN
    /\ pc[t] = "set"
    /\ count' = [count EXCEPT ![d] = job[t].n]
    /\ leaked' = [leaked EXCEPT ![d] = @ + (IF count[d] > 0 THEN count[d] ELSE 0)]
    /\ Goto(t, job[t].then)
    /\ UNCHANGED <<today, table, locks, begun, job, failures,
                   written, stored, torn, moved, broken, used, refused>>

\* list_backlog_articles, of which a release takes the first: all have the same
\* interest, and the order is that of approval.
Backlog == {r \in rows : r.status = "backlog"}
Waited(r) == \E o \in Existing : o.id = r.id /\ o.status = "backlog"
First(r) == \A o \in Backlog : Waited(o) => Waited(r) /\ r.id <= o.id

\* assert_publish_allowed, or the drain's remaining_standard_publish_slots.
Check(t) ==
    LET free == count[job[t].day] < Cap
        task(id) == [job[t] EXCEPT !.id = id, !.then = "done", !.n = 0]
    IN  /\ pc[t] = "check"
        /\ \/ /\ job[t].kind = "compose"
              /\ At(t, IF free THEN "reserve" ELSE "stash", task(t))
           \/ /\ job[t].kind # "compose" /\ free
              /\ \E r \in Backlog : First(r) /\ At(t, "reserve", task(r.id))
           \/ /\ job[t].kind # "compose" /\ (~free \/ Backlog = {})
              /\ At(t, "done", Nothing)
        /\ UNCHANGED <<today, table, locks, slots, failures, history>>

\* Variant: the slot is taken if the counter, read before, allows it.
IncrAnyway(t) ==
    LET d == job[t].day IN
    /\ pc[t] = "incr"
    /\ count' = [count EXCEPT ![d] = @ + 1]
    /\ Goto(t, IF count[d] > Cap THEN "undo" ELSE IF job[t].kind = "compose" THEN "insert" ELSE "load")
    /\ UNCHANGED <<today, table, locks, begun, job, failures, history>>

\* reserve_publish_slot.
Incr(t) ==
    LET d == job[t].day IN
    /\ pc[t] = "incr"
    /\ count' = [count EXCEPT ![d] = @ + 1]
    /\ Goto(t, IF count[d] + 1 > Cap THEN "undo"
               ELSE IF job[t].kind = "compose" THEN "insert" ELSE "load")
    /\ UNCHANGED <<today, table, locks, begun, job, failures, history>>

Undo(t) ==
    /\ pc[t] = "undo"
    /\ count' = [count EXCEPT ![job[t].day] = @ - 1]
    /\ IF job[t].kind = "compose" THEN Goto(t, "stash") /\ UNCHANGED job
       ELSE At(t, "done", Nothing)
    /\ UNCHANGED <<today, table, locks, begun, failures, history>>

\* release_publish_slot: on the counter of the day that it is by now.
GiveBack(t) ==
    /\ pc[t] = "giveback"
    /\ IF count[today] > 0
       THEN Goto(t, "decr") /\ job' = [job EXCEPT ![t].n = today]
       ELSE At(t, "done", Nothing)
    /\ UNCHANGED <<today, table, locks, slots, failures, history>>

Decr(t) ==
    LET d == job[t].n IN
    /\ pc[t] = "decr"
    /\ count' = [count EXCEPT ![d] = @ - 1]
    /\ leaked' = [leaked EXCEPT ![d] = @ + (IF d = job[t].day THEN 0 ELSE 1)]
    /\ At(t, "done", Nothing)
    /\ UNCHANGED <<today, table, locks, begun, failures,
                   written, stored, torn, moved, broken, used, refused>>

\* _finalize_publish.  If the INSERT fails the slot goes back, even when the
\* row is there and only the answer was lost.
Insert(t) ==
    LET d == job[t].day IN
    /\ pc[t] = "insert"
    /\ \/ /\ Store(t, "published")
          /\ used' = [used EXCEPT ![d] = @ + 1]
          /\ At(t, "done", Nothing)
          /\ UNCHANGED <<failures, leaked>>
       \/ /\ Fails
          /\ Goto(t, "giveback")
          /\ \/ /\ Store(t, "published")
                /\ used' = [used EXCEPT ![d] = @ + 1]
                /\ leaked' = [leaked EXCEPT ![d] = @ + 1]
             \/ UNCHANGED <<rows, stored, used, leaked>>
          /\ UNCHANGED job
    /\ UNCHANGED <<today, reviews, locks, slots, written, torn, moved, broken, refused>>

-----------------------------------------------------------------------------
(* transition_article_status: the row is read, deleted under the key it was *)
(* read with, and inserted under its new one.                              *)

Moves(t, to) == [job[t] EXCEPT !.to = to]

Read(t) ==
    /\ pc[t] = "read"
    /\ IF Of(job[t].id) = {} THEN At(t, "done", Nothing)
       ELSE \E r \in Of(job[t].id) : At(t, "delete", [job[t] EXCEPT !.old = {r}])
    /\ UNCHANGED <<today, table, locks, slots, failures, history>>

Old(t) == CHOOSE r \in job[t].old : TRUE

\* What follows when a release could not move its row.
Fallen(t) ==
    /\ Fails
    /\ IF job[t].kind = "release" THEN Goto(t, "giveback") /\ UNCHANGED job
       ELSE At(t, "done", Nothing)

\* Variant: the row is deleted under the status that it will have.
DeleteNew(t) ==
    /\ pc[t] = "delete"
    /\ \/ /\ rows' = {r \in rows : ~SameKey(r, [Old(t) EXCEPT !.status = job[t].to])}
          /\ moved' = (moved \/ Old(t) \notin rows)
          /\ Goto(t, "move")
          /\ UNCHANGED <<job, failures>>
       \/ Fallen(t) /\ UNCHANGED <<rows, moved>>
    /\ UNCHANGED <<today, reviews, locks, slots, written, stored, torn, broken, used, leaked, refused>>

Delete(t) ==
    /\ pc[t] = "delete"
    /\ \/ /\ rows' = rows \ {Old(t)}
          /\ moved' = (moved \/ Old(t) \notin rows)
          /\ Goto(t, "move")
          /\ UNCHANGED <<job, failures>>
       \/ Fallen(t) /\ UNCHANGED <<rows, moved>>
    /\ UNCHANGED <<today, reviews, locks, slots, written, stored, torn, broken, used, leaked, refused>>

\* Draft and restore keep published_at; going out stamps it; a recompose does,
\* and keeps the day it first went out.
Target(t) ==
    LET old == Old(t)
        to  == IF job[t].to = "same" THEN old.status ELSE job[t].to
        out == to = "published" /\ job[t].kind \in {"release", "approve"}
    IN  [old EXCEPT !.status = to,
                    !.at = IF out \/ job[t].to = "same" THEN t ELSE @,
                    !.day = IF out THEN today ELSE @]

\* Variant: the old row is deleted once the new one is there.
MoveThenDelete(t) ==
    LET d == job[t].day
        release == job[t].kind = "release"
    IN  /\ pc[t] = "move"
        /\ rows' = Put(Target(t)) \ {Old(t)}
        /\ At(t, "done", Nothing)
        /\ used' = [used EXCEPT ![d] = @ + (IF release THEN 1 ELSE 0)]
        /\ UNCHANGED <<today, reviews, locks, slots, failures, written, stored, torn, moved,
                       broken, leaked, refused>>

Move(t) ==
    LET d == job[t].day
        release == job[t].kind = "release"
        spent == [used EXCEPT ![d] = @ + (IF release THEN 1 ELSE 0)]
    IN  /\ pc[t] = "move"
        /\ \/ /\ rows' = Put(Target(t))
              /\ At(t, "done", Nothing)
              /\ used' = spent
              /\ UNCHANGED <<failures, torn, leaked>>
           \/ /\ Fallen(t)
              /\ \/ /\ rows' = Put(Target(t))
                    /\ used' = spent
                    /\ leaked' = [leaked EXCEPT ![d] = @ + (IF release THEN 1 ELSE 0)]
                    /\ UNCHANGED torn
                 \/ /\ torn' = torn \cup {job[t].id}
                    /\ UNCHANGED <<rows, used, leaked>>
        /\ UNCHANGED <<today, reviews, locks, slots, written, stored, moved, broken, refused>>

-----------------------------------------------------------------------------
(* The release of the backlog, in a drain: one at a time.                  *)

StartRelease(t) ==
    /\ \A u \in Task : Alive(u) => job[u].kind # "release"
    /\ Starts(t, "assert", [Nothing EXCEPT !.kind = "release"])
    /\ UNCHANGED <<table, history>>

\* Article.load and Article.publish up to its transition.
Load(t) ==
    LET id == job[t].id
        here == Of(id)
        s == (CHOOSE r \in here : TRUE).service
        release == job[t].kind = "release"
        stops == IF release THEN Goto(t, "giveback") /\ UNCHANGED job
                 ELSE At(t, "done", Nothing)
    IN  /\ pc[t] = "load"
        /\ IF here = {} THEN stops /\ refused' = IF release THEN NoTask ELSE refused
           ELSE IF Duplicate(id, s) THEN stops /\ refused' = IF release THEN id ELSE refused
           ELSE /\ At(t, "read", Moves(t, "published"))
                /\ refused' = IF release THEN NoTask ELSE refused
        /\ UNCHANGED <<today, table, locks, slots, failures,
                       written, stored, torn, moved, broken, used, leaked>>

-----------------------------------------------------------------------------
(* The admin.                                                              *)

\* The review of a draft is closed, and then the draft goes out or waits.
StartApprove(t) ==
    \E id \in reviews :
        /\ Starts(t, "decide", [Nothing EXCEPT !.kind = "approve", !.id = id])
        /\ reviews' = reviews \ {id}
        /\ UNCHANGED <<rows, history>>

\* _publish_or_queue_article: the feed has fewer than the cap, and the interval
\* has elapsed.
Decide(t) ==
    /\ pc[t] = "decide"
    /\ \/ Published(today) < Cap /\ At(t, "load", job[t])
       \/ At(t, "read", Moves(t, "backlog"))
    /\ UNCHANGED <<today, table, locks, slots, failures, history>>

\* set_article_draft and delete_article.
StartWithdraw(t) ==
    /\ \E r \in rows, to \in {"draft", "published", "deleted"} :
          Starts(t, "read", [Nothing EXCEPT !.kind = "admin", !.id = r.id, !.to = to])
    /\ UNCHANGED <<table, history>>

\* apply_recomposed_article; on a draft it only writes the content.
StartRecompose(t) ==
    /\ \E r \in rows :
          /\ r.status # "draft"
          /\ Starts(t, "read", [Nothing EXCEPT !.kind = "admin", !.id = r.id, !.to = "same"])
    /\ UNCHANGED <<table, history>>

-----------------------------------------------------------------------------
Die(t) ==
    /\ Alive(t)
    /\ Fails
    /\ At(t, "dead", Nothing)
    /\ torn' = IF pc[t] = "move" THEN torn \cup {job[t].id} ELSE torn
    /\ UNCHANGED <<today, table, locks, slots, written, stored, moved, broken, used, leaked, refused>>

Tick ==
    /\ today < LastDay
    /\ today' = today + 1
    /\ UNCHANGED <<table, locks, slots, pc, job, failures, history>>

Step(t) ==
    \/ StartCompose(t) \/ Acquire(t) \/ Judge(t) \/ Break(t) \/ Unmark(t)
    \/ Reacquire(t) \/ Mark(t) \/ Write(t) \/ Unlock(t) \/ Forget(t)
    \/ File(t) \/ Stash(t)
    \/ AssertAllowed(t) \/ Reserve(t) \/ Count(t) \/ Set(t) \/ Check(t) \/ Incr(t) \/ Undo(t)
    \/ GiveBack(t) \/ Decr(t) \/ Insert(t)
    \/ Read(t) \/ Delete(t) \/ Move(t)
    \/ StartRelease(t) \/ Load(t)
    \/ StartApprove(t) \/ Decide(t) \/ StartWithdraw(t) \/ StartRecompose(t)
    \/ Die(t)

Next == Tick \/ Expire \/ \E t \in Task : Step(t)

Spec == Init /\ [][Next]_vars

-----------------------------------------------------------------------------
(* Properties.                                                             *)

\* A status cannot be updated in place, so every move has a moment in which the
\* article has no row.  None vanishes: an article that was ever stored has a
\* row, unless a task is in that moment with it or ended there, whoever else
\* moves it at the same time.
NoneVanishes ==
    \A id \in stored :
        \/ Of(id) # {}
        \/ \E t \in Task : pc[t] = "move" /\ job[t].id = id
        \/ id \in torn

\* An article has one row, in one status, as long as no two tasks have moved it
\* from the same row.
OneRowEach == ~moved => \A id \in Id : Cardinality(Of(id)) <= 1

\* The cap of a day holds: the articles that went out on its slots exceed it by
\* no more than the slots whose count was lost, to a counter begun late, to a
\* slot given back after midnight, or to an INSERT whose answer was lost.
WithinCap == \A d \in Day : used[d] <= Cap + leaked[d]

\* A finished compose is not thrown away for want of a slot: unless a call of
\* it failed, its task ends with the article stored.
ComposedKept ==
    failures = 0 =>
        \A t \in Task : pc[t] = "done" /\ t \in written => t \in stored

\* One writer loop runs at a time, whoever dies and whoever reclaims, unless the
\* lock that a reclaim deleted had changed hands since it judged the holder, or
\* Redis was out of reach.
OneWriter == ~broken => Cardinality({t \in Task : pc[t] \in {"mark", "write"}}) <= 1

\* What a release says of a duplicate, that the next run will pick a different
\* row, or the same one if an admin has resolved the conflict first.
NextReleaseMovesOn ==
    \A t \in Task :
        pc[t] = "reserve" /\ job[t].kind = "release" /\ job[t].id = refused =>
            \A r \in Of(refused) : ~Duplicate(refused, r.service)
=============================================================================
