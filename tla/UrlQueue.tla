------------------------------ MODULE UrlQueue ------------------------------
(***************************************************************************)
(* The crawl frontier: the rows of url_queue, the index of the pending     *)
(* ones (url_queue_pending) and of the last row of a URL                   *)
(* (url_queue_by_url), all written statement by statement; the runs that   *)
(* feed it, the drain that takes a row, fetches its page and closes it,    *)
(* and the sweep that puts back a row whose worker died, which it knows by *)
(* the marker that the drain leaves in Redis.                              *)
(*                                                                         *)
(* A run may die before any of its steps: it raises, is killed or its      *)
(* statement fails.  Redis may fail a call, which the code then does       *)
(* without.                                                                *)
(***************************************************************************)
EXTENDS Integers, Sequences, FiniteSets

CONSTANTS
    Url,          \* URLs, normalised
    Feeder,       \* runs that enqueue a URL
    Drainer,      \* workers that run drain_url_queue, numbered
    Sweeper,      \* runs of reclaim_stale_processing_urls
    Nobody,       \* no process
    Killed,       \* the token of a drain that died with the lock
    MaxRows,      \* bound: rows
    MaxDeaths,    \* bound: runs that die
    MaxFailures   \* bound: failed Redis calls and fetches that overrun

ASSUME ProcessAssumption ==
    /\ Drainer \subseteq Nat
    /\ Nobody \notin Drainer /\ Killed \notin Drainer \cup {Nobody}
    /\ Feeder \cap Drainer = {} /\ Feeder \cap Sweeper = {} /\ Drainer \cap Sweeper = {}
ASSUME BoundAssumption == MaxRows \in Nat \ {0} /\ MaxDeaths \in Nat /\ MaxFailures \in Nat

VARIABLES
    rows,      \* url_queue
    byUrl,     \* url_queue_by_url: the last row of a URL, 0 if none
    listed,    \* url_queue_pending: its key is enqueued_at (at) and the row's id
    markers,   \* crawl:url_queue:processing: who dequeued a row, and if long ago
    cooling,   \* crawl:url:*: URLs in their cooldown
    lock,      \* lock:crawler:drain_url_queue
    pc,        \* pc[p]: the next step of p
    job,       \* job[p]: what p works on and has read
    deaths,    \* history: runs that died
    failures,  \* history: failed Redis calls, overruns
    fetched,   \* history: routine fetches of each URL in its window
    slipped,   \* history: URLs whose cooldown was not stamped or not read
    unlocked,  \* history: a drain ran without the lock
    seized,    \* history: rows a sweep judged dead that someone else had
    lost       \* history: rows that nothing puts back, by one of the known gaps

vars == <<rows, byUrl, listed, markers, cooling, lock, pc, job, deaths, failures,
          fetched, slipped, unlocked, seized, lost>>
tables  == <<rows, byUrl, listed>>
redis   == <<markers, cooling, lock>>
history == <<deaths, fetched, slipped, unlocked, seized, lost>>

Process == Feeder \cup Drainer \cup Sweeper
RowId   == 1..MaxRows
\* "done" stands for every terminal status: done, failed, skipped, low_quality,
\* robots_disallowed.
Row     == [url : Url, status : {"pending", "processing", "done"}, approved : BOOLEAN, at : Nat]
Entry   == [row : RowId, at : Nat]
Marker  == [by : Drainer, stale : BOOLEAN]
NoMarker == [by |-> Nobody, stale |-> FALSE]

Feeding  == {"lookup", "insert", "index", "list"}
AtRow    == {"claim", "unlist", "mark", "gate", "stamp", "fetch", "close", "clear"}
Draining == AtRow \cup {"peek", "release"}
Sweeping == {"recheck", "reset", "relist", "unmark"}

Nothing == [row |-> 0, url |-> Nobody, approved |-> FALSE, at |-> 0, todo |-> {}]

TypeOK ==
    /\ rows \in Seq(Row) /\ Len(rows) <= MaxRows
    /\ byUrl \in [Url -> 0..Len(rows)]
    /\ listed \subseteq Entry
    /\ markers \in [RowId -> Marker \cup {NoMarker}]
    /\ cooling \subseteq Url
    /\ lock \in Drainer \cup {Nobody, Killed}
    /\ pc \in [Process -> Feeding \cup Draining \cup Sweeping \cup {"idle"}]
    /\ job \in [Process -> [row : 0..Len(rows), url : Url \cup {Nobody}, approved : BOOLEAN,
                            at : Nat, todo : SUBSET RowId]]
    /\ deaths \in 0..MaxDeaths /\ failures \in 0..MaxFailures
    /\ fetched \in [Url -> Nat] /\ slipped \subseteq Url
    /\ unlocked \in BOOLEAN
    /\ seized \subseteq RowId /\ lost \subseteq RowId

Init ==
    /\ rows = <<>>
    /\ byUrl = [u \in Url |-> 0]
    /\ listed = {}
    /\ markers = [q \in RowId |-> NoMarker]
    /\ cooling = {}
    /\ lock = Nobody
    /\ pc = [p \in Process |-> "idle"]
    /\ job = [p \in Process |-> Nothing]
    /\ deaths = 0 /\ failures = 0
    /\ fetched = [u \in Url |-> 0]
    /\ slipped = {} /\ unlocked = FALSE /\ seized = {} /\ lost = {}

-----------------------------------------------------------------------------
Goto(p, step) ==
    /\ pc' = [pc EXCEPT ![p] = step]
    /\ job' = [job EXCEPT ![p] = IF step = "idle" THEN Nothing ELSE @]

At(p, step, task) ==
    /\ pc' = [pc EXCEPT ![p] = step]
    /\ job' = [job EXCEPT ![p] = task]

\* A Redis call fails, or a fetch overruns.
Fails == failures < MaxFailures /\ failures' = failures + 1
Works == UNCHANGED failures

Listed(q) == \E e \in listed : e.row = q

SetStatus(q, status) == rows' = [rows EXCEPT ![q].status = status]

-----------------------------------------------------------------------------
(* enqueue_url, and the seed of a domain that an admin approves.           *)

\* recently_crawled: with Redis out of reach, nothing was crawled.
StartEnqueue(f) ==
    /\ pc[f] = "idle"
    /\ Len(rows) < MaxRows
    /\ \E u \in Url :
          /\ At(f, "lookup", [Nothing EXCEPT !.url = u])
          /\ IF u \in cooling THEN Fails ELSE Works
    /\ UNCHANGED <<tables, redis, history>>

\* _seed_domain_crawl looks at neither the cooldown nor the queue.
StartSeed(f) ==
    /\ pc[f] = "idle"
    /\ Len(rows) < MaxRows
    /\ \E u \in Url : At(f, "insert", [Nothing EXCEPT !.url = u, !.approved = TRUE])
    /\ UNCHANGED <<tables, redis, failures, history>>

Waits(u) == byUrl[u] # 0 /\ rows[byUrl[u]].status = "pending"

Lookup(f) ==
    /\ pc[f] = "lookup"
    /\ Goto(f, IF Waits(job[f].url) THEN "idle" ELSE "insert")
    /\ UNCHANGED <<tables, redis, failures, history>>

InsertRow(f) ==
    /\ pc[f] = "insert"
    /\ Len(rows) < MaxRows
    /\ rows' = Append(rows, [url |-> job[f].url, status |-> "pending",
                             approved |-> job[f].approved, at |-> 0])
    /\ At(f, "index", [job[f] EXCEPT !.row = Len(rows) + 1])
    /\ UNCHANGED <<byUrl, listed, redis, failures, history>>

InsertByUrl(f) ==
    /\ pc[f] = "index"
    /\ byUrl' = [byUrl EXCEPT ![job[f].url] = job[f].row]
    /\ Goto(f, "list")
    /\ UNCHANGED <<rows, listed, redis, failures, history>>

InsertPending(f) ==
    /\ pc[f] = "list"
    /\ listed' = listed \cup {[row |-> job[f].row, at |-> 0]}
    /\ Goto(f, "idle")
    /\ UNCHANGED <<rows, byUrl, redis, failures, history>>

-----------------------------------------------------------------------------
(* drain_url_queue.                                                        *)

\* Variant: a tick drains although another does.
StartDrainAnyway(d) ==
    /\ pc[d] = "idle"
    /\ Goto(d, "peek")
    /\ lock' = d
    /\ UNCHANGED <<tables, markers, cooling, failures, history>>

\* single_flight: a tick that finds the lock taken returns.  With Redis out of
\* reach it goes on without one.  Workers are alike: the first idle one takes it.
StartDrain(d) ==
    /\ pc[d] = "idle"
    /\ \A e \in Drainer : e < d => pc[e] # "idle"
    /\ Goto(d, "peek")
    /\ \/ lock = Nobody /\ lock' = d /\ Works /\ UNCHANGED unlocked
       \/ Fails /\ unlocked' = TRUE /\ UNCHANGED lock
    /\ UNCHANGED <<tables, markers, cooling, deaths, fetched, slipped, seized, lost>>

\* dequeue_url: any of the rows at the front of the index.
Peek(d) ==
    /\ pc[d] = "peek"
    /\ \/ \E e \in listed :
             At(d, "claim", [Nothing EXCEPT !.row = e.row, !.at = e.at, !.url = rows[e.row].url,
                                            !.approved = rows[e.row].approved])
       \/ listed = {} /\ Goto(d, "release")
    /\ UNCHANGED <<tables, redis, failures, history>>

\* Variant: the status is left alone, the row is off the index anyway.
ClaimByIndex(d) ==
    /\ pc[d] = "claim"
    /\ Goto(d, "unlist")
    /\ UNCHANGED <<tables, redis, failures, history>>

Claim(d) ==
    /\ pc[d] = "claim"
    /\ SetStatus(job[d].row, "processing")
    /\ Goto(d, "unlist")
    /\ UNCHANGED <<byUrl, listed, redis, failures, history>>

Unlist(d) ==
    /\ pc[d] = "unlist"
    /\ listed' = listed \ {[row |-> job[d].row, at |-> job[d].at]}
    /\ Goto(d, "mark")
    /\ UNCHANGED <<rows, byUrl, redis, failures, history>>

\* _mark_processing_started: best effort.
MarkStarted(d) ==
    /\ pc[d] = "mark"
    /\ \/ /\ markers' = [markers EXCEPT ![job[d].row] = [by |-> d, stale |-> FALSE]]
          /\ Works /\ UNCHANGED lost
       \/ Fails /\ lost' = lost \cup {job[d].row} /\ UNCHANGED markers
    /\ Goto(d, "gate")
    /\ UNCHANGED <<tables, cooling, lock, deaths, fetched, slipped, unlocked, seized>>

\* _pre_fetch_gate: an approved seed is not held back by its URL's cooldown.  The
\* domain's cooldown, its page budget and robots.txt may skip any row.
Gate(d) ==
    LET u == job[d].url IN
    /\ pc[d] = "gate"
    /\ \/ Goto(d, "close") /\ Works /\ UNCHANGED slipped
       \/ /\ job[d].approved \/ u \notin cooling
          /\ Goto(d, "stamp") /\ Works /\ UNCHANGED slipped
       \/ /\ ~job[d].approved /\ u \in cooling
          /\ Fails /\ slipped' = slipped \cup {u}
          /\ Goto(d, "stamp")
    /\ UNCHANGED <<tables, redis, deaths, fetched, unlocked, seized, lost>>

\* mark_url_crawled: before the fetch, best effort.
Stamp(d) ==
    LET u == job[d].url IN
    /\ pc[d] = "stamp"
    /\ \/ cooling' = cooling \cup {u} /\ Works /\ UNCHANGED slipped
       \/ Fails /\ slipped' = slipped \cup {u} /\ UNCHANGED cooling
    /\ Goto(d, "fetch")
    /\ UNCHANGED <<tables, markers, lock, deaths, fetched, unlocked, seized, lost>>

\* The page is fetched and stored, is not worth it, or cannot be had.
Fetch(d) ==
    /\ pc[d] = "fetch"
    /\ fetched' = IF job[d].approved THEN fetched ELSE [fetched EXCEPT ![job[d].url] = @ + 1]
    /\ Goto(d, "close")
    /\ UNCHANGED <<tables, redis, deaths, failures, slipped, unlocked, seized, lost>>

\* mark_url_done.
Close(d) ==
    /\ pc[d] = "close"
    /\ SetStatus(job[d].row, "done")
    /\ Goto(d, "clear")
    /\ UNCHANGED <<byUrl, listed, redis, failures, history>>

\* HDEL, whoever wrote the marker.
Unmarked(q) == markers' = [markers EXCEPT ![q] = NoMarker]

\* After an item the drain takes another, or has had its max_items.
ClearStarted(d) ==
    LET q == job[d].row IN
    /\ pc[d] = "clear"
    /\ \/ /\ Unmarked(q) /\ Works
          /\ lost' = IF markers[q].by \in {d, Nobody} THEN lost ELSE lost \cup {q}
       \/ Fails /\ UNCHANGED <<markers, lost>>
    /\ \E step \in {"peek", "release"} : At(d, step, Nothing)
    /\ UNCHANGED <<tables, cooling, lock, deaths, fetched, slipped, unlocked, seized>>

Unlock(d) == lock' = IF lock = d THEN Nobody ELSE lock

Release(d) ==
    /\ pc[d] = "release"
    /\ Unlock(d)
    /\ Goto(d, "idle")
    /\ UNCHANGED <<tables, markers, cooling, failures, history>>

-----------------------------------------------------------------------------
(* reclaim_stale_processing_urls.                                          *)

StartSweep(s) ==
    /\ pc[s] = "idle"
    /\ LET old == {q \in RowId : markers[q].stale} IN
          old # {} /\ At(s, "recheck", [Nothing EXCEPT !.todo = old])
    /\ UNCHANGED <<tables, redis, failures, history>>

Onward(s) ==
    IF job[s].todo = {} THEN Goto(s, "idle") ELSE At(s, "recheck", [job[s] EXCEPT !.row = 0])

Holds(d, q) == pc[d] \in AtRow /\ job[d].row = q

\* Someone else has the row: a drain or another sweep, or it is still listed.
Taken(s, q) ==
    \/ \E d \in Drainer : Holds(d, q)
    \/ \E o \in Sweeper \ {s} : pc[o] \in {"reset", "relist"} /\ job[o].row = q
    \/ Listed(q)

Chosen(s, q, step) == At(s, step, [job[s] EXCEPT !.row = q, !.todo = @ \ {q}])

\* Variant: the sweep trusts the marker.
RecheckNot(s) ==
    /\ pc[s] = "recheck"
    /\ \E q \in job[s].todo : Chosen(s, q, "reset")
    /\ UNCHANGED <<tables, redis, failures, history>>

\* The next marker of those read: its row is put back if it is still processing.
Recheck(s) ==
    /\ pc[s] = "recheck"
    /\ \E q \in job[s].todo :
          IF rows[q].status = "processing"
          THEN /\ Chosen(s, q, "reset")
               /\ seized' = IF Taken(s, q) THEN seized \cup {q} ELSE seized
          ELSE Chosen(s, q, "unmark") /\ UNCHANGED seized
    /\ UNCHANGED <<tables, redis, failures, deaths, fetched, slipped, unlocked, lost>>

Reset(s) ==
    /\ pc[s] = "reset"
    /\ SetStatus(job[s].row, "pending")
    /\ Goto(s, "relist")
    /\ UNCHANGED <<byUrl, listed, redis, failures, history>>

\* With a new enqueued_at.
Relist(s) ==
    LET q == job[s].row IN
    /\ pc[s] = "relist"
    /\ rows' = [rows EXCEPT ![q].at = @ + 1]
    /\ listed' = listed \cup {[row |-> q, at |-> rows[q].at + 1]}
    /\ Goto(s, "unmark")
    /\ UNCHANGED <<byUrl, redis, failures, history>>

\* The marker goes, even if a drain has left a new one meanwhile.
Unmark(s) ==
    LET q == job[s].row IN
    /\ pc[s] = "unmark"
    /\ \/ /\ Unmarked(q) /\ Works
          /\ lost' = IF markers[q].stale \/ markers[q] = NoMarker THEN lost ELSE lost \cup {q}
       \/ Fails /\ UNCHANGED <<markers, lost>>
    /\ Onward(s)
    /\ UNCHANGED <<tables, cooling, lock, deaths, fetched, slipped, unlocked, seized>>

-----------------------------------------------------------------------------
(* Time and failures.                                                      *)

\* STALE_PROCESSING_SECONDS pass over a marker: more than a sweep takes, and
\* meant to be more than any fetch takes.
Age(q) ==
    /\ markers[q] # NoMarker /\ ~markers[q].stale
    /\ \A s \in Sweeper : pc[s] # "idle" => q # job[s].row /\ q \notin job[s].todo
    /\ markers' = [markers EXCEPT ![q].stale = TRUE]
    /\ IF \E d \in Drainer : Holds(d, q) THEN Fails ELSE Works
    /\ UNCHANGED <<tables, cooling, lock, pc, job, history>>

\* The cooldown of a URL lapses; it is far longer than a fetch.
Lapse(u) ==
    /\ u \in cooling
    /\ \A d \in Drainer : ~(pc[d] \in AtRow /\ job[d].url = u)
    /\ cooling' = cooling \ {u}
    /\ fetched' = [fetched EXCEPT ![u] = 0]
    /\ UNCHANGED <<tables, markers, lock, pc, job, deaths, failures, slipped, unlocked, seized, lost>>

\* Variant: the lock has no TTL.
ExpireNever == FALSE /\ UNCHANGED vars

\* The lock of a drain that died: its TTL is the hard time limit, so that no
\* drain outlives its lock.
Expire ==
    /\ lock = Killed
    /\ lock' = Nobody
    /\ UNCHANGED <<tables, markers, cooling, pc, job, failures, history>>

\* The gaps: after the row's listing is gone and before its marker is there,
\* and between the status "pending" and the listing.
Gap(p) ==
    \/ pc[p] \in {"mark", "index", "list", "relist"}
    \/ pc[p] = "unlist" /\ [row |-> job[p].row, at |-> job[p].at] \notin listed

Dies(p) ==
    /\ pc[p] # "idle"
    /\ deaths < MaxDeaths /\ deaths' = deaths + 1
    /\ Goto(p, "idle")
    /\ lock' = IF lock = p THEN Killed ELSE lock
    /\ lost' = IF Gap(p) THEN lost \cup {job[p].row} ELSE lost
    /\ UNCHANGED <<tables, markers, cooling, failures, fetched, slipped, unlocked, seized>>

-----------------------------------------------------------------------------
Feed(f) ==
    \/ StartEnqueue(f) \/ StartSeed(f) \/ Lookup(f)
    \/ InsertRow(f) \/ InsertByUrl(f) \/ InsertPending(f)

Drain(d) ==
    \/ StartDrain(d) \/ Peek(d) \/ Claim(d) \/ Unlist(d) \/ MarkStarted(d) \/ Gate(d)
    \/ Stamp(d) \/ Fetch(d) \/ Close(d) \/ ClearStarted(d) \/ Release(d)

Sweep(s) == StartSweep(s) \/ Recheck(s) \/ Reset(s) \/ Relist(s) \/ Unmark(s)

Next ==
    \/ \E f \in Feeder : Feed(f)
    \/ \E d \in Drainer : Drain(d)
    \/ \E s \in Sweeper : Sweep(s)
    \/ \E q \in RowId : Age(q)
    \/ \E u \in Url : Lapse(u)
    \/ Expire
    \/ \E p \in Process : Dies(p)

Spec == Init /\ [][Next]_vars

\* Beat starts drains and sweeps again and again and a started one goes on; the
\* clock does not stop.
FairSpec ==
    /\ Spec
    /\ \A d \in Drainer : WF_vars(Drain(d))
    /\ \A s \in Sweeper : WF_vars(Sweep(s))
    /\ \A q \in RowId : WF_vars(Age(q))
    /\ WF_vars(Expire)

-----------------------------------------------------------------------------
Marked(q) == markers[q] # NoMarker
\* A run is at the row.
Worked(q) == \E p \in Process : pc[p] # "idle" /\ job[p].row = q

\* A row that is not closed is where a drain or a sweep will find it, or a run
\* is at it: no interleaving of the statements and no death outside the gaps
\* leaves it behind (dequeue_url, mark_url_done, reclaim_stale_processing_urls).
NotStranded ==
    \A q \in 1..Len(rows) :
        rows[q].status # "done" => Listed(q) \/ Marked(q) \/ Worked(q) \/ q \in lost

\* Within its cooldown a URL is fetched once, however often it was enqueued and
\* whatever was put back after a death: the stamp precedes the fetch and one
\* drain runs at a time (mark_url_crawled, _pre_fetch_gate, single_flight).
FetchedOnce == ~unlocked => \A u \in Url \ slipped : fetched[u] <= 1

\* A sweep never puts back a row that a drain has closed, even one whose marker
\* lingers (the second look at the status in reclaim_stale_processing_urls).
DoneStaysDone ==
    [][~unlocked => \A q \in 1..Len(rows) \ seized :
          rows[q].status = "done" => rows'[q].status = "done"]_vars

\* A listed row is closed in the end, whatever dies on the way, unless it falls
\* into a gap (drain_url_queue and reclaim_stale_processing_urls under beat).
RowsEnd ==
    \A q \in RowId :
        Listed(q) ~> ((q \in DOMAIN rows /\ rows[q].status = "done") \/ q \in lost)

=============================================================================
