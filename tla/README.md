# TLA+ models of the PXke Algorand platform

This directory holds specifications of the parts of the platform that move
money, hand out limited goods, or move an article towards its publication while
several tasks run at once, the TLC configurations that model-check them, and
TLAPS proofs of their main safety properties. Paths below are relative to the
repository; `x402/` stands for `src/backend/app/modules/x402/`.

## 1. The system

The repository is one backend with two products. A **newspaper** (Celery
workers crawl, compose, gate and publish articles; a Falcon API and a Svelte
SPA serve them) and the **x402 marketplace** (pay-per-call services settled on
Algorand: news search, a file scan, backup storage). They share Redis,
Cassandra and one host. A Conduit plugin in Go writes chain blocks to
Cassandra.

| component | state it keeps | operations | hard behaviour | what makes it correct |
|---|---|---|---|---|
| paid request (`x402/paid_request.py`, `guard`, `replay`, `settlement`, `refund`) | Redis replay keys and refund budget, two Cassandra settlement tables, transfers on the chain | breaker check, claim, verify, settle, record, product write, mark, refund | every call can fail, lose its answer or be the last one of the process; the same header comes several times | one payment one outcome; store before mark; the books never contradict the chain; the budget holds |
| circuit breaker (`x402/circuit_breaker.py`) | rolling counter and latch in Redis | record a failure, check, admin reset | three callers interleave on two keys | once tripped, tripped until a reset; trips on real failures only; the window rolls |
| promo codes (`x402/promo.py`) | remaining counts in Redis, code and redemption rows in Cassandra | redeem, deactivate, create | seed, decrement and undo race | no code and no wallet gets more than its allowance; redemptions are logged; no slot is lost |
| scan slots (`x402_scan/services/concurrency.py`) | one Redis counter with a TTL | acquire, release | crashes between commands; the TTL ends on a busy host | never more scans than slots; slots come back |
| scan sandbox (`x402_scan/sandbox`) | none | one scan | an external container | input and output |
| storage (`x402_storage`) | head rows, version rows, two expiry projections, bytes on disk | create, add version, renew, delete, read | head rows are read before the payment and written whole after it; version numbers by LWT; repair of an interrupted promotion | an active row has its bytes; what was paid for is not undone by a stale write; everything expired is found |
| storage reaper | a Redis lock | walk the expiry days | races with renewals and with another tick | reaps only what is past its grace |
| owner authentication (storage and wallet `auth`) | nonces and sessions in Redis | issue, verify, look up, revoke | a lookup writes the session back | a nonce is used once; a revoked session stays revoked |
| editorial room (`shared/.../artifact_store.py`, `to_compose_selection.py`, `service_reconciliation.py`, the drain) | artifacts, their pending index, the slate of each day | crawl and supersede, select, redo, pin, drain, compose now, reclaim, sweep, discard the dead, merge duplicates | every call is several statements, tasks act on what they read one call earlier, and any of them may die in between | nothing selected is stranded; a slate is one the room could have chosen; no update is lost but to the cap on accumulated text, or told twice; a pin is kept |
| article publishing (`publish_tasks.py`, `article_transitions.py`, the backlog drain, the admin's routes) | rows of `articles` keyed on their status, reviews | file a compose, publish, release the backlog, approve, draft, restore, delete, recompose | a change of status is a DELETE and an INSERT | no article vanishes or doubles; a finished draft is kept |
| compose lock (`workers/.../compose_lock.py`) | a token lock and its metadata | acquire, reclaim a dead holder, release | reclaim is check-then-delete | one composer at a time |
| daily publish cap (`publish_daily_guard.py`) | a counter and an init flag per day | initialise, reserve, release | initialisation overwrites; release after midnight | never more articles than the cap |
| URL queue (`crawler/url_queue.py`) | three Cassandra tables, a Redis hash of markers | enqueue, dequeue, done, reclaim | dequeue is not atomic; reclaim races completion | each row is with one worker; nothing is stuck |
| Conduit exporter (`src/conduit`) | block and transaction tables, `next_round` | receive one round, restart | replay after a crash | no round is skipped |
| price oracle, catalog, previews, discovery, news, admin, SEO, ecosystem, metrics, search, sharing, frontend, SDK, deployment | caches and single rows | reads and single writes | none across calls | input and output |

How they interact: a paid route asks the **breaker**, then the **gate** (which
claims the header in **replay**, talks to the facilitator in **guard**, writes
the ledger in **settlement**), then runs its product write and either marks the
sale fulfilled or lets **refund** send the money back and feeds the breaker. A
**promo** redemption replaces the gate; the **scan** route takes a slot around
all of it. Storage routes add a read of the head row before the gate.

On the newspaper's side a drain of the **URL queue** fetches pages, and what it
finds becomes artifacts of the **editorial room**; the room's drain hands one
artifact after the other to the writer, which works under the **compose lock**;
what it has written goes through the **publish cap** into the `articles` table
or waits in the backlog. The admin reaches into each of these tables directly.

## 2. Modules

| module | models | extends / used by |
|---|---|---|
| `PaidRequest` | the paid-request path of one resource on one UTC day | run by `MCPaidRequest` |
| `PaidCall` | abstract: what payer and bookkeeper are promised about one payment | instantiated by `PaidRequestRefinement` |
| `PaidRequestRefinement` | the refinement mapping of `PaidRequest` into `PaidCall` | run by `MCPaidRequestRefinement` |
| `PaidRequestInvariant` | the inductive invariant | `PaidRequestProofs` |
| `CircuitBreaker` | the breaker, one action per Redis command | `MCCircuitBreaker`, `CircuitBreakerProofs` |
| `ScanSlots` | the scan slots, one action per Redis command | `MCScanSlots`, `ScanSlotsProofs` |
| `PromoRedemption` | redemption of one code | `MCPromoRedemption`, `PromoRedemptionProofs` |
| `BackupStore` | one stored backup under its owner's requests and the reaper | `MCBackupStore`, `BackupStoreProofs` |
| `EditorialRoom` | artifacts, pending index and slates under the room's tasks | `MCEditorialRoom`, `EditorialRoomProofs` |
| `Publishing` | compose lock, daily cap, `articles` table and backlog, composed | `MCPublishing`, `PublishingProofs` |
| `UrlQueue` | the crawl frontier: feeders, drains, the sweep, deaths | `MCUrlQueue`, `UrlQueueProofs` |

Definitions whose comment begins with "Variant:" are plausible wrong versions of the
definition below them. No specification uses them; substituting one shows that
the property it names is able to fail.

### PaidRequest

The module composes `paid_request`, `guard`, `replay`, `settlement` and
`refund`, and uses the breaker through three steps (`IsTripped`,
`CountFailure`, `SetLatch`) of which `CircuitBreaker` is the command-by-command
version. `pc[r]` names the next external call of request `r`; `hdr[r]` is the
payment in its header, chosen arbitrarily in `Init`, so that requests may or
may not share one. `claims` is the set of replay keys, `holders` the requests
whose `claim_key` is not `None` (the fail-open branch proceeds without one),
`ledger` and `byTx` are the two settlement tables, `settledBy`, `refundTx` and
`product` are the world: who moved the money of a header, what became of a
refund transfer, what the product write left behind.

Each action is one call: its success, its failure before taking effect and its
failure after taking effect (a lost answer) are its disjuncts, wherever the
code's `except` makes them differ. `Crash` ends a request between any two
calls. `ReadRow` is the shared shape of `mark_fulfilled` and `record_refund`,
which read the lookup row and do nothing without it.

The unit of the daily refund budget is one refund of one fixed price, so
`used` counts refunds; the `INCRBY`-compare-`DECRBY` protocol is unchanged. The
window that ends and the admin's reset are actions of their own.

Assumptions:
- The Redis client is used without retries, so a command takes effect at most
  once; a command whose answer is lost may or may not have.
- A header is one signed transfer, which the chain accepts once.
- The replay key outlives the gate: `config.py` requires its TTL to be at least
  twice the facilitator's timeout, which bounds verify and settle together.
  `ClaimExpires` is therefore disabled while a claim's owner is in the gate,
  and enabled at any other time.
- One day: `used` is never reset. With a new key each day the property holds
  per day.

### PaidCall and the refinement

`PaidCall` has one record of state per payment, outcome and books: charged
once, concluded once as delivered, returned or kept, and books that open after
the charge and close according to it. `PaidRequestRefinement` maps `settledBy`,
`product`, `refundTx` and `resp` to the outcome and the ledger row to the
books. A refund attempt that moved nothing closes the books as a refund while
the outcome stays "charged": that is the state an operator reconciles.

### CircuitBreaker

`Recorder` and `Checker` are calls of `record_refund_failure` and `is_tripped`;
the reset is a process that may run again and again. INCR, EXPIRE, the latch
SET, the two GETs and the two DELETEs are separate actions on `counter`,
`expiring` (whether the counter has a TTL) and `latched`. `tripped` and
`healthy` are history variables; `healthy` becomes false with the first failing
command, lost answer or dying process, and the properties that the code keeps
only until then say so. The reset is not repeated on keys that do not exist,
which only removes stuttering.

Two further disagreements can be seen in the model and have no run: a failing
EXPIRE is never repeated, so that count lasts (`WindowRolls` without its
`healthy`; `rate_limit.py` promises the expiry on the first hit), and a recorder
between its INCR and its latch write latches a breaker that was reset in
between.

### ScanSlots

`count` and `key` are the Redis counter: INCR and DECR create a missing key
without a TTL, EXPIRE gives it one, `KeyExpires` deletes it at any time: the
TTL (300 s) is set when the counter goes from 0 to 1 and not renewed, so a host
that stays busy meets it with scans in flight. The history variable `overrun`
records that this has happened; `healthy` is as in `CircuitBreaker`. A worker
that dies between INCR and EXPIRE leaves a key without a TTL, which nothing
heals although the module's docstring calls the TTL a self-heal; the model
shows it and no run states it.

### PromoRedemption

One code, many attempts. The SET NX, the DECR and each undo are separate
actions; an exception between the first two returns without undoing, as in the
code. `walletLeft` and `known` are the per-wallet counts. The per-IP limit and
the expiry only refuse an attempt and are in the free choice of `Lookup`.

### BackupStore

One backup of `x402_storage`: `head` and `ver` are its rows in the two
canonical tables, `headIndex` and `verIndex` the expiries it is filed under in
the two projections, `bytes` the blobs on disk, each named after the request
that put it. `pc[c]` names the next store or connector call of a request or of
the reaper; `seen[c]` is the head row as that call last read or wrote it, and
`row[c]` the version it works on. `UpsertHead`, `InsertRow`, `DeleteRow`,
`Resync` and `Unlink` are the methods of the store and of the local connector;
one that fails has executed any prefix of its statements. What the handler then
does is in the actions: `create` is `PutBytes`, `CreateHead`, `CreateVersion`;
`add_version` is `PutBytes`, `InsertVersion` or `InsertLost`, `Recover`,
`Promote`, `ResyncNew`, one of the `Retire` actions and, for a loser,
`UndoBytes`; `renew` is `RenewHead`, `RenewIndex`; `delete`, which the owner and
the reaper share, is `DeleteHead`, `DeleteBytes` and the `Cascade` actions.

Time is counted in days. A request may wait at its payment gate while days pass
and the reaper runs; its store calls all happen on one day. The two reads of
`upsert` and of the reaper are in the action of the write or of the decision
that follows them.

The history variable `stale` records that a call has written something that
follows from a head (or from a version row) which another call has changed
since it was read. The routes read the head before the gate and nothing locks
it, so such writes happen: two renewals, a renewal and an added version, or one
of them and a delete. The properties of the run hold up to the first of them;
what can follow is in section 3. `healthy` is as in the other modules.

Three more behaviours can be seen in the model and have no run: a failing
re-keying in `renew` answers with an error, and a refund, although the renewal
is in effect (`add_version` swallows the same failure); `upsert` failing
between its two statements leaves a backup that the reaper cannot find, which
its own docstring accepts; and the expiry of a head takes all its versions with
it, the superseded ones that were added late and paid for longer included.

### EditorialRoom

`db` is one record of the three tables: `art` (artifacts and their content),
`listed` (`artifacts_pending`, keyed on the priority) and `slate`
(`to_compose`). A call of the store is the sequence of the `db`s its statements
leave (`Mark`, `Revert`, `Reprioritise`, `PinFor`, `Insert`, `InsertSlot`), and
`Makes` ends in the last of them, or in any of them with the task dead. What a
task reads it keeps in `job[t]`, and acts on one call later. `Crawl`,
`PinForTomorrow`, `Sweep` are calls of one step; selection is `StartSelect`,
`Clear`, `Place` per slot; the redo puts `ResetRow` and `ResetDay` before it;
the drain is `StartDrain`, `DrainNext`, then a gate, `Compose` and `Resolve`;
the reclaim `StartReclaim` and `ReclaimRow`; the dead-source sweep `Probe` and
`DiscardDead`; the merge `StartMerge` and `MergeOne`. The lists that the code
sorts and cuts are sets here: `First` and `Best(rows, n)` are its head and its
first n in the order `Ahead`, and the slot of a pick is the number of those
ahead of it. `PlatformPicks` is the ranking with its floors, as computed;
`FairSlate` states what it promises without the steps, and `RankingFair`
compares each selection with it.

The content of an artifact is the sequence of the updates it tells, in the order
of the text; each crawl brings a new one. A supersession puts the new update
after what is left of the old text, which `Capped` trims from the front
(`_cap_old_content`): `MaxOld` is how many updates fit into
`ARTIFACT_CONCAT_MAX_OLD_CHARS`, all taken as equally long, and one that the cut
goes through counts as cut away. With a `MaxOld` of 0 each of them is longer
than the limit. A merge is such a supersession too, by the duplicate's whole
text. `BeyondCap` is what the cap cuts from a text. `told`, `dropped` are
history. `stale` becomes true when a task writes on something another one has
changed since it read it (a selection on a slate that was filled or redone
meanwhile, or of a pick that has gone elsewhere or is pinned for another day, a
merge of an artifact that was selected, a compose of one that was discarded).
Such writes happen, nothing in the code prevents them; the properties hold up to
the first, the constraint `UpToStale` cuts off the rest, and section 3 says what
can follow.

Two of these conditions were found by proving. Looking for the inductive
invariant of `SlateSound` showed that a task placing the rest of an old plan
after another one had redone its day could seat a service twice; the runs are
too small to meet it (`SlateMoved`). And a selection that outlives its day may
place the human pick of an artifact which the reclaim has pinned for a later day
in between; the next reclaim then moves that pin to an earlier day (a TLC trace
of 18 steps with two tasks over three days; `PickMoved`). `PinsKept` names one
more way to lose a pin than it did: the admin may pin for tomorrow what the
reclaim had pinned for a later day, so that a pin can also move to an earlier
one.

Simplified: `insert_artifact` is one action with its statements inside, since
the window of its read is that of one call; several pins of one day are cleared
together; an artifact is on one slate (`SlateSound`), so
`has_current_reference` of the reclaim is false.

### Publishing

One module for what a finished draft meets: the tasks of `Task` are composes,
releases of the backlog and the admin's requests, each one shot. The writer
loop is `Acquire`, perhaps `Judge`, `Break`, `Unmark`, `Reacquire`, then
`Mark`, `Write`, `Unlock`, `Forget`; `File` decides between a review, the
backlog and the feed. `AssertAllowed`, `Count`, `Set`, `Check`, `Reserve`,
`Incr`, `Undo`, `GiveBack`, `Decr` are the commands of the cap, with the day of
the counter taken where the code takes it. `Read`, `Delete`, `Move` are
`transition_article_status`, the row being keyed on status, `published_at` and
id, so that two moves at once may leave two rows. A failed statement may have
taken effect.

History: `moved` (two tasks moved the same row), `broken` (a reclaim deleted a
lock that had changed hands, or a compose ran without one because Redis was out
of reach), `leaked` (counts that a late initialisation overwrote, a slot given
back on another day, an INSERT whose answer was lost), `torn` (a task ended
between DELETE and INSERT). They mark known ways out of a property; each is set
by the step that takes that way, and the property says what holds otherwise.

Left out: the claim of a slug, the tag index, versions and translations, what
the text gates do, ghost rows; pacing is a free choice.

### UrlQueue

One action per statement of `enqueue_url`, `dequeue_url`, `mark_url_done` and
`reclaim_stale_processing_urls`, with the gate, the stamp and the fetch of the
drain between them. "done" stands for every terminal status. `lock` is the
`single_flight` of the drain, whose TTL is the task's hard time limit: no drain
outlives it, so it expires under a dead drain only (`Expire`). A marker ages
(`Age`); that it does so under a live worker counts as a failure, since
`STALE_PROCESSING_SECONDS` is chosen above any fetch. The end of the drain's
`max_items`, robots.txt, the domain's budget and cooldown are free choices;
links found in a page are enqueued by feeders. One sweep runs at a time (beat's
overlap only if one takes longer than its period).

`Recheck` is the sweep's second look at a row. History: `seized` are the rows
that it judged dead while someone else had them (`Taken`), `slipped` and
`unlocked` the URLs and the time for which Redis failed to remember a fetch or
the lock.

`NotStranded` and `RowsEnd` leave out the rows in `lost`: a run that dies after
the listing of a row is gone and before its marker is there, or between the
status "pending" and the listing. The first is what the code calls its known
gap; the second is not mentioned there.

## 3. Runs

Instances are small sets of interchangeable requests; symmetry is used for
invariants only, never with liveness. `CHECK_DEADLOCK FALSE` is set where every
task is served once, or the bounds on artifacts and days let all of them be
over; `url_queue` checks for deadlock, since its drains come back for ever.

| run | instance | shows |
|---|---|---|
| `paid_request` | 2 requests, 2 headers (shared or not), threshold 2, budget 1 | exclusive claims, one outcome, store before mark; books, refunds, budget and answers agree |
| `paid_request_live` | 2 requests, 1 header, fair | claims end; whoever the gate let through is told what became of the money, a payer whose settle answer was lost is turned away with nothing on the books; `PaidRequest` implements `PaidCall` |
| `breaker` | 3 failures, 2 checks, threshold 2, fair | trips on enough failures; up to the first fault, trips until reset and the window rolls |
| `scan_slots` | 5 scans, 2 slots | the cap and the accounting until an overrun; without faults, no leak |
| `storage` | creation, 2 later requests, the reaper; 4 days, 3 versions, terms up to 2 days, grace 1, lookback 2 | up to the first write on an outdated head: what is served has its bytes, versions live their term; without faults, no blob leaks and the reaper can find everything |
| `promo` | 4 attempts of 3 wallets, 2 slots, 1 per wallet | the caps and the log; without faults, no leak |
| `editorial` | 2 overlapping tasks of any kind, 2 artifacts, 2 days, 2 slots | nothing selected is stranded, slates are sound, the index follows the rows, updates are told once |
| `editorial_many` | 1 task at a time, 3 artifacts, `MaxOld` 1 | three generations of an artifact: updates are kept but for what the cap takes; pins survive supersession; the selection is the fair one |
| `editorial_crash` | 1 task, 2 artifacts, 2 priorities, 1 failed statement or death | no crash inside a selection, redo or reclaim strands an artifact or spoils a slate |
| `publishing` | 3 tasks of any kind, 3 rows that stand, cap 1, 2 days, 1 failure or death | no article vanishes or doubles, the cap holds but for the slots it lost count of, drafts are kept, one writer |
| `doc_release_moves_on` | the same without failures | a refused duplicate is picked again (below) |
| `url_queue` | 1 URL, 2 rows, 2 drains, 1 feeder, 1 sweep, 1 death, 1 failure, fair | rows are not stranded and are closed in the end; one fetch per cooldown; closed stays closed |

All but `editorial`, `editorial_many` and `doc_release_moves_on` include
failing calls and dying processes, the first six lost answers as well.

Why the bounds are enough: two requests already race at every pair of steps of
the path, one of them as the claimant and the other as a rival with or without
a claim, and a second header gives them separate rows; with a budget of one the second refund is over it, and with a threshold of two the
second failure trips. Three recorders put a failure before, at and after the
threshold. Five scans on two slots leave refused ones that undo around granted
ones. Two later requests on a backup race for one version number, for the head
row, or against a delete; four days let a version pass its term, its grace, and
a renewal that keeps it current beyond both; a view drops what resting actors
remember, and the constraint `UpToStale` cuts off what the properties do not
speak about. Four attempts on two slots with one wallet trying twice meet both caps.
In the editorial room a conflict is between two tasks over an artifact or a
day's slate; two slots and two days make a human pick, a platform pick, a
leftover and a redo of tomorrow, and three artifacts a chain of two
supersessions, the second of which is over the cap, or a merge; the boost of the reclaim and the priorities of a
sweep are bounded by `MaxBoost` and `MaxPriority`, one step each. In
`Publishing` a reclaim needs a dead holder, a second reclaimer and a third task
that takes the lock in between, and a row at most two movers and an onlooker:
three tasks. In `UrlQueue` a second row of the same URL is what a second fetch
needs, and one death and one failed call are enough for each gap (the safety
properties were also checked with two deaths and one failure).
The proofs below remove the bounds for the safety properties they state.

Fairness. `PaidRequest!FairSpec` has weak fairness on the steps of each
accepted request (the server runs its handlers; a crash is not prevented) and
on the expiry of replay keys (Redis TTLs). `CircuitBreaker!FairSpec` has it on
each call, on the end of the window and on the second half of a reset.
`UrlQueue!FairSpec` has it on each drain and each sweep (beat starts them again
and again, and a started one runs), on the aging of markers (the clock) and on
the TTL of a dead drain's lock. Arrivals, resets and failures are never fair.

### Where documentation and code differ

The run `doc_release_moves_on` checks one such statement: of a backlog row that
duplicates a live article, `queue_drain_tasks.py:955-956` says that the next
run will pick a different row unless an admin resolves the conflict. The next
run takes the head of the same list again, gives its slot back again, and the
rows behind it wait.

The other disagreements are visible in the models, as a history variable or as
the faults a property excepts:

- `x402/paid_request.py:14-15`: the ledger row exists once the gate lets a
  request through. A failing ledger write is logged and swallowed
  (`settlement.py:396`).
- `x402/paid_request.py:48`: "not a 500, not a 400 -- a 200 or your money back."
  This is so behind the gate. A `/settle` whose answer is lost after the chain
  took the transfer (`guard.py:196`) charges the payer and answers 402, or 500
  when it raises; no ledger row, no product and no refund follow, and the claim
  on the header decides only whether a retry is a 409 or a 402. The second part
  of `ChargedIsAnswered` says that those are the only charged payers left
  without word of their money by a process that lives.
- `x402/refund.py:60-61`: "failed" means that no funds moved. Also recorded when
  the broadcast's answer is lost after algod took the transfer (`:278`).
- `x402/circuit_breaker.py:20`: only the reset clears a trip. A lost latch write
  (`:54`) leaves the counter alone, which expires.
- `x402_scan/.../concurrency.py:1,7-9`: the cap bounds the scans in flight. Not
  on a host busy for the whole TTL, which is set at the first slot only (`:62`).
- `backup_service.py:586-588`: an active head over missing bytes is the failure
  never to hit. A renewal or a new version that waited for its payment while the
  backup was deleted writes the head back (`:962`).
- `backup_service.py:427-428`: a failure between the two writes of `add_version`
  never wedges the backup at 409. The reaper deletes the orphaned version row
  (`reaper.py:223`), and its number stays taken.
- `url_queue.py:250-254` names one gap, a death between the status and the
  marker. A death of `enqueue_url` or of the sweep between the status "pending"
  and the listing (`:170-171`, `:305-306`) also leaves a row that nothing finds,
  and against which later enqueues of its URL are dropped for ever.
- `url_queue.py:37-39,256-259`: a healthy fetch is never reclaimed, finished work
  never resurrected. The sweep judges by markers it read at its start: a row
  whose old marker lingers and which was dequeued again is reset under its
  worker (`seized`), and then queued again after that worker closed it. Its HDEL
  may also take the new worker's marker.
- A reclaimed row whose worker had died after `mark_url_crawled` meets its own
  cooldown at the second dequeue and is closed as skipped, unfetched.
- `service_reconciliation.py:285`, `artifact_store.py:166`: two pending artifacts
  of one service are structurally impossible. A redo or a reclaim reverts a
  selected one beside its pending successor. With three of them one pass of the
  merge does not leave "exactly one" (`:313`).
- `artifact_store.py:169`: the content of a superseded row is never silently
  dropped, and `:344-345`, nothing from prior cycles is lost. The cap drops the
  oldest of it (`:309`, applied at `:350`), with a mark in the text and no
  count; of what it drops the metadata keeps title, url and dates, not the
  content. A merge files the younger of two texts behind the older, so the order
  of a text need not be that of the updates' ages, and the cap may take a newer
  one before an older one. `UpdatesKept` holds up to the cap.
- One human pick per day: a pick that is reverted keeps its pin, beside one that
  was pinned for the same day meanwhile.
- `queue_drain_tasks.py:806-808`: `compose_artifact_now` cannot compose twice.
  The status is read before the lock is taken; the one that waited composes what
  the other has (`ToldOnce` holds up to the first such step).
- Two selections of one day at once strand what the first one placed.
- `compose_lock.py:191`: never reclaim on a hunch. The holder is judged and then
  the lock is deleted without its token (`:245-248`), whoever has it by then.
- The admin's approval closes the review before it publishes; a refused duplicate
  then leaves the draft on hold with no review to approve.

Also: `concurrency.py` calls itself good enough for a prototype and names the
more precise alternative.

## 4. Proofs

All theorems hold for every value of the constants under the `ASSUME`s of the
modules (finite sets of requests and calls, positive limits), with every fault
the modules describe.

| module | theorems |
|---|---|
| `PaidRequestProofs` | `TypeCorrect`, `InvariantHolds`, and from it `OnePayment`, `StoreBeforeMark`, `FulfilledXorRefunded`, `LookupFollowsLedger`, `LedgerRefundHonest`, `AnswerHonest`; `ClaimExclusive`; `RefundsWithinBudget`; `Spec => RefinesPaidCall` |
| `CircuitBreakerProofs` | types; `TripsUntilReset` (up to the first fault); `TripsOnEnoughFailures` |
| `ScanSlotsProofs` | types; `InFlightCappedUntilOverrun` and `SlotsAccounted`; `SlotsReturned` |
| `PromoRedemptionProofs` | types; `NoOverRedemption`; `WalletCap`; `RedeemedIsLogged`; `NoSlotLost` |
| `BackupStoreProofs` | types; `ServedHasBytes`; `VersionsLiveTheirTerm`; `NothingLeaks`; `Findable` |
| `PublishingProofs` | types; `OneWriter`; `ComposedKept`; `NoneVanishes`; `OneRowEach`; `WithinCap` |
| `UrlQueueProofs` | types; `FetchedOnce`; `DoneStaysDone`; `NotStranded` |
| `EditorialRoomProofs` | `TypeOK`; `SlatesAgree`; `IndexFollows`; `UpdatesKept`; `ToldOnce`; `RankingFair`; `PinsKept` |

**The invariant of PaidRequest.** None of its safety properties is inductive:
"fulfilled implies stored" is broken by a step from a state in which a request
that never wrote its product is about to mark. `IInv` says where each request
can be, given what it has done. `OwnsPayment` (only the request that settled a
payment is past the gate, or has left a product or a refund) makes everything
after the gate single-writer per payment. `ProductPlaced`, `RefundPlaced` and
`Answered` tie the product, the refund and the response to `pc`. `RowsPlaced`
ties the two rows of a payment to the progress of the one request that owns
them. Lemma `StepIsLocal` shows that a step of a request changes only its own
data and its own payment's rows; each remaining lemma is then about the owner.
`ClaimExclusive` is inductive on its own, thanks to the guards of
`ClaimPayment` and `ClaimExpires`. The budget needs `BudgetInv`: the counter
covers not only the refunds sent (`Senders`) but also the reservations about
to be undone (`Spenders`), which is what keeps a late undo from uncovering a
refund.

**The refinement.** With `IInv`, each step of the owner of a payment is one
step of `PaidCall` for that payment or a stutter, and leaves all others alone:
settling is `Charge`; a product stored, a business rejection and a refund
broadcast are `Conclude`; the ledger insert is `OpenBooks`; the ledger updates
are `CloseBooks`.

**Counting.** `TripsOnEnoughFailures` is proved from: the counter never exceeds
the number of recorders that have passed their INCR, and a call stands before the
latch only when that number reached the threshold. The scan and promo proofs follow one
pattern: the Redis count never promises more than the slots held leave, where
"held" includes the calls about to give one back; a lost undo only makes the
inequality strict. Without faults it is an equality, from which `SlotsReturned`
and `NoSlotLost` follow.

**BackupStore.** All four properties of the run, for any number of requests and
of reaper ticks, overlapping ones included, which the run has only one of. The
run's invariants end at the first stale write, and so do the theorems.
- `ServedHasBytes`, `VersionsLiveTheirTerm` (`IInv`): `Placed` says what an actor
  knows where it stands (whoever deletes bytes has first marked the row or
  repointed the head), `Fresh` that the blob of an upload in progress is on no
  row and in nobody's hands (`Known`), so that a loser's cleanup removes only
  its own bytes, and `Unique` that no two versions share a blob. `IInv` holds
  after stale writes and failures too; only its last part, `Served`, asks that
  nothing stale was written. A step is one of five kinds (`Quiet`, `Rewrites`,
  `Stores`, `Drops`, `Deletes`), each with a lemma for what it preserves.
- `NothingLeaks` (`Accounted`): without faults a blob on disk is `Owed`: an
  active version has it and the head is alive or somebody's walk still has that
  version before it; or a version just marked deleted has it and its bytes are
  next; or its own request has yet to store it or take it back.
- `Findable` (`Indexed`): every active version is filed, or an actor is about to
  refile it, or an actor stands before a refiling from a head that is gone
  (`Doomed`), which ends in a stale write. That nobody is about to refile from a
  head still to come (`Ordered`) is what makes the last kind stay doomed: heads
  only grow in version, then in expiry.

**Publishing.** Each theorem has its invariant over the five groups of
variables that a step keeps or changes; `ComposeGoes`, `SlotGoes` and `RowGoes`
say once where the steps of a task lead, so that most of them are frames.
- `OneWriter` (`LockInv`): unless `broken`, who writes holds the lock. The
  reclaim is the interesting step: who was judged is done or dead and stays so
  (`judged` is not `idle`, and tasks do not come back), so a lock that is still
  its holder's when it is deleted is nobody's writer.
- `ComposedKept` (`FileInv`): from the writer's answer to the row a task stands
  at one of the steps of `Kept`, whichever branch the cap sends it down.
- `NoneVanishes`, `OneRowEach` (`TableInv`): a stored article has a row, or a
  task between its DELETE and its INSERT, or is `torn`; and unless two tasks
  moved one row, a task in that moment is the only one with the article and
  there is no other row of it.
- `WithinCap` (`CapInv`): the articles out, the tasks that hold a slot and those
  that counted one too many are together covered by the counter and what it has
  lost; an INCR grants a slot only up to the cap. Both inequalities are needed:
  the first bounds what an undo takes away, the second is the cap.

**UrlQueue.** `FetchedOnce` rests on `LockHeld` (unless Redis failed, every drain
at work holds the lock, so there is one) and on `Cooled`: between the gate and
the fetch nobody else stamps the URL. `DoneStaysDone` rests on `RowInv`: at most
one process stands at a row that no sweep has seized from its worker, a listed
row is not done, and who puts a row back, or in, knows its status.
`NotStranded` (`Within`) needs to know where a row is at every statement:
`Waiting` says that a pending row is about to be listed, or listed where no drain
will unlist it without claiming it first, `Held` that a row in processing is
listed, about to be listed or marked, or marked by a run that will not remove
the marker unrecorded. For the first, the date of a listing tells two listings
of a row apart (`Dated`: none is younger than the row says), and the row a
feeder puts in is nobody else's yet (`Unseen`). The parts about one row leave
out those in `lost`, so that nothing depends on which rows those are.

**EditorialRoom.** All the properties of its three runs. A lemma per call of the
store (`MarkCalls`, `RevertCalls`, `PinForCalls`, `InsertCalls`,
`InsertSlotCalls`, `CarryForwardCalls`, `MergeCalls`, ...) says what each
statement of it keeps and what the whole call comes to; one per action says which
call it makes from where.
- `TypeOK`, `SlatesAgree` (`Room`), with failing calls and dying tasks: `Whole`
  (what the tables refer to exists, and the index has one row for an artifact
  and a priority) and `Known` (so does what a task has read; it lasts, because
  artifacts are never removed). `Tidy` is `SlatesAgree` for one state of the
  tables. It is not inductive: a task that places a pick relies on a plan made
  earlier, so `Planned` says that the rest of its plan fits together and next to
  what it has seen of the slate, which is the slate unless it has moved, in
  which case the step is stale. Every statement in the middle of a call keeps
  `Tidy`, which is what makes dying in it harmless.
- `IndexFollows`, `UpdatesKept`, `ToldOnce` (`Exact`), while every call works:
  `Synced` (the index lists what is pending, as it is), `Sole` (an update is
  in one artifact that is not discarded), `Kept` (an update that the cap has
  not taken is held by such an artifact or dropped) and `ToldBy` (a told one
  is in a composed artifact, told once), `Locked` (one task composes an
  artifact, and it is not composed yet). What the cap has taken of a text
  stays taken (`CutFrom`), since discarded texts never change, and `CapLeaves`
  says that all the rest of it goes over into the successor. `ToldOnce` needs
  all five: a supersession that took over the content of a composed artifact
  would have it told again, which `Synced` excludes since only what the index
  lists is superseded.
- `RankingFair`, for any slots, share, priorities and services: `PlanFair` from
  `PlatformFair` and `PicksFair`. The two floors fit into the slots
  (`FloorsFit`), so cutting the chosen ones to n drops none; `Best(rows, n)` has
  n members or all of them and is closed upwards (`BestCount`, `BestRises`);
  what is left after the floors is counted by `JoinCount` and `RestCount`.
- `PinsKept` (`Pinned`), an action property: `HumanPins` (a selected human pick
  is pinned for the day whose slate it is on) and `LeftBehind` (a reclaim is at
  rows of days gone by) make the pin that a reclaim moves one of the past, and
  `Synced` makes the day it moves to one that nobody waits for.

Types are a theorem of every module with a proof module, and an invariant of
the run `editorial`. The safety properties of all runs are theorems. The assumptions are those of the modules: finite sets of
calls, tasks and standing rows, positive limits.

Only model-checked: liveness (`ClaimEnds`, `ChargedIsAnswered`, `WindowRolls`,
`RowsEnd`), which needs `ENABLED`.

## 5. Not modelled

`PROJECT.json` lists every component with its status. Left out of the modelled
ones: preview requests (no state), amounts and currencies (one refund is one
unit), the rollover of the budget at midnight, creation of promo codes, the
admin's listings, the reaper's lock and batch limit, the force-clear of the
compose lock. Not modelled at all: what is input and output only, which is most
of the code by size (prompts and model calls of the writer, its research tools,
parsing of pages, rendering, charts, user interface, scripts), external
services beyond the answers they can give, single-row reads and writes of the
admin, and the components of the plan below.

## 6. Plan

1. `BackupStore`: the reaper's lock and its batch limit; reads, with the
   abstract promise of a paid backup.
2. `EditorialRoom`: an abstract specification of one update (brought, told once
   or dropped) that the room implements, from `Exact`.
3. `AuthSession`: nonce pop and the sliding session, in which a lookup can write
   a revoked session back. Theorem: one login per nonce.
4. `RefundBudget`: `PaidRequest`'s counter over two days and several amounts;
   then the breaker's three steps in `PaidRequest` shown to be implemented by
   `CircuitBreaker`.
5. `ConduitExporter`: replay of a round after a restart.
