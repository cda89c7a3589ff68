----------------------------- MODULE BackupStore -----------------------------
(***************************************************************************)
(* One stored backup (x402_storage): its head row, its version rows, the   *)
(* two expiry projections and the bytes on disk, under the paid and free   *)
(* requests of its owner and the reaper's ticks.  One action per store or  *)
(* connector call that writes, the reads just before it included; time     *)
(* passes in days, and a call takes the day of the step for the one it     *)
(* began on.  The reaper may take the rows of its walk in any order.       *)
(***************************************************************************)
EXTENDS Integers, FiniteSets

CONSTANTS
    Call,          \* requests for this backup
    Creator,       \* the one that creates it
    Reaper,        \* reaper ticks that may overlap; each one comes again
    Term,          \* x402_storage_term_days: what a renewal adds, a caller's most
    MaxRemaining,  \* x402_storage_max_remaining_days
    Grace,         \* x402_storage_reaper_grace_days
    Lookback,      \* x402_storage_reaper_lookback_days
    LastVersion,   \* bound: version numbers
    LastDay        \* bound: days

ASSUME ActorAssumption == Creator \in Call /\ Call \cap Reaper = {}
ASSUME TermAssumption ==
    Term \in Nat \ {0} /\ MaxRemaining \in Nat /\ Term <= MaxRemaining
ASSUME ReaperAssumption == Grace \in Nat /\ Lookback \in Nat
ASSUME BoundAssumption == LastVersion \in Nat \ {0} /\ LastDay \in Nat

VARIABLES
    now,        \* the day
    head,       \* x402_storage_backups: the row of this backup
    headIndex,  \* x402_storage_by_expiry: the expiries it is filed under
    ver,        \* x402_storage_backup_versions
    verIndex,   \* x402_storage_version_by_expiry: <<version, expiry>>
    bytes,      \* the blobs on disk, each named after the request that put it
    pc,         \* pc[c]: the next call of c
    seen,       \* seen[c]: the head as c last read or wrote it
    row,        \* row[c]: the version c is storing, promoting or reaping
    healthy,    \* history: no call has failed and no process has died
    stale       \* history: a call has written after another had changed the
                \* head it had read

rowVars  == <<head, headIndex, ver, verIndex>>
histVars == <<healthy, stale>>
vars == <<now, head, headIndex, ver, verIndex, bytes, pc, seen, row, healthy, stale>>

Actor   == Call \cup Reaper
Version == 1..LastVersion
Status  == {"absent", "active", "deleted"}
Expiry  == 0..(LastDay + MaxRemaining)

PC == {"idle", "create", "createHead", "createVersion", "add", "insert",
       "recover", "promote", "resync", "retire", "retireBytes", "retireIndex",
       "undoBytes", "renew", "renewIndex", "deleteHead", "deleteBytes",
       "cascade", "cascadeBytes", "reapRow", "reapBytes", "done", "failed", "conflict"}

Head == [status : Status, version : Version, expiry : Expiry, blob : Call]

TypeOK ==
    /\ now \in 0..LastDay
    /\ head \in Head
    /\ headIndex \in SUBSET Expiry
    /\ ver \in [Version -> [status : Status, expiry : Expiry, blob : Call]]
    /\ verIndex \in SUBSET (Version \X Expiry)
    /\ bytes \in SUBSET Call
    /\ pc \in [Actor -> PC]
    /\ seen \in [Actor -> Head]
    /\ row \in [Actor -> [version : Version, expiry : Expiry, blob : Call]]
    /\ healthy \in BOOLEAN
    /\ stale \in BOOLEAN

NoHead == [status |-> "absent", version |-> 1, expiry |-> 0, blob |-> Creator]

Init ==
    /\ now = 0
    /\ head = NoHead
    /\ headIndex = {}
    /\ ver = [v \in Version |-> [status |-> "absent", expiry |-> 0, blob |-> Creator]]
    /\ verIndex = {}
    /\ bytes = {}
    /\ pc = [c \in Actor |-> IF c = Creator THEN "create" ELSE "idle"]
    /\ seen = [c \in Actor |-> NoHead]
    /\ row = [c \in Actor |-> [version |-> 1, expiry |-> 0, blob |-> Creator]]
    /\ healthy = TRUE
    /\ stale = FALSE

Goto(c, next) == pc' = [pc EXCEPT ![c] = next]

Works == UNCHANGED healthy
Fails == healthy' = FALSE

\* Where an exception that escapes takes c: an error answer, with a refund if
\* c was paid; the reaper logs it and walks on.
Escape(c) == IF c \in Reaper THEN "idle" ELSE "failed"
Return(c) == IF c \in Reaper THEN "idle" ELSE "done"

\* c writes what follows from the head it has seen.
Overtaken(c) == stale' = (stale \/ head # seen[c])
Overwritten(c, new) == stale' = (stale \/ (head # seen[c] /\ head # new))

-----------------------------------------------------------------------------
(* The store and the connector.  A call that fails has done any part of its *)
(* statements, in their order; a process that dies in one has, too.         *)

\* _sync_expiry_projection, its DELETE: the head is filed anew.
Unfiled(new) ==
    IF head.status = "active" /\ ~(new.status = "active" /\ new.expiry = head.expiry)
    THEN headIndex \ {head.expiry}
    ELSE headIndex

Filed(new) ==
    IF new.status = "active" THEN Unfiled(new) \cup {new.expiry} ELSE Unfiled(new)

\* upsert: the whole row as the caller has it, then the projection.
UpsertHead(c, new, next, otherwise) ==
    /\ \/ head' = new /\ headIndex' = Filed(new) /\ Goto(c, next) /\ Works
       \/ /\ \/ UNCHANGED <<head, headIndex>>
             \/ head' = new /\ headIndex' \in {headIndex, Unfiled(new), Filed(new)}
          /\ Goto(c, otherwise)
          /\ Fails
    /\ seen' = [seen EXCEPT ![c] = new]

\* upsert_version with the row still active, insert_new_version_if_absent when
\* it applies.
InsertRow(c, r, next) ==
    LET new == [ver EXCEPT ![r.version] =
                    [status |-> "active", expiry |-> r.expiry, blob |-> r.blob]]
        filed == verIndex \cup {<<r.version, r.expiry>>}
    IN  \/ ver' = new /\ verIndex' = filed /\ Goto(c, next) /\ Works
        \/ /\ \/ UNCHANGED <<ver, verIndex>>
              \/ ver' = new /\ verIndex' \in {verIndex, filed}
           /\ Goto(c, "failed")
           /\ Fails

\* upsert_version with the row deleted; index is what is left of the
\* projection before it.
DeleteRow(c, v, index, next, otherwise) ==
    LET new == [ver EXCEPT ![v].status = "deleted"]
        dropped == index \ {<<v, ver[v].expiry>>}
    IN  \/ ver' = new /\ verIndex' = dropped /\ Goto(c, next) /\ Works
        \/ /\ \/ ver' = ver /\ verIndex' \in {verIndex, index}
              \/ ver' = new /\ verIndex' \in {index, dropped}
           /\ Goto(c, otherwise)
           /\ Fails

\* resync_current_version_projection.
Moved(v, from, to) ==
    IF from = to THEN verIndex ELSE (verIndex \ {<<v, from>>}) \cup {<<v, to>>}

Resync(c, v, from, to, next, otherwise) ==
    \/ verIndex' = Moved(v, from, to) /\ Goto(c, next) /\ Works
    \/ /\ from # to
       /\ verIndex' \in {verIndex, verIndex \ {<<v, from>>}, Moved(v, from, to)}
       /\ Goto(c, otherwise)
       /\ Fails

\* _delete_connector_bytes: a failure is logged and the call goes on.
Unlink(blob) ==
    \/ bytes' = bytes \ {blob} /\ Works
    \/ bytes' = bytes /\ Fails

-----------------------------------------------------------------------------
(* A request reads the head, passes the payment gate and works on what it  *)
(* has read.                                                               *)

MaxExpiry == now + MaxRemaining

Arrive(c) ==
    /\ pc[c] = "idle" /\ c \in Call
    /\ head.status = "active"
    /\ seen' = [seen EXCEPT ![c] = head]
    /\ \/ head.version < LastVersion /\ Goto(c, "add")
       \/ head.expiry < MaxExpiry /\ Goto(c, "renew")
       \/ Goto(c, "deleteHead")
    /\ UNCHANGED <<now, rowVars, bytes, row, histVars>>

\* _write_bytes and the row the call will store: the version after the one it
\* has seen, kept for as long as the caller chose.
PutBytes(c) ==
    /\ pc[c] \in {"create", "add"}
    /\ bytes' = bytes \cup {c}
    /\ \E days \in 1..Term :
          row' = [row EXCEPT ![c] =
                    [version |-> IF pc[c] = "create" THEN 1 ELSE seen[c].version + 1,
                     expiry  |-> now + days,
                     blob    |-> c]]
    /\ Goto(c, IF pc[c] = "create" THEN "createHead" ELSE "insert")
    /\ UNCHANGED <<now, rowVars, seen, histVars>>

\* The gate, or _write_bytes, refuses, or the process dies there.
Refused(c) ==
    /\ pc[c] \in {"create", "add", "renew"}
    /\ Goto(c, "failed")
    /\ UNCHANGED <<now, rowVars, bytes, seen, row, histVars>>

CreateHead(c) ==
    /\ pc[c] = "createHead"
    /\ UpsertHead(c, [status |-> "active", version |-> 1,
                      expiry |-> row[c].expiry, blob |-> c],
                  "createVersion", "failed")
    /\ Overtaken(c)
    /\ UNCHANGED <<now, ver, verIndex, bytes, row>>

CreateVersion(c) ==
    /\ pc[c] = "createVersion"
    /\ InsertRow(c, row[c], "done")
    /\ Overtaken(c)
    /\ UNCHANGED <<now, head, headIndex, bytes, seen, row>>

-----------------------------------------------------------------------------
(* add_version.                                                            *)

InsertVersion(c) ==
    /\ pc[c] = "insert"
    /\ ver[row[c].version].status = "absent"
    /\ InsertRow(c, row[c], "promote")
    /\ Overtaken(c)
    /\ UNCHANGED <<now, head, headIndex, bytes, seen, row>>

InsertLost(c) ==
    /\ pc[c] = "insert"
    /\ ver[row[c].version].status # "absent"
    /\ \/ Goto(c, "recover") /\ Works
       \/ Goto(c, "failed") /\ Fails
    /\ UNCHANGED <<now, rowVars, bytes, seen, row, stale>>

\* _recover_orphaned_head_if_needed: what is stored under that number is
\* promoted in its writer's stead.
Orphaned(c) == head.version = seen[c].version /\ ver[row[c].version].status = "active"

Recover(c) ==
    /\ pc[c] = "recover"
    /\ \/ /\ Orphaned(c)
          /\ seen' = [seen EXCEPT ![c] = head]
          /\ row' = [row EXCEPT ![c] =
                       [version |-> row[c].version,
                        expiry  |-> ver[row[c].version].expiry,
                        blob    |-> ver[row[c].version].blob]]
          /\ Goto(c, "promote")
          /\ Works
       \/ /\ ~Orphaned(c)
          /\ Goto(c, "undoBytes")
          /\ Works
          /\ UNCHANGED <<seen, row>>
       \/ /\ Goto(c, "undoBytes")
          /\ Fails
          /\ UNCHANGED <<seen, row>>
    /\ UNCHANGED <<now, rowVars, bytes, stale>>

Own(c) == row[c].blob = c
Finish(c) == IF Own(c) THEN "done" ELSE "undoBytes"

\* _finish_promoting_version: the head first; what follows is best effort.
Promoted(c) == [seen[c] EXCEPT !.version = row[c].version, !.blob = row[c].blob]

Promote(c) ==
    /\ pc[c] = "promote"
    /\ UpsertHead(c, Promoted(c), "resync", IF Own(c) THEN "failed" ELSE "undoBytes")
    /\ stale' = (\/ stale
                 \/ head # seen[c] /\ head # Promoted(c)
                 \/ ver[row[c].version].status # "active")
    /\ UNCHANGED <<now, ver, verIndex, bytes, row>>

ResyncNew(c) ==
    /\ pc[c] = "resync"
    /\ Resync(c, row[c].version, row[c].expiry, seen[c].expiry, "retire", Finish(c))
    /\ Overtaken(c)
    /\ UNCHANGED <<now, head, headIndex, ver, bytes, seen, row>>

\* _retire_superseded_version.
Superseded(c) == row[c].version - 1

\* Variant: no grace.
OverdueAtExpiry(v) == ver[v].expiry <= now

\* grace_cutoff_epoch.
Overdue(v) == ver[v].expiry <= now - Grace

RetireSkipped(c) ==
    /\ pc[c] = "retire"
    /\ \/ ver[Superseded(c)].status # "active" /\ Works
       \/ Fails
    /\ Goto(c, Finish(c))
    /\ UNCHANGED <<now, rowVars, bytes, seen, row, stale>>

RetireLater(c) ==
    /\ pc[c] = "retire"
    /\ ver[Superseded(c)].status = "active"
    /\ ~Overdue(Superseded(c))
    /\ Resync(c, Superseded(c), seen[c].expiry, ver[Superseded(c)].expiry,
              Finish(c), Finish(c))
    /\ Overtaken(c)
    /\ UNCHANGED <<now, head, headIndex, ver, bytes, seen, row>>

RetireNow(c) ==
    /\ pc[c] = "retire"
    /\ ver[Superseded(c)].status = "active"
    /\ Overdue(Superseded(c))
    /\ DeleteRow(c, Superseded(c), verIndex, "retireBytes", "retireIndex")
    /\ Overtaken(c)
    /\ UNCHANGED <<now, head, headIndex, bytes, seen, row>>

RetireBytes(c) ==
    /\ pc[c] = "retireBytes"
    /\ Unlink(ver[Superseded(c)].blob)
    /\ Goto(c, "retireIndex")
    /\ Overtaken(c)
    /\ UNCHANGED <<now, rowVars, seen, row>>

RetireIndex(c) ==
    /\ pc[c] = "retireIndex"
    /\ \/ /\ seen[c].expiry # ver[Superseded(c)].expiry
          /\ \/ verIndex' = verIndex \ {<<Superseded(c), seen[c].expiry>>} /\ Works
             \/ verIndex' = verIndex /\ Fails
       \/ /\ seen[c].expiry = ver[Superseded(c)].expiry
          /\ UNCHANGED <<verIndex, healthy>>
    /\ Goto(c, Finish(c))
    /\ Overtaken(c)
    /\ UNCHANGED <<now, head, headIndex, ver, bytes, seen, row>>

\* Variant: the bytes of the row it has promoted.
UndoPromoted(c) ==
    /\ pc[c] = "undoBytes"
    /\ Unlink(row[c].blob)
    /\ Goto(c, "conflict")
    /\ UNCHANGED <<now, rowVars, seen, row, stale>>

\* Variant: only the answer.
UndoNothing(c) ==
    /\ pc[c] = "undoBytes"
    /\ Goto(c, "conflict")
    /\ UNCHANGED <<now, rowVars, bytes, seen, row, histVars>>

\* The loser's own bytes go, and the caller gets a 409.
UndoBytes(c) ==
    /\ pc[c] = "undoBytes"
    /\ Unlink(c)
    /\ Goto(c, "conflict")
    /\ UNCHANGED <<now, rowVars, seen, row, stale>>

-----------------------------------------------------------------------------
(* renew.                                                                  *)

Later(a, b) == IF a > b THEN a ELSE b
Earlier(a, b) == IF a < b THEN a ELSE b

\* compute_expiry_epoch.
Renewed(c) == Earlier(Later(now, seen[c].expiry) + Term, MaxExpiry)

RenewHead(c) ==
    /\ pc[c] = "renew"
    /\ row' = [row EXCEPT ![c].version = seen[c].version, ![c].expiry = seen[c].expiry]
    /\ UpsertHead(c, [seen[c] EXCEPT !.expiry = Renewed(c)], "renewIndex", "failed")
    /\ Overtaken(c)
    /\ UNCHANGED <<now, ver, verIndex, bytes>>

\* Variant: the version stays filed where it was.
RenewHeadOnly(c) ==
    /\ pc[c] = "renewIndex"
    /\ Goto(c, "done")
    /\ UNCHANGED <<now, rowVars, bytes, seen, row, histVars>>

RenewIndex(c) ==
    /\ pc[c] = "renewIndex"
    /\ Resync(c, row[c].version, row[c].expiry, seen[c].expiry, "done", "failed")
    /\ Overtaken(c)
    /\ UNCHANGED <<now, head, headIndex, ver, bytes, seen, row>>

-----------------------------------------------------------------------------
(* delete, for the owner and for the reaper: the head, its bytes, and then *)
(* every version there is, newest first.                                   *)

DeleteHead(c) ==
    /\ pc[c] = "deleteHead"
    /\ UpsertHead(c, [seen[c] EXCEPT !.status = "deleted"], "deleteBytes", Escape(c))
    /\ Overwritten(c, [seen[c] EXCEPT !.status = "deleted"])
    /\ UNCHANGED <<now, ver, verIndex, bytes, row>>

Stored == {v \in Version : ver[v].status # "absent"}
Newest(v) == \A w \in Stored : w <= v

DeleteBytes(c) ==
    /\ pc[c] = "deleteBytes"
    /\ Unlink(seen[c].blob)
    /\ IF Stored = {}
       THEN Goto(c, Return(c)) /\ UNCHANGED row
       ELSE /\ Goto(c, "cascade")
            /\ \E v \in Stored : Newest(v) /\ row' = [row EXCEPT ![c].version = v]
    /\ Overtaken(c)
    /\ UNCHANGED <<now, rowVars, seen>>

\* The version next in the walk, and the same for its bytes.
After(c) == IF row[c].version = 1 THEN Return(c) ELSE "cascade"
Down(c) == row' = [row EXCEPT ![c].version = Later(@ - 1, 1)]

CascadeRow(c) ==
    LET v == row[c].version
        index == IF v = seen[c].version /\ seen[c].expiry # ver[v].expiry
                 THEN verIndex \ {<<v, seen[c].expiry>>}
                 ELSE verIndex
    IN  /\ pc[c] = "cascade"
        /\ ver[v].status = "active"
        /\ DeleteRow(c, v, index, "cascadeBytes", Escape(c))
        /\ Overtaken(c)
        /\ UNCHANGED <<now, head, headIndex, bytes, seen, row>>

CascadeSkips(c) ==
    /\ pc[c] = "cascade"
    /\ ver[row[c].version].status # "active"
    /\ Goto(c, After(c))
    /\ Down(c)
    /\ UNCHANGED <<now, rowVars, bytes, seen, histVars>>

CascadeBytes(c) ==
    /\ pc[c] = "cascadeBytes"
    /\ Unlink(ver[row[c].version].blob)
    /\ Goto(c, After(c))
    /\ Down(c)
    /\ Overtaken(c)
    /\ UNCHANGED <<now, rowVars, seen>>

-----------------------------------------------------------------------------
(* The reaper: it takes what is filed under the last days, and asks the     *)
(* canonical rows before it deletes anything.                              *)

Scanned == (now - Lookback)..now

\* _reap_one.
ReapHead(c) ==
    /\ pc[c] = "idle" /\ c \in Reaper
    /\ \E e \in headIndex \cap Scanned :
          \/ /\ head.status # "active" \/ head.expiry # e
             /\ headIndex' = headIndex \ {e}
             /\ UNCHANGED <<pc, seen>>
          \/ /\ head.status = "active" /\ head.expiry = e
             /\ e <= now - Grace
             /\ seen' = [seen EXCEPT ![c] = head]
             /\ Goto(c, "deleteHead")
             /\ UNCHANGED headIndex
    /\ UNCHANGED <<now, head, ver, verIndex, bytes, row, histVars>>

Current(v) == head.status = "active" /\ head.version = v

\* _reap_one_version.
ReapVersion(c) ==
    /\ pc[c] = "idle" /\ c \in Reaper
    /\ \E entry \in verIndex :
          LET v == entry[1]
              e == entry[2]
              governing == IF Current(v) THEN head.expiry ELSE ver[v].expiry
              misfiled == ver[v].status # "active" \/ governing # e
          IN  /\ e \in Scanned
              /\ \/ /\ misfiled
                    /\ verIndex' = verIndex \ {entry}
                    /\ UNCHANGED <<pc, seen, row>>
                 \/ /\ ~misfiled /\ ~Current(v) /\ Overdue(v)
                    /\ seen' = [seen EXCEPT ![c] = head]
                    /\ row' = [row EXCEPT ![c].version = v]
                    /\ Goto(c, "reapRow")
                    /\ UNCHANGED verIndex
    /\ UNCHANGED <<now, head, headIndex, ver, bytes, histVars>>

\* delete_version.
ReapRow(c) ==
    /\ pc[c] = "reapRow"
    /\ DeleteRow(c, row[c].version, verIndex, "reapBytes", "idle")
    /\ Overtaken(c)
    /\ UNCHANGED <<now, head, headIndex, bytes, seen, row>>

ReapBytes(c) ==
    /\ pc[c] = "reapBytes"
    /\ Unlink(ver[row[c].version].blob)
    /\ Goto(c, "idle")
    /\ Overtaken(c)
    /\ UNCHANGED <<now, rowVars, seen, row>>

-----------------------------------------------------------------------------
(* Time and processes.                                                     *)

Rest == {"idle", "done", "failed", "conflict"}
Gate == {"create", "add", "renew"}

\* A request may wait at the payment gate past midnight; its store calls are
\* far shorter than a day.
Tick ==
    /\ \A c \in Actor : pc[c] \in Rest \cup Gate
    /\ now < LastDay
    /\ now' = now + 1
    /\ UNCHANGED <<rowVars, bytes, pc, seen, row, histVars>>

Crash(c) ==
    /\ pc[c] \notin Rest \cup Gate
    /\ Goto(c, Escape(c))
    /\ Fails
    /\ UNCHANGED <<now, rowVars, bytes, seen, row, stale>>

Step(c) ==
    \/ Arrive(c) \/ PutBytes(c) \/ Refused(c) \/ CreateHead(c) \/ CreateVersion(c)
    \/ InsertVersion(c) \/ InsertLost(c) \/ Recover(c) \/ Promote(c) \/ ResyncNew(c)
    \/ RetireSkipped(c) \/ RetireLater(c) \/ RetireNow(c)
    \/ RetireBytes(c) \/ RetireIndex(c) \/ UndoBytes(c)
    \/ RenewHead(c) \/ RenewIndex(c)
    \/ DeleteHead(c) \/ DeleteBytes(c)
    \/ CascadeRow(c) \/ CascadeSkips(c) \/ CascadeBytes(c)
    \/ ReapHead(c) \/ ReapVersion(c) \/ ReapRow(c) \/ ReapBytes(c)
    \/ Crash(c)

Next == Tick \/ \E c \in Actor : Step(c)

Spec == Init /\ [][Next]_vars

-----------------------------------------------------------------------------
(* Properties.                                                             *)

Resting == \A c \in Actor : pc[c] \in Rest
Held == {v \in Version : ver[v].status = "active"}

\* A backup that is listed can be restored: as long as no call has written on
\* a head it had not read, the bytes of the head and of every version that is
\* still active are on disk, whatever calls fail and whichever processes die
\* (rows are marked before bytes are deleted, and the head is repointed first).
ServedHasBytes ==
    ~stale /\ head.status = "active" =>
        /\ head.blob \in bytes
        /\ \A v \in Held : ver[v].blob \in bytes

\* While every call works, no blob outlives the rows that lead to it: once the
\* requests have ended, what is on disk belongs to an active version of an
\* active head, the bytes of the uploads that lost a race included.
NothingLeaks ==
    healthy /\ ~stale /\ Resting =>
        \A b \in bytes :
            head.status = "active" /\ \E v \in Held : ver[v].blob = b

\* While every call works, the reaper's walk can find everything: the head is
\* filed under its expiry, its current version under the head's expiry, and an
\* older version under its own.
Findable ==
    healthy /\ ~stale /\ Resting /\ head.status = "active" =>
        /\ head.expiry \in headIndex
        /\ \A v \in Held :
              <<v, IF v = head.version THEN head.expiry ELSE ver[v].expiry>> \in verIndex

\* While the backup lives, a version is only taken away once its own term and
\* the grace window after it have passed.
VersionsLiveTheirTerm ==
    ~stale /\ head.status = "active" =>
        \A v \in Version : ver[v].status = "deleted" => ver[v].expiry + Grace <= now

=============================================================================
