--------------------------- MODULE UrlQueueProofs ---------------------------
(***************************************************************************)
(* Theorems about UrlQueue, for any number of URLs, rows, feeders, drains  *)
(* and sweeps, and for any number of deaths and failed calls.              *)
(***************************************************************************)
EXTENDS UrlQueue, SequenceTheorems, TLAPS

Ids    == 1..Len(rows)
PC     == Feeding \cup Draining \cup Sweeping \cup {"idle"}
Job(n) == [row : 0..n, url : Url \cup {Nobody}, approved : BOOLEAN,
           at : Nat, todo : SUBSET RowId]

-----------------------------------------------------------------------------
(* What a statement changes.                                               *)

LEMMA NothingTyped ==
  ASSUME NEW n \in Nat
  PROVE  Nothing \in Job(n) /\ Nothing.row = 0 /\ Nothing.todo = {}
  BY DEF Nothing, Job

LEMMA LenTyped == TypeOK => Len(rows) \in Nat /\ Len(rows) <= MaxRows /\ rows \in Seq(Row)
  BY LenProperties DEF TypeOK

LEMMA JobTyped ==
  TypeOK => /\ pc \in [Process -> PC] /\ job \in [Process -> Job(Len(rows))]
            /\ \A p \in Process : job[p] \in Job(Len(rows))
  BY DEF TypeOK, Job, PC

\* At and Goto change what they say of their process and of no other.
LEMMA AtChanges ==
  ASSUME TypeOK, NEW n \in Nat, Len(rows) <= n, NEW p \in Process, NEW step \in PC,
         NEW task \in Job(n), At(p, step, task)
  PROVE  /\ pc' \in [Process -> PC] /\ job' \in [Process -> Job(n)]
         /\ pc'[p] = step /\ job'[p] = task
         /\ \A o \in Process \ {p} : pc'[o] = pc[o] /\ job'[o] = job[o]
<1>1. \A j \in Job(Len(rows)) : j \in Job(n)
  BY LenTyped DEF Job
<1>2. pc \in [Process -> PC] /\ job \in [Process -> Job(n)]
  BY <1>1, JobTyped
<1> QED BY <1>2 DEF At

LEMMA GotoChanges ==
  ASSUME TypeOK, NEW p \in Process, NEW step \in PC, Goto(p, step)
  PROVE  /\ pc' \in [Process -> PC] /\ job' \in [Process -> Job(Len(rows))]
         /\ pc'[p] = step
         /\ job'[p] = IF step = "idle" THEN Nothing ELSE job[p]
         /\ \A o \in Process \ {p} : pc'[o] = pc[o] /\ job'[o] = job[o]
<1>1. pc \in [Process -> PC] /\ job \in [Process -> Job(Len(rows))]
  BY JobTyped
<1>2. Nothing \in Job(Len(rows))
  BY LenTyped, NothingTyped
<1> QED BY <1>1, <1>2 DEF Goto

\* Changing a row's status, or its date, changes no other row and not their number.
LEMMA RowChanges ==
  ASSUME TypeOK, NEW q \in Ids, NEW row \in Row, rows' = [rows EXCEPT ![q] = row]
  PROVE  /\ rows' \in Seq(Row) /\ Len(rows') = Len(rows)
         /\ \A i \in Ids : rows'[i] = IF i = q THEN row ELSE rows[i]
<1>1. rows \in Seq(Row)
  BY LenTyped
<1> QED BY <1>1, ExceptSeq DEF Ids

LEMMA StatusChanges ==
  ASSUME TypeOK, NEW q \in Ids, NEW st \in {"pending", "processing", "done"},
         SetStatus(q, st)
  PROVE  /\ rows' \in Seq(Row) /\ Len(rows') = Len(rows)
         /\ rows'[q].status = st /\ rows'[q].at = rows[q].at
         /\ \A i \in Ids \ {q} : rows'[i] = rows[i]
<1> DEFINE row == [rows[q] EXCEPT !.status = st]
<1>1. rows[q] \in Row
  BY ElementOfSeq, LenTyped DEF Ids
<1>2. row \in Row /\ row.status = st /\ row.at = rows[q].at
  BY <1>1 DEF Row
<1>3. rows' = [rows EXCEPT ![q] = row]
  BY DEF SetStatus
<1> HIDE DEF row
<1>4. /\ rows' \in Seq(Row) /\ Len(rows') = Len(rows)
      /\ \A i \in Ids : rows'[i] = IF i = q THEN row ELSE rows[i]
  BY <1>2, <1>3, RowChanges
<1> QED BY <1>2, <1>4

LEMMA DateChanges ==
  ASSUME TypeOK, NEW q \in Ids, rows' = [rows EXCEPT ![q].at = @ + 1]
  PROVE  /\ rows' \in Seq(Row) /\ Len(rows') = Len(rows)
         /\ rows'[q].status = rows[q].status /\ rows'[q].at = rows[q].at + 1
         /\ rows[q].at + 1 \in Nat
         /\ \A i \in Ids \ {q} : rows'[i] = rows[i]
<1> DEFINE row == [rows[q] EXCEPT !.at = @ + 1]
<1>1. rows[q] \in Row
  BY ElementOfSeq, LenTyped DEF Ids
<1>2. /\ row \in Row /\ row.status = rows[q].status /\ row.at = rows[q].at + 1
      /\ rows[q].at + 1 \in Nat
  BY <1>1 DEF Row
<1>3. rows' = [rows EXCEPT ![q] = row]
  OBVIOUS
<1> HIDE DEF row
<1>4. /\ rows' \in Seq(Row) /\ Len(rows') = Len(rows)
      /\ \A i \in Ids : rows'[i] = IF i = q THEN row ELSE rows[i]
  BY <1>2, <1>3, RowChanges
<1> QED BY <1>2, <1>4

-----------------------------------------------------------------------------
(* Type correctness.  Whatever names a row names one that exists.          *)

FeederPlaced(f) ==
    /\ pc[f] \in Feeding \cup {"idle"}
    /\ pc[f] # "idle" => job[f].url \in Url
    /\ pc[f] \in {"index", "list"} => job[f].row \in Ids
DrainerPlaced(d) ==
    /\ pc[d] \in Draining \cup {"idle"}
    /\ pc[d] \in AtRow => job[d].row \in Ids /\ job[d].url \in Url
SweeperPlaced(s) ==
    /\ pc[s] \in Sweeping \cup {"idle"}
    /\ pc[s] # "idle" => job[s].todo \subseteq Ids
    /\ pc[s] \in {"reset", "relist", "unmark"} => job[s].row \in Ids

Placed ==
    /\ \A e \in listed : e.row \in Ids
    /\ \A q \in RowId : markers[q] # NoMarker => q \in Ids
    /\ \A f \in Feeder : FeederPlaced(f)
    /\ \A d \in Drainer : DrainerPlaced(d)
    /\ \A s \in Sweeper : SweeperPlaced(s)

Typed == TypeOK /\ Placed

\* A process that has placed itself leaves the others placed.
LEMMA FeederMoves ==
  ASSUME Placed, NEW f \in Feeder, Len(rows) \in Nat, Len(rows') \in Nat, Len(rows) <= Len(rows'),
         \A o \in Process \ {f} : pc'[o] = pc[o] /\ job'[o] = job[o]
  PROVE  /\ \A g \in Feeder \ {f} : FeederPlaced(g)'
         /\ \A d \in Drainer : DrainerPlaced(d)'
         /\ \A s \in Sweeper : SweeperPlaced(s)'
         /\ Ids \subseteq Ids'
<1>1. Ids \subseteq Ids'
  BY DEF Ids
<1> QED BY <1>1, ProcessAssumption DEF Placed, Process, FeederPlaced, DrainerPlaced, SweeperPlaced

LEMMA DrainerMoves ==
  ASSUME Placed, NEW d \in Drainer, Len(rows') = Len(rows),
         \A o \in Process \ {d} : pc'[o] = pc[o] /\ job'[o] = job[o]
  PROVE  /\ \A f \in Feeder : FeederPlaced(f)'
         /\ \A e \in Drainer \ {d} : DrainerPlaced(e)'
         /\ \A s \in Sweeper : SweeperPlaced(s)'
         /\ Ids' = Ids
<1>1. Ids' = Ids
  BY DEF Ids
<1> QED BY <1>1, ProcessAssumption DEF Placed, Process, FeederPlaced, DrainerPlaced, SweeperPlaced

LEMMA SweeperMoves ==
  ASSUME Placed, NEW s \in Sweeper, Len(rows') = Len(rows),
         \A o \in Process \ {s} : pc'[o] = pc[o] /\ job'[o] = job[o]
  PROVE  /\ \A f \in Feeder : FeederPlaced(f)'
         /\ \A d \in Drainer : DrainerPlaced(d)'
         /\ \A o \in Sweeper \ {s} : SweeperPlaced(o)'
         /\ Ids' = Ids
<1>1. Ids' = Ids
  BY DEF Ids
<1> QED BY <1>1, ProcessAssumption DEF Placed, Process, FeederPlaced, DrainerPlaced, SweeperPlaced

LEMMA FeedTyped ==
  ASSUME Typed, NEW f \in Feeder, Feed(f) PROVE Typed'
<1>0. /\ f \in Process /\ Len(rows) \in Nat /\ job[f] \in Job(Len(rows))
      /\ Nothing \in Job(Len(rows)) /\ TypeOK /\ Placed /\ FeederPlaced(f)
      /\ Feeding \subseteq PC /\ "idle" \in PC /\ rows \in Seq(Row)
  BY LenTyped, JobTyped, NothingTyped DEF Typed, Process, Placed, PC
<1> USE <1>0, FeederMoves, BoundAssumption
<1> USE DEF Typed
<1>1. CASE StartEnqueue(f)
  <2> USE <1>1 DEF StartEnqueue, tables, redis, history
  <2>1. PICK u \in Url : At(f, "lookup", [Nothing EXCEPT !.url = u])
    OBVIOUS
  <2> DEFINE task == [Nothing EXCEPT !.url = u]
  <2>2. task \in Job(Len(rows)) /\ task.url = u /\ At(f, "lookup", task)
    BY <2>1 DEF Job
  <2> HIDE DEF task
  <2>3. /\ pc' \in [Process -> PC] /\ job' \in [Process -> Job(Len(rows))]
        /\ pc'[f] = "lookup" /\ job'[f].url = u
        /\ \A o \in Process \ {f} : pc'[o] = pc[o] /\ job'[o] = job[o]
    BY <2>2, AtChanges DEF Feeding
  <2>4. failures' \in 0..MaxFailures
    BY DEF TypeOK, Fails, Works
  <2>5. TypeOK'
    BY <2>3, <2>4 DEF TypeOK, PC, Job
  <2>6. Placed'
    BY <2>3 DEF Placed, FeederPlaced, Feeding, Ids
  <2> QED BY <2>5, <2>6
<1>2. CASE StartSeed(f)
  <2> USE <1>2 DEF StartSeed, tables, redis, history
  <2>1. PICK u \in Url : At(f, "insert", [Nothing EXCEPT !.url = u, !.approved = TRUE])
    OBVIOUS
  <2>2. [Nothing EXCEPT !.url = u] \in Job(Len(rows)) /\ [Nothing EXCEPT !.url = u].url = u
    BY DEF Job
  <2> DEFINE task == [Nothing EXCEPT !.url = u, !.approved = TRUE]
  <2>3. task \in Job(Len(rows)) /\ task.url = u /\ At(f, "insert", task)
    BY <2>1, <2>2 DEF Job
  <2> HIDE DEF task
  <2>4. /\ pc' \in [Process -> PC] /\ job' \in [Process -> Job(Len(rows))]
        /\ pc'[f] = "insert" /\ job'[f].url = u
        /\ \A o \in Process \ {f} : pc'[o] = pc[o] /\ job'[o] = job[o]
    BY <2>3, AtChanges DEF Feeding
  <2>5. TypeOK'
    BY <2>4 DEF TypeOK, PC, Job
  <2>6. Placed'
    BY <2>4 DEF Placed, FeederPlaced, Feeding, Ids
  <2> QED BY <2>5, <2>6
<1>3. CASE Lookup(f)
  <2> USE <1>3 DEF Lookup, tables, redis, history
  <2>1. PICK step \in {"idle", "insert"} : Goto(f, step)
    OBVIOUS
  <2>2. /\ pc' \in [Process -> PC] /\ job' \in [Process -> Job(Len(rows))]
        /\ pc'[f] = step /\ (step # "idle" => job'[f] = job[f])
        /\ \A o \in Process \ {f} : pc'[o] = pc[o] /\ job'[o] = job[o]
    BY <2>1, GotoChanges DEF Feeding
  <2>3. TypeOK'
    BY <2>2 DEF TypeOK, PC, Job
  <2>4. Placed'
    BY <2>2 DEF Placed, FeederPlaced, Feeding, Ids
  <2> QED BY <2>3, <2>4
<1>4. CASE InsertRow(f)
  <2> USE <1>4 DEF InsertRow, redis, history
  <2> DEFINE row == [url |-> job[f].url, status |-> "pending",
                     approved |-> job[f].approved, at |-> 0]
             n == Len(rows) + 1
             task == [job[f] EXCEPT !.row = n]
  <2>1. row \in Row /\ n \in Nat /\ n <= MaxRows
    BY DEF FeederPlaced, Row, Job
  <2>2. rows' = Append(rows, row)
    OBVIOUS
  <2> HIDE DEF row
  <2>3. rows' \in Seq(Row) /\ Len(rows') = n
    BY <2>1, <2>2, AppendProperties
  <2>4. task \in Job(n) /\ task.row = n /\ task.url = job[f].url
    <3>1. job[f] \in Job(n)
      BY DEF Job
    <3> HIDE DEF n
    <3> QED BY <2>1, <3>1 DEF Job
  <2>5. At(f, "index", task)
    OBVIOUS
  <2> HIDE DEF task
  <2>6. /\ pc' \in [Process -> PC] /\ job' \in [Process -> Job(n)]
        /\ pc'[f] = "index" /\ job'[f] = task
        /\ \A o \in Process \ {f} : pc'[o] = pc[o] /\ job'[o] = job[o]
    BY <2>1, <2>4, <2>5, AtChanges DEF Feeding
  <2>7. byUrl' \in [Url -> 0..n]
    BY DEF TypeOK
  <2>8. job' \in [Process -> [row : 0..n, url : Url \cup {Nobody}, approved : BOOLEAN,
                              at : Nat, todo : SUBSET RowId]]
    BY <2>6 DEF Job
  <2>9. TypeOK'
    BY <2>1, <2>3, <2>6, <2>7, <2>8 DEF TypeOK, PC
  <2>10. FeederPlaced(f)'
    BY <2>3, <2>4, <2>6 DEF FeederPlaced, Feeding, Ids
  <2>11. Ids \subseteq Ids' /\ \A g \in Feeder : FeederPlaced(g)'
    BY <2>3, <2>6, <2>10
  <2>12. Placed'
    BY <2>3, <2>6, <2>11 DEF Placed
  <2> QED BY <2>9, <2>12
<1>5. CASE InsertByUrl(f)
  <2> USE <1>5 DEF InsertByUrl, redis, history
  <2>1. /\ pc' \in [Process -> PC] /\ job' \in [Process -> Job(Len(rows))]
        /\ pc'[f] = "list" /\ job'[f] = job[f]
        /\ \A o \in Process \ {f} : pc'[o] = pc[o] /\ job'[o] = job[o]
    BY GotoChanges DEF Feeding
  <2>2. byUrl' \in [Url -> 0..Len(rows)]
    BY DEF TypeOK, FeederPlaced, Ids
  <2>3. TypeOK'
    BY <2>1, <2>2 DEF TypeOK, PC, Job
  <2>4. Placed'
    BY <2>1 DEF Placed, FeederPlaced, Feeding, Ids
  <2> QED BY <2>3, <2>4
<1>6. CASE InsertPending(f)
  <2> USE <1>6 DEF InsertPending, redis, history
  <2>1. /\ pc' \in [Process -> PC] /\ job' \in [Process -> Job(Len(rows))]
        /\ pc'[f] = "idle"
        /\ \A o \in Process \ {f} : pc'[o] = pc[o] /\ job'[o] = job[o]
    BY GotoChanges
  <2>2. job[f].row \in Ids /\ job[f].row \in RowId
    BY LenTyped DEF FeederPlaced, Ids, RowId
  <2>3. listed' \subseteq Entry /\ \A e \in listed' : e.row \in Ids
    BY <2>2 DEF TypeOK, Placed, Entry
  <2>4. TypeOK'
    BY <2>1, <2>3 DEF TypeOK, PC, Job
  <2>5. Placed'
    BY <2>1, <2>3 DEF Placed, FeederPlaced, Feeding, Ids
  <2> QED BY <2>4, <2>5
<1> QED BY <1>1, <1>2, <1>3, <1>4, <1>5, <1>6 DEF Feed

\* A step of a drain: it changes the status of rows and takes them off the index.
LEMMA DrainStepTyped ==
  ASSUME Typed, NEW d \in Drainer,
         pc' \in [Process -> PC], job' \in [Process -> Job(Len(rows))],
         \A o \in Process \ {d} : pc'[o] = pc[o] /\ job'[o] = job[o],
         DrainerPlaced(d)',
         rows' \in Seq(Row), Len(rows') = Len(rows),
         UNCHANGED <<byUrl, deaths, seized>>,
         listed' \subseteq listed,
         markers' \in [RowId -> Marker \cup {NoMarker}],
         \A q \in RowId : markers'[q] # NoMarker => q \in Ids,
         cooling' \subseteq Url, lock' \in Drainer \cup {Nobody, Killed},
         failures' \in 0..MaxFailures, fetched' \in [Url -> Nat], slipped' \subseteq Url,
         unlocked' \in BOOLEAN, lost' \subseteq RowId
  PROVE  Typed'
<1>1. TypeOK'
  BY DEF Typed, TypeOK, PC, Job
<1>2. Placed'
  BY DrainerMoves DEF Typed, Placed
<1> QED BY <1>1, <1>2 DEF Typed

LEMMA DrainTyped ==
  ASSUME Typed, NEW d \in Drainer, Drain(d) PROVE Typed'
<1>0. /\ d \in Process /\ Len(rows) \in Nat /\ job[d] \in Job(Len(rows))
      /\ Nothing \in Job(Len(rows)) /\ TypeOK /\ Placed /\ DrainerPlaced(d)
      /\ Draining \subseteq PC /\ "idle" \in PC /\ rows \in Seq(Row)
  BY LenTyped, JobTyped, NothingTyped DEF Typed, Process, Placed, PC
<1>i. Ids \subseteq RowId /\ Ids \subseteq 0..Len(rows)
  BY LenTyped, BoundAssumption, <1>0 DEF Ids, RowId
<1> USE <1>0, <1>i
<1> DEFINE Moves(step) ==
             /\ pc' \in [Process -> PC] /\ job' \in [Process -> Job(Len(rows))]
             /\ pc'[d] = step
             /\ \A o \in Process \ {d} : pc'[o] = pc[o] /\ job'[o] = job[o]
           Onwards(step) == Moves(step) /\ job'[d] = job[d]
<1>a. ASSUME NEW step \in Draining \cup {"idle"}, Goto(d, step) PROVE Moves(step)
  BY <1>a, GotoChanges
<1>b. ASSUME NEW step \in Draining, Goto(d, step) PROVE Onwards(step)
  <2>1. step # "idle"
    BY DEF Draining, AtRow
  <2> QED BY <2>1, <1>b, GotoChanges
<1>c. ASSUME NEW step \in Draining, NEW task \in Job(Len(rows)), At(d, step, task)
      PROVE  Moves(step) /\ job'[d] = task
  BY <1>c, AtChanges
<1>d. /\ listed \subseteq Entry /\ markers \in [RowId -> Marker \cup {NoMarker}]
      /\ \A q \in RowId : markers[q] # NoMarker => q \in Ids
      /\ cooling \subseteq Url /\ lock \in Drainer \cup {Nobody, Killed}
      /\ failures \in 0..MaxFailures /\ fetched \in [Url -> Nat] /\ slipped \subseteq Url
      /\ unlocked \in BOOLEAN /\ lost \subseteq RowId
      /\ (Fails \/ Works => failures' \in 0..MaxFailures)
  BY BoundAssumption DEF TypeOK, Placed, Fails, Works
<1>e. pc[d] \in AtRow => job[d].row \in Ids /\ job[d].url \in Url
  BY DEF DrainerPlaced
<1> HIDE DEF Moves, Onwards
<1>1. CASE StartDrain(d)
  <2> USE <1>1 DEF StartDrain, tables
  <2>1. Moves("peek")
    BY <1>a DEF Draining
  <2>2. DrainerPlaced(d)'
    BY <2>1 DEF Moves, DrainerPlaced, Draining, AtRow
  <2> QED BY <1>d, <2>1, <2>2, DrainStepTyped DEF Moves
<1>2. CASE Peek(d)
  <2> USE <1>2 DEF Peek, tables, redis, history
  <2>1. CASE listed = {} /\ Goto(d, "release")
    <3>1. Moves("release")
      BY <2>1, <1>a DEF Draining
    <3>2. DrainerPlaced(d)'
      BY <3>1 DEF Moves, DrainerPlaced, Draining, AtRow
    <3> QED BY <1>d, <3>1, <3>2, DrainStepTyped DEF Moves
  <2>2. CASE ~(listed = {} /\ Goto(d, "release"))
    <3>1. PICK e \in listed :
            At(d, "claim", [Nothing EXCEPT !.row = e.row, !.at = e.at, !.url = rows[e.row].url,
                                           !.approved = rows[e.row].approved])
      BY <2>2
    <3>2. e.row \in Ids /\ e.at \in Nat /\ rows[e.row] \in Row
      BY <1>d, ElementOfSeq DEF Placed, Entry, Ids
    <3> DEFINE task == [Nothing EXCEPT !.row = e.row, !.at = e.at, !.url = rows[e.row].url,
                                       !.approved = rows[e.row].approved]
    <3>3. task \in Job(Len(rows)) /\ task.row = e.row /\ task.url = rows[e.row].url
      <4>0. e.row \in 0..Len(rows)
        BY <3>2
      <4>1. [Nothing EXCEPT !.row = e.row] \in Job(Len(rows))
        BY <4>0 DEF Job
      <4>2. [Nothing EXCEPT !.row = e.row, !.at = e.at] \in Job(Len(rows))
        BY <3>2, <4>1 DEF Job
      <4>3. [Nothing EXCEPT !.row = e.row, !.at = e.at, !.url = rows[e.row].url] \in Job(Len(rows))
        BY <3>2, <4>2 DEF Job, Row
      <4> QED BY <3>2, <4>3 DEF Job, Row
    <3>4. At(d, "claim", task)
      BY <3>1
    <3> HIDE DEF task
    <3>5. Moves("claim") /\ job'[d] = task
      BY <3>3, <3>4, <1>c DEF Draining, AtRow
    <3>6. DrainerPlaced(d)'
      BY <3>2, <3>3, <3>5 DEF Moves, DrainerPlaced, Draining, AtRow, Ids, Row
    <3> QED BY <1>d, <3>5, <3>6, DrainStepTyped DEF Moves
  <2> QED BY <2>1, <2>2
<1>3. CASE Claim(d)
  <2> USE <1>3 DEF Claim, redis, history
  <2>1. Onwards("unlist")
    BY <1>b DEF Draining, AtRow
  <2>2. rows' \in Seq(Row) /\ Len(rows') = Len(rows)
    BY <1>e, StatusChanges DEF AtRow
  <2>3. DrainerPlaced(d)'
    BY <1>e, <2>1, <2>2 DEF Onwards, Moves, DrainerPlaced, Draining, AtRow, Ids
  <2> QED BY <1>d, <2>1, <2>2, <2>3, DrainStepTyped DEF Onwards, Moves
<1>4. CASE Unlist(d)
  <2> USE <1>4 DEF Unlist, redis, history
  <2>1. Onwards("mark")
    BY <1>b DEF Draining, AtRow
  <2>2. DrainerPlaced(d)'
    BY <1>e, <2>1 DEF Onwards, Moves, DrainerPlaced, Draining, AtRow, Ids
  <2> QED BY <1>d, <2>1, <2>2, DrainStepTyped DEF Onwards, Moves
<1>5. CASE MarkStarted(d)
  <2> USE <1>5 DEF MarkStarted, tables
  <2>1. Onwards("gate")
    BY <1>b DEF Draining, AtRow
  <2>2. DrainerPlaced(d)'
    BY <1>e, <2>1 DEF Onwards, Moves, DrainerPlaced, Draining, AtRow, Ids
  <2>3. job[d].row \in Ids
    BY <1>e DEF AtRow
  <2>4. /\ markers' \in [RowId -> Marker \cup {NoMarker}] /\ lost' \subseteq RowId
        /\ \A q \in RowId : markers'[q] # NoMarker => q \in Ids
    <3>1. [by |-> d, stale |-> FALSE] \in Marker
      BY DEF Marker
    <3>2. /\ markers' \in {markers, [markers EXCEPT ![job[d].row] = [by |-> d, stale |-> FALSE]]}
          /\ lost' \in {lost, lost \cup {job[d].row}}
      OBVIOUS
    <3> QED BY <1>d, <2>3, <3>1, <3>2
  <2> QED BY <1>d, <2>1, <2>2, <2>4, DrainStepTyped DEF Onwards, Moves
<1>6. CASE Gate(d)
  <2> USE <1>6 DEF Gate, tables, redis
  <2>1. PICK step \in {"close", "stamp"} : Goto(d, step)
    OBVIOUS
  <2>2. Onwards(step)
    BY <2>1, <1>b DEF Draining, AtRow
  <2>3. DrainerPlaced(d)'
    BY <1>e, <2>2 DEF Onwards, Moves, DrainerPlaced, Draining, AtRow, Ids
  <2>4. slipped' \subseteq Url /\ failures' \in 0..MaxFailures
    BY <1>d, <1>e DEF AtRow
  <2> QED BY <1>d, <2>2, <2>3, <2>4, DrainStepTyped DEF Onwards, Moves
<1>7. CASE Stamp(d)
  <2> USE <1>7 DEF Stamp, tables
  <2>1. Onwards("fetch")
    BY <1>b DEF Draining, AtRow
  <2>2. DrainerPlaced(d)'
    BY <1>e, <2>1 DEF Onwards, Moves, DrainerPlaced, Draining, AtRow, Ids
  <2>3. cooling' \subseteq Url /\ slipped' \subseteq Url /\ failures' \in 0..MaxFailures
    BY <1>d, <1>e DEF AtRow
  <2> QED BY <1>d, <2>1, <2>2, <2>3, DrainStepTyped DEF Onwards, Moves
<1>8. CASE Fetch(d)
  <2> USE <1>8 DEF Fetch, tables, redis
  <2>1. Onwards("close")
    BY <1>b DEF Draining, AtRow
  <2>2. DrainerPlaced(d)'
    BY <1>e, <2>1 DEF Onwards, Moves, DrainerPlaced, Draining, AtRow, Ids
  <2>3. fetched' \in [Url -> Nat]
    BY <1>d, <1>e DEF AtRow
  <2> QED BY <1>d, <2>1, <2>2, <2>3, DrainStepTyped DEF Onwards, Moves
<1>9. CASE Close(d)
  <2> USE <1>9 DEF Close, redis, history
  <2>1. Onwards("clear")
    BY <1>b DEF Draining, AtRow
  <2>2. rows' \in Seq(Row) /\ Len(rows') = Len(rows)
    BY <1>e, StatusChanges DEF AtRow
  <2>3. DrainerPlaced(d)'
    BY <1>e, <2>1, <2>2 DEF Onwards, Moves, DrainerPlaced, Draining, AtRow, Ids
  <2> QED BY <1>d, <2>1, <2>2, <2>3, DrainStepTyped DEF Onwards, Moves
<1>10. CASE ClearStarted(d)
  <2> USE <1>10 DEF ClearStarted, tables
  <2>1. PICK step \in {"peek", "release"} : At(d, step, Nothing)
    OBVIOUS
  <2>2. Moves(step)
    BY <2>1, <1>c DEF Draining
  <2>3. DrainerPlaced(d)'
    BY <2>2 DEF Moves, DrainerPlaced, Draining, AtRow
  <2>4. /\ markers' \in [RowId -> Marker \cup {NoMarker}] /\ lost' \subseteq RowId
        /\ \A q \in RowId : markers'[q] # NoMarker => q \in Ids
    BY <1>d, <1>e DEF Unmarked, AtRow
  <2> QED BY <1>d, <2>2, <2>3, <2>4, DrainStepTyped DEF Moves
<1>11. CASE Release(d)
  <2> USE <1>11 DEF Release, tables, history
  <2>1. Moves("idle")
    BY <1>a
  <2>2. DrainerPlaced(d)'
    BY <2>1 DEF Moves, DrainerPlaced, Draining, AtRow
  <2>3. lock' \in Drainer \cup {Nobody, Killed}
    BY <1>d DEF Unlock
  <2> QED BY <1>d, <2>1, <2>2, <2>3, DrainStepTyped DEF Moves
<1> QED BY <1>1, <1>2, <1>3, <1>4, <1>5, <1>6, <1>7, <1>8, <1>9, <1>10, <1>11 DEF Drain

LEMMA SweepTyped ==
  ASSUME Typed, NEW s \in Sweeper, Sweep(s) PROVE Typed'
<1>0. /\ s \in Process /\ Len(rows) \in Nat /\ job[s] \in Job(Len(rows))
      /\ Nothing \in Job(Len(rows)) /\ TypeOK /\ Placed /\ SweeperPlaced(s)
      /\ Sweeping \subseteq PC /\ "idle" \in PC /\ rows \in Seq(Row)
  BY LenTyped, JobTyped, NothingTyped DEF Typed, Process, Placed, PC
<1>i. Ids \subseteq RowId /\ Ids \subseteq 0..Len(rows)
  BY LenTyped, BoundAssumption, <1>0 DEF Ids, RowId
<1> USE <1>0, <1>i
<1> DEFINE Others == \A o \in Process \ {s} : pc'[o] = pc[o] /\ job'[o] = job[o]
           Moves(step) ==
             /\ pc' \in [Process -> PC] /\ job' \in [Process -> Job(Len(rows))]
             /\ pc'[s] = step /\ Others
<1>a. ASSUME NEW step \in Sweeping \cup {"idle"}, Goto(s, step)
      PROVE  Moves(step) /\ (step # "idle" => job'[s] = job[s])
  BY <1>a, GotoChanges
<1>b. ASSUME NEW step \in Sweeping, NEW task \in Job(Len(rows)), At(s, step, task)
      PROVE  Moves(step) /\ job'[s] = task
  BY <1>b, AtChanges
<1>c. ASSUME NEW step, Moves(step), SweeperPlaced(s)',
             rows' \in Seq(Row), Len(rows') = Len(rows),
             UNCHANGED <<byUrl, cooling, lock, deaths, fetched, slipped, unlocked>>,
             listed' \subseteq Entry, \A e \in listed' : e.row \in Ids,
             markers' \in [RowId -> Marker \cup {NoMarker}],
             \A q \in RowId : markers'[q] # NoMarker => q \in Ids,
             failures' \in 0..MaxFailures, lost' \subseteq RowId, seized' \subseteq RowId
      PROVE  Typed'
  <2>1. TypeOK'
    BY <1>c DEF TypeOK, PC, Job
  <2>2. Placed'
    BY <1>c, SweeperMoves DEF Placed
  <2> QED BY <2>1, <2>2 DEF Typed
<1>d. /\ listed \subseteq Entry /\ markers \in [RowId -> Marker \cup {NoMarker}]
      /\ \A e \in listed : e.row \in Ids
      /\ \A q \in RowId : markers[q] # NoMarker => q \in Ids
      /\ failures \in 0..MaxFailures /\ lost \subseteq RowId /\ seized \subseteq RowId
      /\ (Fails \/ Works => failures' \in 0..MaxFailures)
  BY BoundAssumption DEF TypeOK, Placed, Fails, Works
<1>e. /\ pc[s] # "idle" => job[s].todo \subseteq Ids
      /\ pc[s] \in {"reset", "relist", "unmark"} => job[s].row \in Ids
  BY DEF SweeperPlaced
<1> HIDE DEF Moves, Others
<1>1. CASE StartSweep(s)
  <2> USE <1>1 DEF StartSweep, tables, redis, history
  <2> DEFINE old == {q \in RowId : markers[q].stale}
             task == [Nothing EXCEPT !.todo = old]
  <2>1. old \subseteq Ids
    BY <1>d DEF NoMarker
  <2>2. At(s, "recheck", task)
    OBVIOUS
  <2> HIDE DEF old
  <2>3. task \in Job(Len(rows)) /\ task.todo = old
    BY <2>1 DEF Job
  <2> HIDE DEF task
  <2>4. Moves("recheck") /\ job'[s] = task
    BY <2>2, <2>3, <1>b DEF Sweeping
  <2>5. SweeperPlaced(s)'
    BY <2>1, <2>3, <2>4 DEF Moves, SweeperPlaced, Sweeping, Ids
  <2> QED BY <1>c, <1>d, <2>4, <2>5
<1>2. CASE Recheck(s)
  <2> USE <1>2 DEF Recheck, tables, redis
  <2>1. PICK q \in job[s].todo, step \in {"reset", "unmark"} : Chosen(s, q, step)
    OBVIOUS
  <2> DEFINE todo == job[s].todo \ {q}
             task == [job[s] EXCEPT !.row = q, !.todo = todo]
  <2>2. q \in Ids /\ todo \subseteq Ids /\ At(s, step, task) /\ seized' \subseteq RowId
    <3>1. At(s, step, task)
      BY <2>1 DEF Chosen
    <3>2. job[s].todo \subseteq Ids
      BY <1>e
    <3>3. seized' \subseteq seized \cup job[s].todo
      OBVIOUS
    <3> QED BY <1>d, <2>1, <3>1, <3>2, <3>3
  <2> HIDE DEF todo
  <2>3. task \in Job(Len(rows)) /\ task.todo = todo /\ task.row = q
    BY <2>2 DEF Job
  <2> HIDE DEF task
  <2>4. Moves(step) /\ job'[s] = task
    BY <2>2, <2>3, <1>b DEF Sweeping
  <2>5. SweeperPlaced(s)'
    BY <2>2, <2>3, <2>4 DEF Moves, SweeperPlaced, Sweeping, Ids
  <2> QED BY <1>c, <1>d, <2>2, <2>4, <2>5
<1>3. CASE Reset(s)
  <2> USE <1>3 DEF Reset, redis, history
  <2>1. Moves("relist") /\ job'[s] = job[s]
    BY <1>a DEF Sweeping
  <2>2. rows' \in Seq(Row) /\ Len(rows') = Len(rows)
    BY <1>e, StatusChanges
  <2>3. SweeperPlaced(s)'
    BY <1>e, <2>1, <2>2 DEF Moves, SweeperPlaced, Sweeping, Ids
  <2> QED BY <1>c, <1>d, <2>1, <2>2, <2>3
<1>4. CASE Relist(s)
  <2> USE <1>4 DEF Relist, redis, history
  <2> DEFINE q == job[s].row
  <2>1. Moves("unmark") /\ job'[s] = job[s]
    BY <1>a DEF Sweeping
  <2>2. q \in Ids
    BY <1>e
  <2>3. rows' = [rows EXCEPT ![q].at = @ + 1]
    OBVIOUS
  <2> HIDE DEF q
  <2>4. rows' \in Seq(Row) /\ Len(rows') = Len(rows) /\ rows[q].at + 1 \in Nat
    BY <2>2, <2>3, DateChanges
  <2>5. SweeperPlaced(s)'
    BY <1>e, <2>1, <2>4 DEF Moves, SweeperPlaced, Sweeping, Ids
  <2>6. listed' \subseteq Entry /\ \A e \in listed' : e.row \in Ids
    BY <1>d, <2>2, <2>4 DEF Entry, q
  <2> QED BY <1>c, <1>d, <2>1, <2>4, <2>5, <2>6
<1>5. CASE Unmark(s)
  <2> USE <1>5 DEF Unmark, tables
  <2>1. /\ markers' \in [RowId -> Marker \cup {NoMarker}] /\ lost' \subseteq RowId
        /\ \A q \in RowId : markers'[q] # NoMarker => q \in Ids
    BY <1>d, <1>e DEF Unmarked
  <2>2. CASE job[s].todo = {}
    <3>1. Moves("idle")
      BY <2>2, <1>a DEF Onward
    <3>2. SweeperPlaced(s)'
      BY <3>1 DEF Moves, SweeperPlaced
    <3> QED BY <1>c, <1>d, <2>1, <3>1, <3>2
  <2>3. CASE job[s].todo # {}
    <3> DEFINE task == [job[s] EXCEPT !.row = 0]
    <3>1. At(s, "recheck", task)
      BY <2>3 DEF Onward
    <3>2. task \in Job(Len(rows)) /\ task.todo = job[s].todo
      BY DEF Job
    <3> HIDE DEF task
    <3>3. Moves("recheck") /\ job'[s] = task
      BY <3>1, <3>2, <1>b DEF Sweeping
    <3>4. SweeperPlaced(s)'
      BY <1>e, <3>2, <3>3 DEF Moves, SweeperPlaced, Sweeping, Ids
    <3> QED BY <1>c, <1>d, <2>1, <3>3, <3>4
  <2> QED BY <2>2, <2>3
<1> QED BY <1>1, <1>2, <1>3, <1>4, <1>5 DEF Sweep

LEMMA OtherTyped ==
  ASSUME Typed, \/ \E q \in RowId : Age(q)
                \/ \E u \in Url : Lapse(u)
                \/ Expire
                \/ \E p \in Process : Dies(p)
                \/ UNCHANGED vars
  PROVE  Typed'
<1> USE DEF Typed
<1>1. ASSUME NEW q \in RowId, Age(q) PROVE Typed'
  <2> USE <1>1 DEF Age, tables, history
  <2>1. /\ markers' \in [RowId -> Marker \cup {NoMarker}] /\ failures' \in 0..MaxFailures
        /\ \A o \in RowId : markers'[o] # NoMarker => o \in Ids
    <3>1. failures' \in 0..MaxFailures
      BY BoundAssumption DEF TypeOK, Fails, Works
    <3>2. markers \in [RowId -> Marker \cup {NoMarker}] /\ markers[q] # NoMarker
      BY DEF TypeOK
    <3> DEFINE old == [markers[q] EXCEPT !.stale = TRUE]
    <3>3. old \in Marker
      BY <3>2 DEF Marker
    <3>4. markers' = [markers EXCEPT ![q] = old]
      OBVIOUS
    <3> HIDE DEF old
    <3>5. q \in Ids /\ \A o \in RowId : markers[o] # NoMarker => o \in Ids
      BY <3>2 DEF Placed
    <3> QED BY <3>1, <3>2, <3>3, <3>4, <3>5
  <2>2. TypeOK'
    BY <2>1 DEF TypeOK
  <2>3. Placed'
    BY <2>1 DEF Placed, FeederPlaced, DrainerPlaced, SweeperPlaced, Ids
  <2> QED BY <2>2, <2>3
<1>2. ASSUME NEW u \in Url, Lapse(u) PROVE Typed'
  BY <1>2 DEF Lapse, tables, TypeOK, Placed, FeederPlaced, DrainerPlaced, SweeperPlaced, Ids
<1>3. ASSUME Expire PROVE Typed'
  BY <1>3 DEF Expire, tables, history, TypeOK, Placed, FeederPlaced, DrainerPlaced, SweeperPlaced, Ids
<1>4. ASSUME NEW p \in Process, Dies(p) PROVE Typed'
  <2> USE <1>4 DEF Dies, tables
  <2>1. Goto(p, "idle") /\ "idle" \in PC /\ Len(rows) \in Nat
    BY LenTyped DEF PC
  <2>2. /\ pc' \in [Process -> PC] /\ job' \in [Process -> Job(Len(rows))]
        /\ pc'[p] = "idle"
        /\ \A o \in Process \ {p} : pc'[o] = pc[o] /\ job'[o] = job[o]
    BY <2>1, GotoChanges
  <2>3. job[p].row \in RowId \/ ~Gap(p)
    <3>1. p \in Feeder => (pc[p] \in {"index", "list"} => job[p].row \in Ids)
      BY DEF Placed, FeederPlaced
    <3>2. p \in Drainer => (pc[p] \in AtRow => job[p].row \in Ids)
      BY DEF Placed, DrainerPlaced
    <3>3. p \in Sweeper => (pc[p] \in {"reset", "relist", "unmark"} => job[p].row \in Ids)
      BY DEF Placed, SweeperPlaced
    <3>4. /\ p \in Feeder => pc[p] \in Feeding \cup {"idle"}
          /\ p \in Drainer => pc[p] \in Draining \cup {"idle"}
          /\ p \in Sweeper => pc[p] \in Sweeping \cup {"idle"}
      BY DEF Placed, FeederPlaced, DrainerPlaced, SweeperPlaced
    <3>5. Gap(p) => job[p].row \in Ids
      BY <3>1, <3>2, <3>3, <3>4 DEF Gap, AtRow, Feeding, Draining, Sweeping, Process
    <3>6. Ids \subseteq RowId
      BY LenTyped, BoundAssumption DEF Ids, RowId
    <3> QED BY <3>5, <3>6
  <2>4. lost' \subseteq RowId /\ lock' \in Drainer \cup {Nobody, Killed} /\ deaths' \in 0..MaxDeaths
    BY <2>3, BoundAssumption DEF TypeOK
  <2>5. TypeOK'
    BY <2>2, <2>4 DEF TypeOK, PC, Job
  <2>6. Placed'
    BY <2>2 DEF Placed, FeederPlaced, DrainerPlaced, SweeperPlaced, Ids, Process, AtRow
  <2> QED BY <2>5, <2>6
<1>5. ASSUME UNCHANGED vars PROVE Typed'
  BY <1>5 DEF vars, TypeOK, Placed, FeederPlaced, DrainerPlaced, SweeperPlaced, Ids
<1> QED BY <1>1, <1>2, <1>3, <1>4, <1>5

\* Every variable keeps its type, and no process, index or marker names a row
\* that does not exist.
THEOREM TypeCorrect == Spec => []Typed
<1>1. Init => Typed
  <2> SUFFICES ASSUME Init PROVE Typed
    OBVIOUS
  <2>1. Nothing \in Job(0) /\ Len(rows) = 0 /\ rows \in Seq(Row)
    BY NothingTyped, EmptySeq DEF Init
  <2>2. TypeOK
    <3>1. pc \in [Process -> PC] /\ job \in [Process -> Job(Len(rows))]
      BY <2>1 DEF Init, PC
    <3>2. Len(rows) <= MaxRows /\ byUrl \in [Url -> 0..Len(rows)]
      BY <2>1, BoundAssumption DEF Init
    <3>3. deaths \in 0..MaxDeaths /\ failures \in 0..MaxFailures
      BY BoundAssumption DEF Init
    <3> QED BY <2>1, <3>1, <3>2, <3>3 DEF Init, TypeOK, PC, Job
  <2>3. Placed
    BY DEF Init, Placed, FeederPlaced, DrainerPlaced, SweeperPlaced, Process, AtRow
  <2> QED BY <2>2, <2>3 DEF Typed
<1>2. Typed /\ [Next]_vars => Typed'
  BY FeedTyped, DrainTyped, SweepTyped, OtherTyped DEF Next
<1> QED BY <1>1, <1>2, PTL DEF Spec

-----------------------------------------------------------------------------
(* One fetch in a window: the stamp precedes it, and one drain runs.        *)

LockHeld == ~unlocked => \A d \in Drainer : pc[d] \in Draining => lock = d

Cooled ==
    ~unlocked =>
        \A u \in Url \ slipped :
            /\ fetched[u] <= 1
            /\ u \notin cooling => fetched[u] = 0
            /\ \A d \in Drainer : job[d].url = u =>
                  /\ pc[d] = "stamp" /\ ~job[d].approved => u \notin cooling
                  /\ pc[d] = "fetch" => u \in cooling
                  /\ pc[d] = "fetch" /\ ~job[d].approved => fetched[u] = 0

FetchInv == LockHeld /\ Cooled

\* A process that moves leaves the others where they are.
LEMMA OthersStay ==
  ASSUME TypeOK, NEW p \in Process, NEW step
  PROVE  /\ Goto(p, step) => /\ pc'[p] = step /\ (step # "idle" => job'[p] = job[p])
                             /\ \A o \in Process \ {p} : pc'[o] = pc[o] /\ job'[o] = job[o]
         /\ \A task : At(p, step, task) =>
               /\ pc'[p] = step /\ job'[p] = task
               /\ \A o \in Process \ {p} : pc'[o] = pc[o] /\ job'[o] = job[o]
  BY DEF TypeOK, Goto, At

\* Steps that are not a drain's.
LEMMA FetchInvFrame ==
  ASSUME Typed, FetchInv,
         \A d \in Drainer : pc'[d] = pc[d] /\ job'[d] = job[d],
         UNCHANGED <<cooling, fetched, slipped, unlocked>>,
         lock' = lock \/ lock \notin Drainer
  PROVE  FetchInv'
  BY DEF FetchInv, LockHeld, Cooled

LEMMA FeedOrSweepKeepsFetch ==
  ASSUME Typed, FetchInv,
         (\E f \in Feeder : Feed(f)) \/ (\E s \in Sweeper : Sweep(s))
  PROVE  FetchInv'
<1>0. TypeOK
  BY DEF Typed
<1>1. ASSUME NEW f \in Feeder, Feed(f) PROVE FetchInv'
  <2>1. UNCHANGED <<cooling, fetched, slipped, unlocked, lock>>
    BY <1>1 DEF Feed, StartEnqueue, StartSeed, Lookup, InsertRow, InsertByUrl, InsertPending,
       redis, history
  <2>2. \/ \E step : Goto(f, step)
        \/ \E step, task : At(f, step, task)
    BY <1>1 DEF Feed, StartEnqueue, StartSeed, Lookup, InsertRow, InsertByUrl, InsertPending
  <2>3. \A d \in Drainer : pc'[d] = pc[d] /\ job'[d] = job[d]
    BY <1>0, <2>2, OthersStay, ProcessAssumption DEF Process
  <2> QED BY <2>1, <2>3, FetchInvFrame
<1>2. ASSUME NEW s \in Sweeper, Sweep(s) PROVE FetchInv'
  <2>1. UNCHANGED <<cooling, fetched, slipped, unlocked, lock>>
    BY <1>2 DEF Sweep, StartSweep, Recheck, Reset, Relist, Unmark, redis, history
  <2>2. \/ \E step : Goto(s, step)
        \/ \E step, task : At(s, step, task)
    BY <1>2 DEF Sweep, StartSweep, Recheck, Chosen, Reset, Relist, Unmark, Onward
  <2>3. \A d \in Drainer : pc'[d] = pc[d] /\ job'[d] = job[d]
    BY <1>0, <2>2, OthersStay, ProcessAssumption DEF Process
  <2> QED BY <2>1, <2>3, FetchInvFrame
<1> QED BY <1>1, <1>2

LEMMA DrainKeepsFetch ==
  ASSUME Typed, FetchInv, NEW d \in Drainer, Drain(d) PROVE FetchInv'
<1>0. d \in Process /\ TypeOK /\ DrainerPlaced(d) /\ Drainer \subseteq Process
  BY DEF Typed, Placed, Process
<1> USE <1>0
<1>1. unlocked => unlocked'
  BY DEF Drain, StartDrain, Peek, Claim, Unlist, MarkStarted, Gate, Stamp, Fetch, Close,
     ClearStarted, Release, history
<1>2. CASE unlocked'
  BY <1>2 DEF FetchInv, LockHeld, Cooled
<1>3. CASE ~unlocked'
  <2>0. ~unlocked /\ LockHeld /\ Cooled
    BY <1>1, <1>3 DEF FetchInv
  <2>a. \A e \in Drainer \ {d} : pc'[e] = pc[e] /\ job'[e] = job[e]
    <3>1. \/ \E step : Goto(d, step)
          \/ \E step, task : At(d, step, task)
      BY DEF Drain, StartDrain, Peek, Claim, Unlist, MarkStarted, Gate, Stamp, Fetch, Close,
         ClearStarted, Release
    <3> QED BY <3>1, OthersStay
  <2>b. \A e \in Drainer \ {d} : pc[e] \notin Draining
    <3>1. CASE StartDrain(d)
      <4>1. lock = Nobody
        BY <3>1, <1>3 DEF StartDrain
      <4> QED BY <4>1, <2>0, ProcessAssumption DEF LockHeld
    <3>2. CASE ~StartDrain(d)
      <4>1. pc[d] \in Draining
        BY <3>2 DEF Drain, Peek, Claim, Unlist, MarkStarted, Gate, Stamp, Fetch, Close,
           ClearStarted, Release, Draining, AtRow
      <4> QED BY <4>1, <2>0 DEF LockHeld
    <3> QED BY <3>1, <3>2
  <2>1. LockHeld'
    <3>1. pc'[d] \in Draining => lock' = d
      <4>1. CASE StartDrain(d)
        BY <4>1, <1>3 DEF StartDrain
      <4>2. CASE Release(d)
        BY <4>2, OthersStay DEF Release, Draining, AtRow
      <4>3. CASE ~StartDrain(d) /\ ~Release(d)
        <5>1. lock' = lock
          BY <4>3 DEF Drain, Peek, Claim, Unlist, MarkStarted, Gate, Stamp, Fetch, Close,
             ClearStarted, redis
        <5>2. pc[d] \in Draining
          BY <4>3 DEF Drain, Peek, Claim, Unlist, MarkStarted, Gate, Stamp, Fetch, Close,
             ClearStarted, Draining, AtRow
        <5> QED BY <5>1, <5>2, <2>0 DEF LockHeld
      <4> QED BY <4>1, <4>2, <4>3
    <3> QED BY <3>1, <2>a, <2>b DEF LockHeld
  <2>2. ASSUME NEW u \in Url, u \notin slipped'
        PROVE  /\ fetched'[u] <= 1
               /\ u \notin cooling' => fetched'[u] = 0
               /\ job'[d].url = u =>
                     /\ pc'[d] = "stamp" /\ ~job'[d].approved => u \notin cooling'
                     /\ pc'[d] = "fetch" => u \in cooling'
                     /\ pc'[d] = "fetch" /\ ~job'[d].approved => fetched'[u] = 0
    <3>0. /\ u \notin slipped /\ fetched[u] <= 1 /\ (u \notin cooling => fetched[u] = 0)
          /\ job[d].url = u =>
                /\ pc[d] = "stamp" /\ ~job[d].approved => u \notin cooling
                /\ pc[d] = "fetch" => u \in cooling
                /\ pc[d] = "fetch" /\ ~job[d].approved => fetched[u] = 0
      <4>1. u \notin slipped
        BY <2>2 DEF Drain, StartDrain, Peek, Claim, Unlist, MarkStarted, Gate, Stamp, Fetch,
           Close, ClearStarted, Release, history
      <4> QED BY <4>1, <2>0 DEF Cooled
    <3>1. CASE Gate(d)
      <4>1. UNCHANGED <<cooling, fetched>>
        BY <3>1 DEF Gate, redis
      <4>2. PICK step \in {"close", "stamp"} : Goto(d, step)
        BY <3>1 DEF Gate
      <4>3. pc'[d] = step /\ job'[d] = job[d]
        BY <4>2, OthersStay
      <4>4. step = "stamp" => \/ job[d].approved \/ job[d].url \notin cooling
                              \/ job[d].url \in slipped'
        <5>1. step = "stamp" => pc'[d] # "close"
          BY <4>3
        <5>2. Goto(d, "close") => pc'[d] = "close"
          BY OthersStay
        <5> QED BY <3>1, <5>1, <5>2 DEF Gate
      <4> QED BY <2>2, <3>0, <4>1, <4>3, <4>4
    <3>2. CASE Stamp(d)
      <4>1. pc'[d] = "fetch" /\ job'[d] = job[d] /\ fetched' = fetched /\ pc[d] = "stamp"
        BY <3>2, OthersStay DEF Stamp
      <4>2. cooling' = cooling \cup {job[d].url} \/ (job[d].url \in slipped' /\ cooling' = cooling)
        BY <3>2 DEF Stamp
      <4> QED BY <2>2, <3>0, <4>1, <4>2
    <3>3. CASE Fetch(d)
      <4>1. pc'[d] = "close" /\ cooling' = cooling /\ pc[d] = "fetch" /\ job[d].url \in Url
        BY <3>3, OthersStay DEF Fetch, redis, DrainerPlaced, AtRow
      <4>2. CASE job[d].approved \/ job[d].url # u
        <5>1. fetched'[u] = fetched[u]
          BY <3>3, <4>1, <4>2 DEF Fetch, TypeOK
        <5> QED BY <3>0, <4>1, <5>1
      <4>3. CASE ~job[d].approved /\ job[d].url = u
        <5>1. fetched'[u] = 1 /\ u \in cooling
          BY <3>0, <3>3, <4>1, <4>3 DEF Fetch, TypeOK
        <5> QED BY <4>1, <5>1
      <4> QED BY <4>2, <4>3
    <3>4. CASE ~Gate(d) /\ ~Stamp(d) /\ ~Fetch(d)
      <4>1. UNCHANGED <<cooling, fetched>>
        BY <3>4 DEF Drain, StartDrain, Peek, Claim, Unlist, MarkStarted, Close,
           ClearStarted, Release, redis, history
      <4>2. pc'[d] \notin {"stamp", "fetch"}
        <5>1. \/ \E step \in {"peek", "release", "unlist", "mark", "gate", "clear", "idle"} : Goto(d, step)
              \/ \E step \in {"claim", "peek", "release"} : \E task : At(d, step, task)
          BY <3>4 DEF Drain, StartDrain, Peek, Claim, Unlist, MarkStarted, Close,
             ClearStarted, Release
        <5> QED BY <5>1, OthersStay
      <4> QED BY <3>0, <4>1, <4>2
    <3> QED BY <3>1, <3>2, <3>3, <3>4
  <2>3. Cooled'
    <3>1. \A e \in Drainer \ {d} : pc'[e] \notin {"stamp", "fetch"}
      BY <2>a, <2>b DEF Draining, AtRow
    <3> QED BY <2>2, <3>1 DEF Cooled
  <2> QED BY <2>1, <2>3 DEF FetchInv
<1> QED BY <1>2, <1>3

LEMMA OtherKeepsFetch ==
  ASSUME Typed, FetchInv, \/ \E q \in RowId : Age(q)
                          \/ \E u \in Url : Lapse(u)
                          \/ Expire
                          \/ \E p \in Process : Dies(p)
                          \/ UNCHANGED vars
  PROVE  FetchInv'
<1>1. ASSUME NEW q \in RowId, Age(q) PROVE FetchInv'
  BY <1>1, FetchInvFrame DEF Age, history
<1>2. ASSUME NEW u \in Url, Lapse(u) PROVE FetchInv'
  <2>1. LockHeld'
    BY <1>2 DEF Lapse, FetchInv, LockHeld
  <2>2. \A v \in Url : fetched'[v] = IF v = u THEN 0 ELSE fetched[v]
    BY <1>2 DEF Lapse, Typed, TypeOK
  <2>3. \A d \in Drainer : job[d].url = u => pc[d] \notin {"stamp", "fetch"}
    BY <1>2 DEF Lapse, AtRow
  <2>4. Cooled'
    BY <1>2, <2>2, <2>3 DEF Lapse, FetchInv, Cooled
  <2> QED BY <2>1, <2>4 DEF FetchInv
<1>3. ASSUME Expire PROVE FetchInv'
  BY <1>3, ProcessAssumption, FetchInvFrame DEF Expire, history
<1>4. ASSUME NEW p \in Process, Dies(p) PROVE FetchInv'
  <2>1. /\ pc'[p] = "idle" /\ \A o \in Process \ {p} : pc'[o] = pc[o] /\ job'[o] = job[o]
        /\ UNCHANGED <<cooling, fetched, slipped, unlocked>>
        /\ lock' = IF lock = p THEN Killed ELSE lock
        /\ Drainer \subseteq Process
    BY <1>4, OthersStay DEF Dies, Typed, Process
  <2>2. LockHeld'
    BY <2>1 DEF FetchInv, LockHeld, Draining, AtRow
  <2>3. Cooled'
    BY <2>1 DEF FetchInv, Cooled
  <2> QED BY <2>2, <2>3 DEF FetchInv
<1>5. ASSUME UNCHANGED vars PROVE FetchInv'
  BY <1>5, FetchInvFrame DEF vars
<1> QED BY <1>1, <1>2, <1>3, <1>4, <1>5

LEMMA LockAndFetch == Spec => [](Typed /\ FetchInv)
<1>1. Init => FetchInv
  BY DEF Init, FetchInv, LockHeld, Cooled, Draining, AtRow, Process
<1>2. Typed /\ FetchInv /\ [Next]_vars => FetchInv'
  BY FeedOrSweepKeepsFetch, DrainKeepsFetch, OtherKeepsFetch DEF Next
<1> QED BY <1>1, <1>2, TypeCorrect, PTL DEF Spec

\* Within its cooldown a URL is fetched once, whatever is enqueued, put back or
\* dies, unless Redis failed to say so (mark_url_crawled, _pre_fetch_gate,
\* single_flight).
THEOREM OneFetch == Spec => []FetchedOnce
<1>1. Typed /\ FetchInv => FetchedOnce
  BY DEF FetchInv, Cooled, FetchedOnce
<1> QED BY <1>1, LockAndFetch, PTL

-----------------------------------------------------------------------------
(* What is done stays done: at most one process is at a row, and a row that *)
(* is listed or about to be put back is not done.                          *)

PutsBack == {"reset", "relist"}
PutsIn   == {"index", "list"}
Takes    == {"claim", "unlist"}
Touch(p, q) == job[p].row = q /\ pc[p] \in AtRow \cup PutsBack \cup PutsIn

RowInv(q) ==
    /\ \A p, o \in Process : Touch(p, q) /\ Touch(o, q) => p = o
    /\ Listed(q) => /\ rows[q].status # "done"
                    /\ \A p \in Process : Touch(p, q) => pc[p] \in Takes
    /\ \A e, o \in listed : e.row = q /\ o.row = q => e.at = o.at
    /\ \A p \in Process : Touch(p, q) =>
          /\ pc[p] \in Takes => \A e \in listed : e.row = q => e.at = job[p].at
          /\ pc[p] \in PutsBack \cup {"claim"} => rows[q].status # "done"
          /\ pc[p] \in PutsIn => rows[q].status = "pending"

RowsInv == ~unlocked => \A q \in Ids \ seized : RowInv(q)

\* A step that leaves the row's status alone, lists nothing for it, and takes
\* no process to it.
LEMMA RowFrame ==
  ASSUME NEW q, RowInv(q),
         rows'[q].status = rows[q].status,
         \A e \in listed' : e.row = q => e \in listed,
         \A p \in Process : Touch(p, q)' =>
             /\ Touch(p, q) /\ job'[p] = job[p]
             /\ pc'[p] \in Takes => pc[p] \in Takes
             /\ pc'[p] \in PutsBack \cup {"claim"} => pc[p] \in PutsBack \cup {"claim"}
             /\ pc'[p] \in PutsIn => pc[p] \in PutsIn
             /\ Listed(q)' => (pc[p] \in Takes => pc'[p] \in Takes)
  PROVE  RowInv(q)'
<1>1. Listed(q)' => Listed(q)
  BY DEF Listed
<1>2. \A p, o \in Process : Touch(p, q)' /\ Touch(o, q)' => p = o
  BY DEF RowInv
<1>3. Listed(q)' => /\ rows'[q].status # "done"
                    /\ \A p \in Process : Touch(p, q)' => pc'[p] \in Takes
  BY <1>1 DEF RowInv
<1>4. \A e, o \in listed' : e.row = q /\ o.row = q => e.at = o.at
  BY DEF RowInv
<1>5. ASSUME NEW p \in Process, Touch(p, q)'
      PROVE  /\ pc'[p] \in Takes => \A e \in listed' : e.row = q => e.at = job'[p].at
             /\ pc'[p] \in PutsBack \cup {"claim"} => rows'[q].status # "done"
             /\ pc'[p] \in PutsIn => rows'[q].status = "pending"
  BY <1>5 DEF RowInv
<1> QED BY <1>2, <1>3, <1>4, <1>5 DEF RowInv

\* A process that does so in one step, while the others stay.
LEMMA MoveFrame ==
  ASSUME NEW q, RowInv(q), NEW m \in Process,
         \A o \in Process \ {m} : pc'[o] = pc[o] /\ job'[o] = job[o],
         rows'[q].status = rows[q].status,
         \A e \in listed' : e.row = q => e \in listed,
         Touch(m, q)' =>
             /\ Touch(m, q) /\ job'[m] = job[m]
             /\ pc'[m] \notin Takes \cup PutsBack \cup {"claim"}
             /\ pc[m] \notin Takes
             /\ pc'[m] \in PutsIn => pc[m] \in PutsIn
  PROVE  RowInv(q)'
  BY RowFrame DEF Touch, Takes, PutsBack, PutsIn, AtRow

\* Only one process touches the row, or none.
LEMMA TouchOnly ==
  ASSUME NEW q, RowInv(q), NEW m \in Process, Touch(m, q)
  PROVE  /\ \A o \in Process \ {m} : ~Touch(o, q)
         /\ pc[m] \notin Takes => ~Listed(q)
  BY DEF RowInv

LEMMA FeedKeepsRows ==
  ASSUME Typed, RowsInv, NEW f \in Feeder, Feed(f) PROVE RowsInv'
<1>0. f \in Process /\ TypeOK /\ Placed /\ FeederPlaced(f) /\ Len(rows) \in Nat /\ rows \in Seq(Row)
  BY LenTyped DEF Typed, Placed, Process
<1> USE <1>0
<1>u. UNCHANGED <<unlocked, seized>>
  BY DEF Feed, StartEnqueue, StartSeed, Lookup, InsertRow, InsertByUrl, InsertPending, history
<1>o. \A o \in Process \ {f} : pc'[o] = pc[o] /\ job'[o] = job[o]
  <2>1. \/ \E step : Goto(f, step)
        \/ \E step, task : At(f, step, task)
    BY DEF Feed, StartEnqueue, StartSeed, Lookup, InsertRow, InsertByUrl, InsertPending
  <2> QED BY <2>1, OthersStay
<1>1. CASE StartEnqueue(f) \/ StartSeed(f) \/ Lookup(f)
  <2>1. UNCHANGED <<rows, listed>>
    BY <1>1 DEF StartEnqueue, StartSeed, Lookup, tables
  <2>2. pc'[f] \in {"lookup", "insert", "idle"}
    <3>1. \/ \E step \in {"insert", "idle"} : Goto(f, step)
          \/ \E step \in {"lookup", "insert"} : \E task : At(f, step, task)
      BY <1>1 DEF StartEnqueue, StartSeed, Lookup
    <3> QED BY <3>1, OthersStay
  <2>3. ASSUME NEW q \in Ids \ seized, RowInv(q) PROVE RowInv(q)'
    <3>1. ~Touch(f, q)'
      BY <2>2 DEF Touch, AtRow, PutsBack, PutsIn
    <3> QED BY <2>1, <2>3, <3>1, <1>o, MoveFrame
  <2> QED BY <1>u, <2>1, <2>3 DEF RowsInv, Ids
<1>2. CASE InsertRow(f)
  <2> DEFINE n == Len(rows) + 1
             row == [url |-> job[f].url, status |-> "pending",
                     approved |-> job[f].approved, at |-> 0]
  <2>1. row \in Row /\ row.status = "pending"
    BY <1>2, JobTyped DEF InsertRow, FeederPlaced, Feeding, Row, Job
  <2>2. rows' = Append(rows, row) /\ listed' = listed
    BY <1>2 DEF InsertRow
  <2> HIDE DEF row
  <2>3. /\ Len(rows') = n /\ rows'[n] = row
        /\ \A q \in Ids : rows'[q] = rows[q]
    BY <2>1, <2>2, AppendProperties DEF Ids
  <2>4. pc'[f] = "index" /\ job'[f].row = n
    <3> DEFINE task == [job[f] EXCEPT !.row = n]
    <3>1. At(f, "index", task)
      BY <1>2 DEF InsertRow
    <3>2. task.row = n
      BY JobTyped DEF Job
    <3> HIDE DEF task
    <3>3. pc'[f] = "index" /\ job'[f] = task
      BY <3>1 DEF TypeOK, At
    <3> QED BY <3>2, <3>3
  <2>5. ASSUME NEW q \in Ids \ seized, RowInv(q) PROVE RowInv(q)'
    <3>1. q # n
      BY DEF Ids
    <3>2. ~Touch(f, q)'
      BY <2>4, <3>1 DEF Touch
    <3> QED BY <2>2, <2>3, <2>5, <3>2, <1>o, MoveFrame
  <2>6. ASSUME NEW q, q = n PROVE RowInv(q)'
    <3>1. q \notin Ids
      BY <2>6 DEF Ids
    <3>2. \A e \in listed' : e.row # q
      BY <2>2, <3>1 DEF Placed
    <3>3. \A o \in Process \ {f} : ~Touch(o, q)'
      <4>1. \A o \in Process : pc[o] \in AtRow \cup PutsBack \cup PutsIn => job[o].row \in Ids
        BY DEF Placed, FeederPlaced, DrainerPlaced, SweeperPlaced, Process, AtRow, PutsBack,
           PutsIn, Feeding, Draining, Sweeping
      <4> QED BY <1>o, <3>1, <4>1 DEF Touch
    <3>4. ~Listed(q)'
      BY <3>2 DEF Listed
    <3>5. rows'[q].status = "pending"
      BY <2>1, <2>3, <2>6
    <3> QED BY <2>4, <3>2, <3>3, <3>4, <3>5 DEF RowInv, PutsBack, PutsIn, Takes
  <2>7. \A q \in Ids' : q \in Ids \/ q = n
    BY <2>3 DEF Ids
  <2> QED BY <1>u, <2>5, <2>6, <2>7 DEF RowsInv
<1>3. CASE InsertByUrl(f)
  <2>1. /\ pc[f] = "index" /\ pc'[f] = "list" /\ job'[f] = job[f]
        /\ UNCHANGED <<rows, listed>>
    BY <1>3, OthersStay DEF InsertByUrl
  <2>2. ASSUME NEW q \in Ids \ seized, RowInv(q) PROVE RowInv(q)'
    <3>1. Touch(f, q)' => Touch(f, q)
      BY <2>1 DEF Touch, PutsIn
    <3> QED BY <2>1, <2>2, <3>1, <1>o, MoveFrame DEF Takes, PutsBack, PutsIn
  <2> QED BY <1>u, <2>1, <2>2 DEF RowsInv, Ids
<1>4. CASE InsertPending(f)
  <2> DEFINE r == job[f].row
  <2>1. /\ pc[f] = "list" /\ pc'[f] = "idle" /\ rows' = rows
        /\ listed' = listed \cup {[row |-> r, at |-> 0]}
    BY <1>4, OthersStay DEF InsertPending
  <2>2. ASSUME NEW q \in Ids \ seized, RowInv(q) PROVE RowInv(q)'
    <3>1. ~Touch(f, q)'
      BY <2>1 DEF Touch, AtRow, PutsBack, PutsIn
    <3>2. CASE q # r
      <4>1. \A e \in listed' : e.row = q => e \in listed
        BY <2>1, <3>2
      <4> QED BY <2>1, <2>2, <3>1, <4>1, <1>o, MoveFrame
    <3>3. CASE q = r
      <4>1. Touch(f, q)
        BY <2>1, <3>3 DEF Touch, PutsIn
      <4>2. ~Listed(q) /\ \A o \in Process : ~Touch(o, q)'
        <5>1. pc[f] \notin Takes
          BY <2>1 DEF Takes
        <5> QED BY <2>2, <3>1, <4>1, <5>1, <1>o, TouchOnly DEF Touch
      <4>3. rows[q].status = "pending"
        BY <2>1, <2>2, <4>1 DEF RowInv, PutsIn
      <4>4. \A e \in listed' : e.row = q => e.at = 0
        BY <2>1, <4>2 DEF Listed
      <4> QED BY <2>1, <4>2, <4>3, <4>4 DEF RowInv
    <3> QED BY <3>2, <3>3
  <2> QED BY <1>u, <2>1, <2>2 DEF RowsInv, Ids
<1> QED BY <1>1, <1>2, <1>3, <1>4 DEF Feed

LEMMA SweepKeepsRows ==
  ASSUME Typed, RowsInv, NEW s \in Sweeper, Sweep(s) PROVE RowsInv'
<1>0. s \in Process /\ TypeOK /\ Placed /\ SweeperPlaced(s) /\ Len(rows) \in Nat /\ rows \in Seq(Row)
  BY LenTyped DEF Typed, Placed, Process
<1> USE <1>0
<1>u. unlocked' = unlocked /\ seized \subseteq seized'
  BY DEF Sweep, StartSweep, Recheck, Reset, Relist, Unmark, history
<1>o. \A o \in Process \ {s} : pc'[o] = pc[o] /\ job'[o] = job[o]
  <2>1. \/ \E step : Goto(s, step)
        \/ \E step, task : At(s, step, task)
    BY DEF Sweep, StartSweep, Recheck, Chosen, Reset, Relist, Unmark, Onward
  <2> QED BY <2>1, OthersStay
<1>f. ASSUME Ids' = Ids, \A q \in Ids \ seized' : RowInv(q) => RowInv(q)' PROVE RowsInv'
  BY <1>u, <1>f DEF RowsInv
<1>1. CASE StartSweep(s) \/ Unmark(s)
  <2>1. UNCHANGED <<rows, listed>>
    BY <1>1 DEF StartSweep, Unmark, tables
  <2>2. pc'[s] \in {"recheck", "idle"}
    <3>1. Goto(s, "idle") \/ \E task : At(s, "recheck", task)
      BY <1>1 DEF StartSweep, Unmark, Onward
    <3> QED BY <3>1, OthersStay
  <2>3. ASSUME NEW q \in Ids \ seized', RowInv(q) PROVE RowInv(q)'
    <3>1. ~Touch(s, q)'
      BY <2>2 DEF Touch, AtRow, PutsBack, PutsIn
    <3> QED BY <2>1, <2>3, <3>1, <1>o, MoveFrame
  <2> QED BY <1>f, <2>1, <2>3 DEF Ids
<1>2. CASE Recheck(s)
  <2>1. UNCHANGED <<rows, listed>> /\ pc[s] = "recheck"
    BY <1>2 DEF Recheck, tables
  <2>2. PICK r \in job[s].todo, step \in {"reset", "unmark"} :
          /\ Chosen(s, r, step)
          /\ step = "reset" => /\ rows[r].status = "processing"
                               /\ seized' = IF Taken(s, r) THEN seized \cup {r} ELSE seized
    BY <1>2 DEF Recheck
  <2>3. pc'[s] = step /\ job'[s].row = r
    <3> DEFINE task == [job[s] EXCEPT !.row = r, !.todo = @ \ {r}]
    <3>1. At(s, step, task)
      BY <2>2 DEF Chosen
    <3>2. task.row = r
      BY JobTyped DEF Job
    <3> HIDE DEF task
    <3>3. pc'[s] = step /\ job'[s] = task
      BY <3>1 DEF TypeOK, At
    <3> QED BY <3>2, <3>3
  <2>4. ASSUME NEW q \in Ids \ seized', RowInv(q) PROVE RowInv(q)'
    <3>1. CASE q # r \/ step = "unmark"
      <4>1. ~Touch(s, q)'
        BY <2>3, <3>1 DEF Touch, AtRow, PutsBack, PutsIn
      <4> QED BY <2>1, <2>4, <4>1, <1>o, MoveFrame
    <3>2. CASE q = r /\ step = "reset"
      <4>1. ~Taken(s, q) /\ rows[q].status = "processing"
        BY <2>2, <2>4, <3>2
      <4>2. \A o \in Process \ {s} : ~Touch(o, q)
        <5> SUFFICES ASSUME NEW o \in Process, o # s, Touch(o, q) PROVE FALSE
          OBVIOUS
        <5>1. o \in Drainer => pc[o] \notin PutsIn \cup PutsBack
          BY DEF Placed, DrainerPlaced, Draining, AtRow, PutsIn, PutsBack
        <5>2. o \in Sweeper => pc[o] \notin PutsIn \cup AtRow
          BY DEF Placed, SweeperPlaced, Sweeping, AtRow, PutsIn
        <5>3. o \in Feeder => pc[o] \notin PutsBack \cup AtRow
          BY DEF Placed, FeederPlaced, Feeding, AtRow, PutsBack
        <5>4. o \notin Drainer /\ o \notin Sweeper
          BY <4>1, <5>1, <5>2 DEF Taken, Holds, Touch, PutsBack
        <5>5. pc[o] \in PutsIn
          BY <5>3, <5>4 DEF Process, Touch
        <5> QED BY <2>4, <4>1, <5>5 DEF RowInv
      <4>3. ~Listed(q)
        BY <4>1 DEF Taken
      <4>4. \A o \in Process \ {s} : ~Touch(o, q)'
        BY <4>2, <1>o DEF Touch
      <4> QED BY <2>1, <2>3, <3>2, <4>1, <4>3, <4>4 DEF RowInv, Listed, Takes, PutsIn, PutsBack
    <3> QED BY <3>1, <3>2
  <2> QED BY <1>f, <2>1, <2>4 DEF Ids
<1>3. CASE Reset(s)
  <2> DEFINE r == job[s].row
  <2>1. /\ pc[s] = "reset" /\ pc'[s] = "relist" /\ job'[s] = job[s] /\ listed' = listed
        /\ SetStatus(r, "pending") /\ r \in Ids
    BY <1>3, OthersStay DEF Reset, SweeperPlaced
  <2>2. /\ Len(rows') = Len(rows) /\ rows'[r].status = "pending"
        /\ \A q \in Ids \ {r} : rows'[q] = rows[q]
    BY <2>1, StatusChanges
  <2>3. ASSUME NEW q \in Ids \ seized', RowInv(q) PROVE RowInv(q)'
    <3>1. CASE q # r
      <4>1. ~Touch(s, q)'
        BY <2>1, <3>1 DEF Touch
      <4> QED BY <2>1, <2>2, <2>3, <3>1, <4>1, <1>o, MoveFrame
    <3>2. CASE q = r
      <4>1. Touch(s, q) /\ pc[s] \notin Takes
        BY <2>1, <3>2 DEF Touch, PutsBack, Takes
      <4>2. ~Listed(q) /\ \A o \in Process \ {s} : ~Touch(o, q)'
        BY <2>3, <4>1, <1>o, TouchOnly DEF Touch
      <4> QED BY <2>1, <2>2, <3>2, <4>2 DEF RowInv, Listed, Takes, PutsIn
    <3> QED BY <3>1, <3>2
  <2> QED BY <1>f, <2>2, <2>3 DEF Ids
<1>4. CASE Relist(s)
  <2> DEFINE r == job[s].row
  <2>1. /\ pc[s] = "relist" /\ pc'[s] = "unmark" /\ r \in Ids
        /\ rows' = [rows EXCEPT ![r].at = @ + 1]
        /\ listed' = listed \cup {[row |-> r, at |-> rows[r].at + 1]}
    BY <1>4, OthersStay DEF Relist, SweeperPlaced
  <2>2. /\ Len(rows') = Len(rows) /\ rows'[r].status = rows[r].status
        /\ \A q \in Ids \ {r} : rows'[q] = rows[q]
    <3> HIDE DEF r
    <3> QED BY <2>1, DateChanges
  <2>3. ASSUME NEW q \in Ids \ seized', RowInv(q) PROVE RowInv(q)'
    <3>1. ~Touch(s, q)'
      BY <2>1 DEF Touch, AtRow, PutsBack, PutsIn
    <3>2. CASE q # r
      <4>1. \A e \in listed' : e.row = q => e \in listed
        BY <2>1, <3>2
      <4> QED BY <2>2, <2>3, <3>1, <3>2, <4>1, <1>o, MoveFrame
    <3>3. CASE q = r
      <4>1. Touch(s, q) /\ pc[s] \notin Takes
        BY <2>1, <3>3 DEF Touch, PutsBack, Takes
      <4>2. ~Listed(q) /\ \A o \in Process : ~Touch(o, q)'
        BY <2>3, <3>1, <4>1, <1>o, TouchOnly DEF Touch
      <4>3. rows[q].status # "done"
        BY <2>1, <2>3, <4>1 DEF RowInv, PutsBack
      <4>4. \A e \in listed' : e.row = q => e.at = rows[q].at + 1
        BY <2>1, <3>3, <4>2 DEF Listed
      <4> QED BY <2>2, <3>3, <4>2, <4>3, <4>4 DEF RowInv
    <3> QED BY <3>2, <3>3
  <2> QED BY <1>f, <2>2, <2>3 DEF Ids
<1> QED BY <1>1, <1>2, <1>3, <1>4 DEF Sweep

LEMMA DrainKeepsRows ==
  ASSUME Typed, RowsInv, LockHeld, NEW d \in Drainer, Drain(d) PROVE RowsInv'
<1>0. /\ d \in Process /\ TypeOK /\ Placed /\ DrainerPlaced(d) /\ Len(rows) \in Nat
      /\ rows \in Seq(Row) /\ Drainer \subseteq Process
  BY LenTyped DEF Typed, Placed, Process
<1> USE <1>0
<1>u. seized' = seized /\ (unlocked => unlocked')
  <2> USE DEF Drain, StartDrain, Peek, Claim, Unlist, MarkStarted, Gate, Stamp, Fetch, Close,
              ClearStarted, Release, history
  <2>1. seized' = seized
    OBVIOUS
  <2>2. unlocked => unlocked'
    OBVIOUS
  <2> QED BY <2>1, <2>2
<1>o. \A o \in Process \ {d} : pc'[o] = pc[o] /\ job'[o] = job[o]
  <2>1. \/ \E step : Goto(d, step)
        \/ \E step, task : At(d, step, task)
    BY DEF Drain, StartDrain, Peek, Claim, Unlist, MarkStarted, Gate, Stamp, Fetch, Close,
       ClearStarted, Release
  <2> QED BY <2>1, OthersStay
<1>f. ASSUME Len(rows') = Len(rows), ~unlocked => \A q \in Ids \ seized : RowInv(q) => RowInv(q)'
      PROVE  RowsInv'
  BY <1>u, <1>f DEF RowsInv, Ids
<1>1. CASE StartDrain(d) \/ ClearStarted(d) \/ Release(d)
  <2>1. UNCHANGED <<rows, listed>>
    BY <1>1 DEF StartDrain, ClearStarted, Release, tables
  <2>2. pc'[d] \in {"peek", "release", "idle"}
    <3>1. \/ \E step \in {"peek", "idle"} : Goto(d, step)
          \/ \E step \in {"peek", "release"} : \E task : At(d, step, task)
      BY <1>1 DEF StartDrain, ClearStarted, Release
    <3> QED BY <3>1, OthersStay
  <2>3. ASSUME NEW q \in Ids \ seized, RowInv(q) PROVE RowInv(q)'
    <3>1. ~Touch(d, q)'
      BY <2>2 DEF Touch, AtRow, PutsBack, PutsIn
    <3> QED BY <2>1, <2>3, <3>1, <1>o, MoveFrame
  <2> QED BY <1>f, <2>1, <2>3
<1>2. CASE Peek(d)
  <2>1. UNCHANGED <<rows, listed, unlocked>> /\ pc[d] = "peek"
    BY <1>2 DEF Peek, tables, history
  <2>2. CASE Goto(d, "release")
    <3>1. ASSUME NEW q \in Ids \ seized, RowInv(q) PROVE RowInv(q)'
      <4>1. ~Touch(d, q)'
        BY <2>2, OthersStay DEF Touch, AtRow, PutsBack, PutsIn
      <4> QED BY <2>1, <3>1, <4>1, <1>o, MoveFrame
    <3> QED BY <1>f, <2>1, <3>1
  <2>3. CASE ~Goto(d, "release")
    <3>1. PICK e \in listed :
            At(d, "claim", [Nothing EXCEPT !.row = e.row, !.at = e.at, !.url = rows[e.row].url,
                                           !.approved = rows[e.row].approved])
      BY <1>2, <2>3 DEF Peek
    <3> DEFINE task == [Nothing EXCEPT !.row = e.row, !.at = e.at, !.url = rows[e.row].url,
                                       !.approved = rows[e.row].approved]
    <3>2. task.row = e.row /\ task.at = e.at
      BY DEF Nothing
    <3>3. At(d, "claim", task)
      BY <3>1
    <3> HIDE DEF task
    <3>4. pc'[d] = "claim" /\ job'[d].row = e.row /\ job'[d].at = e.at
      BY <3>2, <3>3 DEF TypeOK, At
    <3>5. ASSUME ~unlocked, NEW q \in Ids \ seized, RowInv(q) PROVE RowInv(q)'
      <4>1. CASE q # e.row
        <5>1. ~Touch(d, q)'
          BY <3>4, <4>1 DEF Touch
        <5> QED BY <2>1, <3>5, <5>1, <1>o, MoveFrame
      <4>2. CASE q = e.row
        <5>1. Listed(q) /\ rows[q].status # "done"
          BY <3>5, <4>2 DEF Listed, RowInv
        <5>2. ASSUME NEW o \in Process, o # d, Touch(o, q) PROVE FALSE
          <6>1. pc[o] \in Takes
            BY <3>5, <5>1, <5>2 DEF RowInv
          <6>2. o \in Drainer
            BY <6>1 DEF Placed, FeederPlaced, SweeperPlaced, Process, Takes, Feeding, Sweeping
          <6>3. lock = o /\ lock = d
            BY <2>1, <3>5, <6>1, <6>2 DEF LockHeld, Takes, Draining, AtRow
          <6> QED BY <5>2, <6>3
        <5>3. \A o \in Process \ {d} : ~Touch(o, q)'
          BY <5>2, <1>o DEF Touch
        <5>4. \A a \in listed : a.row = q => a.at = e.at
          BY <3>5, <4>2 DEF RowInv
        <5>5. rows' = rows /\ listed' = listed
          BY <2>1
        <5> QED BY <3>4, <3>5, <5>1, <5>3, <5>4, <5>5 DEF RowInv, Listed, Takes, PutsIn, PutsBack
      <4> QED BY <4>1, <4>2
    <3> QED BY <1>f, <2>1, <3>5
  <2> QED BY <2>2, <2>3
<1>3. CASE Claim(d)
  <2> DEFINE r == job[d].row
  <2>1. /\ pc[d] = "claim" /\ pc'[d] = "unlist" /\ job'[d] = job[d] /\ listed' = listed
        /\ SetStatus(r, "processing") /\ r \in Ids
    BY <1>3, OthersStay DEF Claim, DrainerPlaced, AtRow
  <2>2. /\ Len(rows') = Len(rows) /\ rows'[r].status = "processing"
        /\ \A q \in Ids \ {r} : rows'[q] = rows[q]
    BY <2>1, StatusChanges
  <2>3. ASSUME NEW q \in Ids \ seized, RowInv(q) PROVE RowInv(q)'
    <3>1. CASE q # r
      <4>1. ~Touch(d, q)'
        BY <2>1, <3>1 DEF Touch
      <4> QED BY <2>1, <2>2, <2>3, <3>1, <4>1, <1>o, MoveFrame
    <3>2. CASE q = r
      <4>1. Touch(d, q) /\ pc[d] \in Takes
        BY <2>1, <3>2 DEF Touch, AtRow, Takes
      <4>2. \A o \in Process \ {d} : ~Touch(o, q)'
        BY <2>3, <4>1, <1>o, TouchOnly DEF Touch
      <4>3. \A e \in listed : e.row = q => e.at = job[d].at
        BY <2>3, <4>1 DEF RowInv
      <4>4. \A e, o \in listed : e.row = q /\ o.row = q => e.at = o.at
        BY <2>3 DEF RowInv
      <4> QED BY <2>1, <2>2, <3>2, <4>2, <4>3, <4>4 DEF RowInv, Takes, PutsIn, PutsBack
    <3> QED BY <3>1, <3>2
  <2> QED BY <1>f, <2>2, <2>3
<1>4. CASE Unlist(d)
  <2> DEFINE r == job[d].row
  <2>1. /\ pc[d] = "unlist" /\ pc'[d] = "mark" /\ job'[d] = job[d] /\ rows' = rows
        /\ listed' = listed \ {[row |-> r, at |-> job[d].at]}
    BY <1>4, OthersStay DEF Unlist
  <2>2. ASSUME NEW q \in Ids \ seized, RowInv(q) PROVE RowInv(q)'
    <3>1. CASE q # r
      <4>1. ~Touch(d, q)'
        BY <2>1, <3>1 DEF Touch
      <4> QED BY <2>1, <2>2, <4>1, <1>o, MoveFrame
    <3>2. CASE q = r
      <4>1. Touch(d, q) /\ pc[d] \in Takes
        BY <2>1, <3>2 DEF Touch, AtRow, Takes
      <4>2. \A o \in Process \ {d} : ~Touch(o, q)'
        BY <2>2, <4>1, <1>o, TouchOnly DEF Touch
      <4>3. \A e \in listed' : e.row # q
        <5>1. \A e \in listed : e.row = q => e.at = job[d].at
          BY <2>2, <4>1 DEF RowInv
        <5>2. \A e \in listed : e = [row |-> e.row, at |-> e.at]
          BY DEF TypeOK, Entry
        <5> QED BY <2>1, <3>2, <5>1, <5>2
      <4>4. ~Listed(q)'
        BY <4>3 DEF Listed
      <4> QED BY <2>1, <4>2, <4>3, <4>4 DEF RowInv, Takes, PutsIn, PutsBack
    <3> QED BY <3>1, <3>2
  <2> QED BY <1>f, <2>1, <2>2
<1>5. CASE MarkStarted(d) \/ Gate(d) \/ Stamp(d) \/ Fetch(d)
  <2>1. UNCHANGED <<rows, listed>> /\ pc[d] \in AtRow \ Takes
    BY <1>5 DEF MarkStarted, Gate, Stamp, Fetch, tables, AtRow, Takes
  <2>2. pc'[d] \in {"gate", "stamp", "fetch", "close"} /\ job'[d] = job[d]
    <3>1. \E step \in {"gate", "stamp", "fetch", "close"} : Goto(d, step)
      BY <1>5 DEF MarkStarted, Gate, Stamp, Fetch
    <3> QED BY <3>1, OthersStay
  <2>3. ASSUME NEW q \in Ids \ seized, RowInv(q) PROVE RowInv(q)'
    <3>1. Touch(d, q)' => Touch(d, q)
      BY <2>1, <2>2 DEF Touch
    <3>2. pc'[d] \notin Takes \cup PutsBack \cup PutsIn \cup {"claim"}
      BY <2>2 DEF Takes, PutsBack, PutsIn
    <3> QED BY <2>1, <2>2, <2>3, <3>1, <3>2, <1>o, MoveFrame
  <2> QED BY <1>f, <2>1, <2>3
<1>6. CASE Close(d)
  <2> DEFINE r == job[d].row
  <2>1. /\ pc[d] = "close" /\ pc'[d] = "clear" /\ job'[d] = job[d] /\ listed' = listed
        /\ SetStatus(r, "done") /\ r \in Ids
    BY <1>6, OthersStay DEF Close, DrainerPlaced, AtRow
  <2>2. Len(rows') = Len(rows) /\ \A q \in Ids \ {r} : rows'[q] = rows[q]
    BY <2>1, StatusChanges
  <2>3. ASSUME NEW q \in Ids \ seized, RowInv(q) PROVE RowInv(q)'
    <3>1. CASE q # r
      <4>1. ~Touch(d, q)'
        BY <2>1, <3>1 DEF Touch
      <4> QED BY <2>1, <2>2, <2>3, <3>1, <4>1, <1>o, MoveFrame
    <3>2. CASE q = r
      <4>1. Touch(d, q) /\ pc[d] \notin Takes
        BY <2>1, <3>2 DEF Touch, AtRow, Takes
      <4>2. ~Listed(q) /\ \A o \in Process \ {d} : ~Touch(o, q)'
        BY <2>3, <4>1, <1>o, TouchOnly DEF Touch
      <4> QED BY <2>1, <4>2 DEF RowInv, Listed, Takes, PutsIn, PutsBack
    <3> QED BY <3>1, <3>2
  <2> QED BY <1>f, <2>2, <2>3
<1> QED BY <1>1, <1>2, <1>3, <1>4, <1>5, <1>6 DEF Drain

LEMMA OtherKeepsRows ==
  ASSUME Typed, RowsInv, \/ \E q \in RowId : Age(q)
                         \/ \E u \in Url : Lapse(u)
                         \/ Expire
                         \/ \E p \in Process : Dies(p)
                         \/ UNCHANGED vars
  PROVE  RowsInv'
<1>1. ASSUME \/ \E q \in RowId : Age(q)
             \/ \E u \in Url : Lapse(u)
             \/ Expire
             \/ UNCHANGED vars
      PROVE  RowsInv'
  <2>1. UNCHANGED <<rows, listed, pc, job, unlocked, seized>>
    BY <1>1 DEF Age, Lapse, Expire, vars, tables, history
  <2> QED BY <2>1 DEF RowsInv, RowInv, Touch, Listed, Ids
<1>2. ASSUME NEW p \in Process, Dies(p) PROVE RowsInv'
  <2>1. /\ UNCHANGED <<rows, listed, unlocked, seized>> /\ pc'[p] = "idle"
        /\ \A o \in Process \ {p} : pc'[o] = pc[o] /\ job'[o] = job[o]
    BY <1>2, OthersStay DEF Dies, Typed, tables
  <2>2. ASSUME NEW q \in Ids \ seized, RowInv(q) PROVE RowInv(q)'
    <3>1. ~Touch(p, q)'
      BY <2>1 DEF Touch, AtRow, PutsBack, PutsIn
    <3> QED BY <2>1, <2>2, <3>1, MoveFrame
  <2> QED BY <2>1, <2>2 DEF RowsInv, Ids
<1> QED BY <1>1, <1>2

LEMMA RowsKept == Spec => [](Typed /\ FetchInv /\ RowsInv)
<1>1. Init => RowsInv
  <2>1. Init => Ids = {}
    BY DEF Init, Ids
  <2> QED BY <2>1 DEF RowsInv
<1>2. Typed /\ FetchInv /\ RowsInv /\ [Next]_vars => RowsInv'
  BY FeedKeepsRows, SweepKeepsRows, DrainKeepsRows, OtherKeepsRows DEF Next, FetchInv
<1> QED BY <1>1, <1>2, LockAndFetch, PTL DEF Spec

\* A row that was closed is never put back by a sweep, unless a sweep judged it
\* dead while someone had it (the second look of reclaim_stale_processing_urls).
THEOREM DoneStays == Spec => DoneStaysDone
<1> DEFINE Kept == ~unlocked => \A q \in 1..Len(rows) \ seized :
                      rows[q].status = "done" => rows'[q].status = "done"
<1>1. ASSUME Typed, RowsInv, [Next]_vars PROVE Kept
  <2>0. TypeOK /\ Placed /\ Len(rows) \in Nat /\ rows \in Seq(Row)
    BY <1>1, LenTyped DEF Typed
  <2> USE <2>0
  <2> SUFFICES ASSUME ~unlocked, NEW q \in Ids \ seized, rows[q].status = "done"
               PROVE  rows'[q].status = "done"
    BY DEF Ids
  <2>i. RowInv(q)
    BY <1>1 DEF RowsInv
  <2>1. ASSUME NEW f \in Feeder, InsertRow(f) PROVE rows'[q].status = "done"
    <3> DEFINE row == [url |-> job[f].url, status |-> "pending",
                       approved |-> job[f].approved, at |-> 0]
    <3>1. row \in Row
      BY <2>1, JobTyped DEF InsertRow, Placed, FeederPlaced, Feeding, Row, Job, Process
    <3>2. rows' = Append(rows, row)
      BY <2>1 DEF InsertRow
    <3> HIDE DEF row
    <3> QED BY <3>1, <3>2, AppendProperties DEF Ids
  <2>2. ASSUME NEW d \in Drainer, Claim(d) PROVE rows'[q].status = "done"
    <3>1. job[d].row \in Ids /\ SetStatus(job[d].row, "processing") /\ d \in Process
      BY <2>2 DEF Claim, Placed, DrainerPlaced, AtRow, Process
    <3>2. job[d].row # q
      BY <2>2, <2>i, <3>1 DEF Claim, RowInv, Touch, AtRow
    <3> QED BY <3>1, <3>2, StatusChanges
  <2>3. ASSUME NEW d \in Drainer, Close(d) PROVE rows'[q].status = "done"
    <3>1. job[d].row \in Ids /\ SetStatus(job[d].row, "done")
      BY <2>3 DEF Close, Placed, DrainerPlaced, AtRow
    <3> QED BY <3>1, StatusChanges
  <2>4. ASSUME NEW s \in Sweeper, Reset(s) PROVE rows'[q].status = "done"
    <3>1. job[s].row \in Ids /\ SetStatus(job[s].row, "pending") /\ s \in Process
      BY <2>4 DEF Reset, Placed, SweeperPlaced, Process
    <3>2. job[s].row # q
      BY <2>4, <2>i, <3>1 DEF Reset, RowInv, Touch, PutsBack
    <3> QED BY <3>1, <3>2, StatusChanges
  <2>5. ASSUME NEW s \in Sweeper, Relist(s) PROVE rows'[q].status = "done"
    <3> DEFINE r == job[s].row
    <3>1. r \in Ids /\ rows' = [rows EXCEPT ![r].at = @ + 1]
      BY <2>5 DEF Relist, Placed, SweeperPlaced
    <3> HIDE DEF r
    <3> QED BY <3>1, DateChanges
  <2>6. CASE UNCHANGED rows
    BY <2>6
  <2>7. \/ \E f \in Feeder : InsertRow(f)
        \/ \E d \in Drainer : Claim(d) \/ Close(d)
        \/ \E s \in Sweeper : Reset(s) \/ Relist(s)
        \/ UNCHANGED rows
    <3>1. ASSUME NEW f \in Feeder, Feed(f) PROVE InsertRow(f) \/ UNCHANGED rows
      BY <3>1 DEF Feed, StartEnqueue, StartSeed, Lookup, InsertByUrl, InsertPending, tables
    <3>2. ASSUME NEW d \in Drainer, Drain(d) PROVE Claim(d) \/ Close(d) \/ UNCHANGED rows
      BY <3>2 DEF Drain, StartDrain, Peek, Unlist, MarkStarted, Gate, Stamp, Fetch,
         ClearStarted, Release, tables
    <3>3. ASSUME NEW s \in Sweeper, Sweep(s) PROVE Reset(s) \/ Relist(s) \/ UNCHANGED rows
      BY <3>3 DEF Sweep, StartSweep, Recheck, Unmark, tables
    <3>4. ASSUME \/ \E i \in RowId : Age(i)
                 \/ \E u \in Url : Lapse(u)
                 \/ Expire
                 \/ \E p \in Process : Dies(p)
                 \/ UNCHANGED vars
          PROVE  UNCHANGED rows
      BY <3>4 DEF Age, Lapse, Expire, Dies, tables, vars
    <3> QED BY <1>1, <3>1, <3>2, <3>3, <3>4 DEF Next
  <2> QED BY <2>1, <2>2, <2>3, <2>4, <2>5, <2>6, <2>7
<1>2. Typed /\ RowsInv /\ [Next]_vars => [Kept]_vars
  BY <1>1
<1> QED BY <1>2, RowsKept, PTL DEF Spec, DoneStaysDone
-----------------------------------------------------------------------------
(* No row is left behind.  The invariant says, of each row that is not in   *)
(* lost, who will put it back where a drain or a sweep finds it.            *)

On(p, q, steps) == pc[p] \in steps /\ job[p].row = q

\* A feeder alone knows of the row that it has not listed yet.
AtWork(p, q) ==
    \/ p \in Drainer /\ On(p, q, AtRow)
    \/ p \in Sweeper /\ On(p, q, PutsBack \cup {"unmark"})
    \/ p \in Sweeper /\ pc[p] # "idle" /\ q \in job[p].todo
Seen(q) == Listed(q) \/ Marked(q) \/ \E p \in Drainer \cup Sweeper : AtWork(p, q)
Unseen ==
    \A f \in Feeder : pc[f] \in PutsIn =>
        /\ ~Seen(job[f].row)
        /\ \A g \in Feeder : On(g, job[f].row, PutsIn) => g = f

\* A listing, or what a drain has read of it, is no younger than the row says.
Dated ==
    /\ \A e \in listed : e.at <= rows[e.row].at
    /\ \A d \in Drainer : pc[d] \in Takes => job[d].at <= rows[job[d].row].at

Lists == {"index", "list", "relist"}
Marks == {"unlist", "mark", "relist"}

\* A pending row is about to be listed, or listed where no drain will unlist it
\* without claiming it first.
Waiting(q) ==
    rows[q].status = "pending" =>
        \/ \E p \in Process : On(p, q, Lists)
        \/ \E e \in listed :
              e.row = q /\ \A d \in Drainer : On(d, q, {"unlist"}) => job[d].at # e.at

\* A row in processing is listed, or about to be listed or marked, or marked; a
\* marker that a run is about to remove is then one whose removal is recorded.
Held(q) ==
    rows[q].status = "processing" =>
        \/ Listed(q)
        \/ \E p \in Process : On(p, q, Marks)
        \/ /\ Marked(q)
           /\ \A d \in Drainer : On(d, q, {"clear"}) => markers[q].by # d
           /\ \A s \in Sweeper : On(s, q, {"unmark"}) => ~markers[q].stale

Within == Unseen /\ Dated /\ \A q \in Ids \ lost : Waiting(q) /\ Held(q)

LEMMA WaitingFrame ==
  ASSUME NEW q, Waiting(q), NEW m \in Process,
         \A o \in Process \ {m} : pc'[o] = pc[o] /\ job'[o] = job[o],
         rows'[q].status = rows[q].status,
         \A e \in listed : e.row = q => e \in listed',
         On(m, q, Lists) => On(m, q, Lists)',
         On(m, q, {"unlist"})' => On(m, q, {"unlist"}) /\ job'[m].at = job[m].at
  PROVE  Waiting(q)'
<1> SUFFICES ASSUME rows[q].status = "pending"
             PROVE  \/ \E p \in Process : On(p, q, Lists)'
                    \/ \E e \in listed' :
                          e.row = q /\ \A d \in Drainer : On(d, q, {"unlist"})' => job'[d].at # e.at
  BY DEF Waiting
<1>1. CASE \E p \in Process : On(p, q, Lists)
  BY <1>1 DEF On
<1>2. CASE \E e \in listed :
             e.row = q /\ \A d \in Drainer : On(d, q, {"unlist"}) => job[d].at # e.at
  <2>1. PICK e \in listed :
           e.row = q /\ \A d \in Drainer : On(d, q, {"unlist"}) => job[d].at # e.at
    BY <1>2
  <2>2. ASSUME NEW d \in Drainer, On(d, q, {"unlist"})' PROVE job'[d].at # e.at
    <3>1. d \in Process
      BY DEF Process
    <3>2. On(d, q, {"unlist"}) /\ job'[d].at = job[d].at
      BY <2>2, <3>1 DEF On
    <3> QED BY <2>1, <3>2
  <2> QED BY <2>1, <2>2
<1> QED BY <1>1, <1>2 DEF Waiting

LEMMA HeldFrame ==
  ASSUME NEW q, Held(q), NEW m \in Process,
         \A o \in Process \ {m} : pc'[o] = pc[o] /\ job'[o] = job[o],
         rows'[q].status = rows[q].status,
         \A e \in listed : e.row = q => e \in listed',
         markers'[q] = markers[q],
         On(m, q, Marks) => On(m, q, Marks)' \/ Listed(q)',
         On(m, q, {"clear"})' => On(m, q, {"clear"}),
         On(m, q, {"unmark"})' =>
             On(m, q, {"unmark"}) \/ rows[q].status # "processing" \/ Listed(q)'
  PROVE  Held(q)'
<1> SUFFICES ASSUME rows[q].status = "processing"
             PROVE  \/ Listed(q)'
                    \/ \E p \in Process : On(p, q, Marks)'
                    \/ /\ Marked(q)'
                       /\ \A d \in Drainer : On(d, q, {"clear"})' => markers'[q].by # d
                       /\ \A s \in Sweeper : On(s, q, {"unmark"})' => ~markers'[q].stale
  BY DEF Held
<1>1. CASE Listed(q)
  BY <1>1 DEF Listed
<1>2. CASE \E p \in Process : On(p, q, Marks)
  BY <1>2 DEF On
<1>3. CASE /\ Marked(q) /\ ~Listed(q)'
           /\ \A d \in Drainer : On(d, q, {"clear"}) => markers[q].by # d
           /\ \A s \in Sweeper : On(s, q, {"unmark"}) => ~markers[q].stale
  <2>1. Marked(q)'
    BY <1>3 DEF Marked
  <2>2. \A d \in Drainer : On(d, q, {"clear"})' => On(d, q, {"clear"})
    BY DEF On, Process
  <2>3. \A s \in Sweeper : On(s, q, {"unmark"})' => On(s, q, {"unmark"})
    BY <1>3 DEF On, Process
  <2> QED BY <1>3, <2>1, <2>2, <2>3
<1> QED BY <1>1, <1>2, <1>3 DEF Held

\* A process that is not at the row leaves it as it is.
LEMMA AwayFrame ==
  ASSUME NEW q, Waiting(q), Held(q), NEW m \in Process,
         \A o \in Process \ {m} : pc'[o] = pc[o] /\ job'[o] = job[o],
         rows'[q].status = rows[q].status,
         \A e \in listed : e.row = q => e \in listed',
         markers'[q] = markers[q],
         ~On(m, q, Lists \cup Marks),
         ~On(m, q, {"unlist", "clear", "unmark"})'
  PROVE  Waiting(q)' /\ Held(q)'
<1>1. Waiting(q)'
  BY WaitingFrame DEF On, Lists, Marks
<1>2. Held(q)'
  BY HeldFrame DEF On, Lists, Marks
<1> QED BY <1>1, <1>2

LEMMA Movers ==
  ASSUME Typed, NEW p \in Process,
         (p \in Feeder /\ Feed(p)) \/ (p \in Drainer /\ Drain(p)) \/ (p \in Sweeper /\ Sweep(p))
            \/ Dies(p)
  PROVE  \A o \in Process \ {p} : pc'[o] = pc[o] /\ job'[o] = job[o]
<1>1. \/ \E step : Goto(p, step)
      \/ \E step, task : At(p, step, task)
  BY DEF Feed, StartEnqueue, StartSeed, Lookup, InsertRow, InsertByUrl, InsertPending,
     Drain, StartDrain, Peek, Claim, Unlist, MarkStarted, Gate, Stamp, Fetch, Close,
     ClearStarted, Release, Sweep, StartSweep, Recheck, Chosen, Reset, Relist, Unmark, Onward, Dies
<1> QED BY <1>1, OthersStay DEF Typed

\* What a drain or a sweep is at, has been listed or marked before.
LEMMA DrainSees ==
  ASSUME Typed, NEW d \in Drainer, Drain(d), NEW q \in Ids, Seen(q)' PROVE Seen(q)
<1>0. /\ d \in Process /\ TypeOK /\ DrainerPlaced(d) /\ q \in RowId
      /\ \A o \in Process \ {d} : pc'[o] = pc[o] /\ job'[o] = job[o]
  BY Movers, LenTyped, BoundAssumption DEF Typed, Placed, Process, Ids, RowId
<1>1. listed' \subseteq listed
  BY DEF Drain, StartDrain, Peek, Claim, Unlist, MarkStarted, Gate, Stamp, Fetch, Close,
     ClearStarted, Release, tables
<1>2. CASE Listed(q)'
  BY <1>1, <1>2 DEF Listed, Seen
<1>3. CASE \E o \in (Drainer \cup Sweeper) \ {d} : AtWork(o, q)'
  <2>1. PICK o \in (Drainer \cup Sweeper) \ {d} : AtWork(o, q)'
    BY <1>3
  <2>2. o \in Process
    BY DEF Process
  <2> QED BY <1>0, <2>1, <2>2 DEF Seen, AtWork, On
<1>4. ASSUME On(d, q, AtRow)' PROVE Seen(q)
  <2>1. CASE Peek(d)
    <3>1. CASE Goto(d, "release")
      BY <1>0, <1>4, <3>1, OthersStay DEF On, AtRow
    <3>2. CASE ~Goto(d, "release")
      <4>1. PICK e \in listed :
            At(d, "claim", [Nothing EXCEPT !.row = e.row, !.at = e.at, !.url = rows[e.row].url,
                                           !.approved = rows[e.row].approved])
        BY <2>1, <3>2 DEF Peek
      <4>2. job'[d].row = e.row
        BY <4>1, <1>0 DEF At, TypeOK, Nothing
      <4> QED BY <1>4, <4>2 DEF On, Seen, Listed
    <3> QED BY <3>1, <3>2
  <2>2. CASE Claim(d) \/ Unlist(d) \/ MarkStarted(d) \/ Gate(d) \/ Stamp(d) \/ Fetch(d) \/ Close(d)
    <3>1. pc[d] \in AtRow
      BY <2>2 DEF Claim, Unlist, MarkStarted, Gate, Stamp, Fetch, Close, AtRow
    <3>2. PICK step \in AtRow : Goto(d, step)
      BY <2>2 DEF Claim, Unlist, MarkStarted, Gate, Stamp, Fetch, Close, AtRow
    <3>3. job'[d] = job[d]
      BY <1>0, <3>2, OthersStay DEF AtRow
    <3> QED BY <1>4, <3>1, <3>3 DEF On, Seen, AtWork
  <2>3. CASE StartDrain(d) \/ ClearStarted(d) \/ Release(d)
    <3>1. \/ \E step \in {"peek", "idle"} : Goto(d, step)
          \/ \E step \in {"peek", "release"} : \E task : At(d, step, task)
      BY <2>3 DEF StartDrain, ClearStarted, Release
    <3> QED BY <1>0, <1>4, <3>1, OthersStay DEF On, AtRow
  <2> QED BY <2>1, <2>2, <2>3 DEF Drain
<1>5. CASE Marked(q)'
  <2>1. CASE MarkStarted(d)
    <3>1. CASE job[d].row = q
      <4>1. On(d, q, AtRow)
        BY <2>1, <3>1 DEF MarkStarted, On, AtRow
      <4> QED BY <4>1 DEF Seen, AtWork
    <3>2. CASE job[d].row # q
      BY <1>0, <1>5, <2>1, <3>2 DEF MarkStarted, TypeOK, Marked, Seen
    <3> QED BY <3>1, <3>2
  <2>2. CASE ~MarkStarted(d)
    <3>1. markers' = markers \/ ClearStarted(d)
      BY <2>2 DEF Drain, StartDrain, Peek, Claim, Unlist, Gate, Stamp, Fetch, Close,
         Release, redis
    <3>2. ClearStarted(d) => markers'[q] \in {markers[q], NoMarker}
      BY <1>0 DEF ClearStarted, Unmarked, TypeOK
    <3> QED BY <1>5, <3>1, <3>2 DEF Marked, Seen
  <2> QED BY <2>1, <2>2
<1>6. d \notin Sweeper
  BY ProcessAssumption
<1> QED BY <1>2, <1>3, <1>4, <1>5, <1>6 DEF Seen, AtWork

LEMMA SweepSees ==
  ASSUME Typed, NEW s \in Sweeper, Sweep(s), NEW q \in Ids, Seen(q)' PROVE Seen(q)
<1>0. /\ s \in Process /\ TypeOK /\ SweeperPlaced(s) /\ q \in RowId
      /\ \A o \in Process \ {s} : pc'[o] = pc[o] /\ job'[o] = job[o]
  BY Movers, LenTyped, BoundAssumption DEF Typed, Placed, Process, Ids, RowId
<1>3. CASE \E o \in (Drainer \cup Sweeper) \ {s} : AtWork(o, q)'
  <2>1. PICK o \in (Drainer \cup Sweeper) \ {s} : AtWork(o, q)'
    BY <1>3
  <2>2. o \in Process
    BY DEF Process
  <2> QED BY <1>0, <2>1, <2>2 DEF Seen, AtWork, On
<1>1. CASE Listed(q)'
  <2>1. CASE Relist(s) /\ job[s].row = q
    <3>1. On(s, q, PutsBack)
      BY <2>1 DEF Relist, On, PutsBack
    <3> QED BY <3>1 DEF Seen, AtWork, On
  <2>2. CASE Relist(s) /\ job[s].row # q
    BY <1>1, <2>2 DEF Relist, Listed, Seen
  <2>3. CASE listed' = listed
    BY <1>1, <2>3 DEF Listed, Seen
  <2> QED BY <2>1, <2>2, <2>3 DEF Sweep, StartSweep, Recheck, Reset, Unmark, tables
<1>2. CASE Marked(q)'
  <2>1. markers' = markers \/ Unmark(s)
    BY DEF Sweep, StartSweep, Recheck, Reset, Relist, redis
  <2>2. Unmark(s) => markers'[q] \in {markers[q], NoMarker}
    BY <1>0 DEF Unmark, Unmarked, TypeOK
  <2> QED BY <1>2, <2>1, <2>2 DEF Marked, Seen
<1>4. CASE AtWork(s, q)'
  <2>n. s \notin Drainer
    BY ProcessAssumption
  <2>1. CASE StartSweep(s)
    <3> DEFINE old == {i \in RowId : markers[i].stale}
               task == [Nothing EXCEPT !.todo = old]
    <3>1. At(s, "recheck", task) /\ task.todo = old
      BY <2>1 DEF StartSweep, Nothing
    <3>2. q \in old => Marked(q)
      BY DEF Marked, NoMarker
    <3> HIDE DEF old
    <3> HIDE DEF task
    <3>3. pc'[s] = "recheck" /\ job'[s] = task
      BY <1>0, <3>1, OthersStay
    <3> QED BY <1>4, <2>n, <3>1, <3>2, <3>3 DEF AtWork, On, PutsBack, Seen
  <2>2. CASE Recheck(s)
    <3>1. PICK r \in job[s].todo, step \in {"reset", "unmark"} : Chosen(s, r, step)
      BY <2>2 DEF Recheck
    <3> DEFINE task == [job[s] EXCEPT !.row = r, !.todo = @ \ {r}]
    <3>2. At(s, step, task)
      BY <3>1 DEF Chosen
    <3>3. task.row = r /\ task.todo \subseteq job[s].todo
      BY <1>0, JobTyped DEF Job
    <3> HIDE DEF task
    <3>4. job'[s] = task
      BY <1>0, <3>2, OthersStay
    <3>5. q \in job[s].todo
      BY <1>4, <2>n, <3>3, <3>4 DEF AtWork, On
    <3>6. pc[s] = "recheck"
      BY <2>2 DEF Recheck
    <3> QED BY <3>5, <3>6 DEF Seen, AtWork
  <2>3. CASE Reset(s) \/ Relist(s)
    <3>1. pc[s] \in PutsBack
      BY <2>3 DEF Reset, Relist, PutsBack
    <3>2. PICK step \in {"relist", "unmark"} : Goto(s, step)
      BY <2>3 DEF Reset, Relist
    <3>3. job'[s] = job[s]
      BY <1>0, <3>2, OthersStay
    <3> QED BY <1>4, <2>n, <3>1, <3>3 DEF AtWork, On, PutsBack, Seen
  <2>4. CASE Unmark(s)
    <3>1. CASE Goto(s, "idle")
      BY <1>0, <1>4, <2>n, <3>1, OthersStay DEF AtWork, On, PutsBack
    <3>2. CASE At(s, "recheck", [job[s] EXCEPT !.row = 0])
      <4> DEFINE task == [job[s] EXCEPT !.row = 0]
      <4>1. task.todo = job[s].todo
        BY <1>0, JobTyped DEF Job
      <4>2. At(s, "recheck", task)
        BY <3>2
      <4> HIDE DEF task
      <4>3. pc'[s] = "recheck" /\ job'[s] = task
        BY <1>0, <4>2, OthersStay
      <4>4. pc[s] # "idle"
        BY <2>4 DEF Unmark
      <4> QED BY <1>4, <2>n, <4>1, <4>3, <4>4 DEF AtWork, On, PutsBack, Seen
    <3> QED BY <2>4, <3>1, <3>2 DEF Unmark, Onward
  <2> QED BY <2>1, <2>2, <2>3, <2>4 DEF Sweep
<1> QED BY <1>1, <1>2, <1>3, <1>4 DEF Seen

LEMMA FeedSees ==
  ASSUME Typed, NEW f \in Feeder, Feed(f), NEW q \in Ids, Seen(q)'
  PROVE  Seen(q) \/ (pc[f] = "list" /\ pc'[f] = "idle" /\ job[f].row = q)
<1>0. /\ f \in Process /\ TypeOK
      /\ \A o \in Process \ {f} : pc'[o] = pc[o] /\ job'[o] = job[o]
  BY Movers DEF Typed, Process
<1>1. markers' = markers
  BY DEF Feed, StartEnqueue, StartSeed, Lookup, InsertRow, InsertByUrl, InsertPending, redis
<1>2. CASE \E o \in Drainer \cup Sweeper : AtWork(o, q)'
  <2>1. PICK o \in Drainer \cup Sweeper : AtWork(o, q)'
    BY <1>2
  <2>2. o \in Process /\ o # f
    BY ProcessAssumption DEF Process
  <2> QED BY <1>0, <2>1, <2>2 DEF Seen, AtWork, On
<1>3. CASE Listed(q)'
  <2>1. CASE InsertPending(f)
    <3>1. pc[f] = "list" /\ pc'[f] = "idle"
      BY <1>0, <2>1, OthersStay DEF InsertPending
    <3>2. job[f].row = q \/ Listed(q)
      BY <1>3, <2>1 DEF InsertPending, Listed
    <3> QED BY <3>1, <3>2 DEF Seen
  <2>2. CASE listed' = listed
    BY <1>3, <2>2 DEF Listed, Seen
  <2> QED BY <2>1, <2>2 DEF Feed, StartEnqueue, StartSeed, Lookup, InsertRow, InsertByUrl, tables
<1> QED BY <1>1, <1>2, <1>3 DEF Seen, Marked

LEMMA OtherSees ==
  ASSUME Typed, NEW q \in Ids, Seen(q)',
         \/ \E i \in RowId : Age(i)
         \/ \E u \in Url : Lapse(u)
         \/ Expire
         \/ \E p \in Process : Dies(p)
         \/ UNCHANGED vars
  PROVE  Seen(q)
<1>1. listed' = listed
  BY DEF Age, Lapse, Expire, Dies, vars, tables
<1>2. Marked(q)' => Marked(q)
  <2>1. q \in RowId /\ TypeOK
    BY LenTyped, BoundAssumption DEF Typed, Ids, RowId
  <2>2. ASSUME NEW i \in RowId, Age(i) PROVE Marked(q)' => Marked(q)
    BY <2>1, <2>2 DEF Age, Marked, TypeOK
  <2> QED BY <2>2 DEF Lapse, Expire, Dies, vars, Marked
<1>3. ASSUME NEW o \in Drainer \cup Sweeper, AtWork(o, q)' PROVE AtWork(o, q)
  <2>1. CASE UNCHANGED <<pc, job>>
    BY <1>3, <2>1 DEF AtWork, On
  <2>2. ASSUME NEW p \in Process, Dies(p) PROVE AtWork(o, q)
    <3>1. pc'[p] = "idle" /\ \A r \in Process \ {p} : pc'[r] = pc[r] /\ job'[r] = job[r]
      BY <2>2, OthersStay DEF Dies, Typed
    <3>2. o # p
      BY <1>3, <3>1 DEF AtWork, On, AtRow, PutsBack
    <3> QED BY <1>3, <3>1, <3>2 DEF AtWork, On, Process
  <2> QED BY <2>1, <2>2 DEF Age, Lapse, Expire, vars
<1> QED BY <1>1, <1>2, <1>3 DEF Seen, Listed

LEMMA UnseenKept ==
  ASSUME Typed, Unseen, [Next]_vars PROVE Unseen'
<1>0. TypeOK /\ Placed /\ Len(rows) \in Nat /\ Feeder \subseteq Process
  BY LenTyped DEF Typed, Process
<1>1. \A f \in Feeder : pc[f] \in PutsIn => job[f].row \in Ids
  BY <1>0 DEF Placed, FeederPlaced, PutsIn
\* A step that takes no feeder in and shows no row.
<1>2. ASSUME \A f \in Feeder : pc'[f] \in PutsIn => pc[f] \in PutsIn /\ job'[f] = job[f],
             \A q \in Ids : Seen(q)' => Seen(q)
      PROVE  Unseen'
  BY <1>1, <1>2 DEF Unseen, On
<1>3. ASSUME NEW d \in Drainer, Drain(d) PROVE Unseen'
  <2>1. d \in Process /\ d \notin Feeder
    BY ProcessAssumption DEF Process
  <2>2. \A f \in Feeder : pc'[f] = pc[f] /\ job'[f] = job[f]
    BY <1>0, <1>3, <2>1, Movers
  <2> QED BY <1>2, <1>3, <2>2, DrainSees
<1>4. ASSUME NEW s \in Sweeper, Sweep(s) PROVE Unseen'
  <2>1. s \in Process /\ s \notin Feeder
    BY ProcessAssumption DEF Process
  <2>2. \A f \in Feeder : pc'[f] = pc[f] /\ job'[f] = job[f]
    BY <1>0, <1>4, <2>1, Movers
  <2> QED BY <1>2, <1>4, <2>2, SweepSees
<1>5. ASSUME \/ \E i \in RowId : Age(i)
             \/ \E u \in Url : Lapse(u)
             \/ Expire
             \/ \E p \in Process : Dies(p)
             \/ UNCHANGED vars
      PROVE  Unseen'
  <2>1. \A q \in Ids : Seen(q)' => Seen(q)
    BY <1>5, OtherSees
  <2>2. CASE UNCHANGED <<pc, job>>
    BY <1>2, <2>1, <2>2
  <2>3. ASSUME NEW p \in Process, Dies(p) PROVE Unseen'
    <3>1. pc'[p] = "idle" /\ \A r \in Process \ {p} : pc'[r] = pc[r] /\ job'[r] = job[r]
      BY <1>0, <2>3, OthersStay DEF Dies
    <3>2. \A f \in Feeder : pc'[f] \in PutsIn => pc[f] \in PutsIn /\ job'[f] = job[f]
      BY <1>0, <3>1 DEF PutsIn
    <3> QED BY <1>2, <2>1, <3>2
  <2> QED BY <1>5, <2>2, <2>3 DEF Age, Lapse, Expire, vars
<1>6. ASSUME NEW f \in Feeder, Feed(f) PROVE Unseen'
  <2>0. \A o \in Feeder \ {f} : pc'[o] = pc[o] /\ job'[o] = job[o]
    BY <1>0, <1>6, Movers
  <2>1. \A q \in Ids : Seen(q)' =>
            Seen(q) \/ (pc[f] = "list" /\ pc'[f] = "idle" /\ job[f].row = q)
    BY <1>6, FeedSees
  <2>2. CASE pc'[f] \notin PutsIn \/ InsertByUrl(f)
    <3>1. pc'[f] \in PutsIn => pc[f] \in PutsIn /\ job'[f] = job[f]
      BY <1>0, <2>2, OthersStay DEF InsertByUrl, PutsIn
    <3>2. ASSUME NEW g \in Feeder, pc'[g] \in PutsIn PROVE ~Seen(job[g].row)'
      <4>1. pc[g] \in PutsIn /\ job'[g] = job[g] /\ job[g].row \in Ids /\ ~Seen(job[g].row)
        BY <1>1, <2>0, <3>1, <3>2 DEF Unseen
      <4>2. g # f => ~(pc[f] = "list" /\ job[f].row = job[g].row)
        BY <3>2, <4>1 DEF Unseen, On, PutsIn
      <4>3. pc'[f] = "idle" => g # f
        BY <3>2 DEF PutsIn
      <4> QED BY <2>1, <4>1, <4>2, <4>3
    <3>3. \A g \in Feeder : pc'[g] \in PutsIn => pc[g] \in PutsIn /\ job'[g] = job[g]
      BY <2>0, <3>1
    <3> QED BY <3>2, <3>3 DEF Unseen, On, Seen, AtWork, Listed, Marked
  <2>3. CASE InsertRow(f)
    <3>n. PICK n : n = Len(rows) + 1
      OBVIOUS
    <3>1. pc'[f] = "index" /\ job'[f].row = n /\ UNCHANGED <<listed, markers>>
      <4> DEFINE task == [job[f] EXCEPT !.row = n]
      <4>1. At(f, "index", task) /\ UNCHANGED <<listed, markers>>
        BY <2>3, <3>n DEF InsertRow, redis
      <4>2. task.row = n
        BY <1>0, JobTyped DEF Job
      <4> HIDE DEF task
      <4>3. pc'[f] = "index" /\ job'[f] = task
        BY <1>0, <4>1, OthersStay
      <4> QED BY <4>1, <4>2, <4>3
    <3>2. n \notin Ids
      BY <1>0, <3>n DEF Ids
    <3>3. ~Seen(n)'
      <4>1. ~Listed(n)'
        BY <1>0, <3>1, <3>2 DEF Listed, Placed
      <4>2. ~Marked(n)'
        <5>1. n \in RowId
          BY <1>0, <2>3, <3>n, BoundAssumption DEF InsertRow, RowId
        <5> QED BY <1>0, <3>1, <3>2, <5>1 DEF Marked, Placed
      <4>3. ASSUME NEW o \in Drainer \cup Sweeper PROVE ~AtWork(o, n)'
        <5>1. pc'[o] = pc[o] /\ job'[o] = job[o]
          BY <1>0, <1>6, Movers, ProcessAssumption DEF Process
        <5>2. o \in Drainer => DrainerPlaced(o)
          BY <1>0 DEF Placed
        <5>3. o \in Sweeper => SweeperPlaced(o)
          BY <1>0 DEF Placed
        <5> QED BY <3>2, <5>1, <5>2, <5>3 DEF AtWork, On, DrainerPlaced, SweeperPlaced, PutsBack
      <4> QED BY <4>1, <4>2, <4>3 DEF Seen
    <3>4. ASSUME NEW g \in Feeder, g # f, pc'[g] \in PutsIn
          PROVE  ~Seen(job[g].row)' /\ job'[g].row # n
      <4>1. pc[g] \in PutsIn /\ job'[g] = job[g] /\ job[g].row \in Ids /\ ~Seen(job[g].row)
        BY <1>1, <2>0, <3>4 DEF Unseen
      <4> QED BY <2>1, <3>1, <3>2, <4>1
    <3>5. ASSUME NEW g \in Feeder, pc'[g] \in PutsIn
          PROVE /\ ~Seen(job[g].row)'
                /\ \A h \in Feeder : On(h, job[g].row, PutsIn)' => h = g
      <4>1. CASE g = f
        BY <3>1, <3>3, <3>4, <3>5, <4>1 DEF On
      <4>2. CASE g # f
        <5>1. job'[g] = job[g] /\ pc[g] \in PutsIn
          BY <2>0, <3>5, <4>2
        <5>2. ~Seen(job[g].row)' /\ job'[g].row # n
          BY <3>4, <3>5, <4>2
        <5>3. ASSUME NEW h \in Feeder, On(h, job[g].row, PutsIn)' PROVE h = g
          BY <2>0, <3>1, <5>1, <5>2, <5>3 DEF On, Unseen
        <5> QED BY <5>1, <5>2, <5>3
      <4> QED BY <4>1, <4>2
    <3> QED BY <3>5 DEF Unseen
  <2>4. pc'[f] \in PutsIn => InsertRow(f) \/ InsertByUrl(f)
    <3>1. StartEnqueue(f) \/ StartSeed(f) \/ Lookup(f) \/ InsertPending(f) =>
             \/ \E step \in {"insert", "idle"} : Goto(f, step)
             \/ \E step \in {"lookup", "insert"} : \E task : At(f, step, task)
      BY DEF StartEnqueue, StartSeed, Lookup, InsertPending
    <3> QED BY <1>0, <1>6, <3>1, OthersStay DEF Feed, PutsIn
  <2> QED BY <2>2, <2>3, <2>4
<1> QED BY <1>3, <1>4, <1>5, <1>6 DEF Next

LEMMA DatedKept ==
  ASSUME Typed, Dated, [Next]_vars PROVE Dated'
<1>0. /\ TypeOK /\ Placed /\ Len(rows) \in Nat /\ rows \in Seq(Row)
      /\ Feeder \cup Drainer \cup Sweeper \subseteq Process
  BY LenTyped DEF Typed, Process
<1>r. \A q \in Ids : rows[q] \in Row
  BY <1>0, ElementOfSeq DEF Ids
<1>l. \A e \in listed : e.at \in Nat /\ e.row \in Ids
  BY <1>0 DEF TypeOK, Entry, Placed
<1>j. \A p \in Process : job[p].at \in Nat
  BY <1>0, JobTyped DEF Job
\* The rows get no older, no listing is new and no drain reads one.
<1>f. ASSUME \A q \in Ids : rows'[q].at \in Nat /\ rows'[q].at >= rows[q].at,
             listed' \subseteq listed,
             \A d \in Drainer : pc'[d] \in Takes => pc[d] \in Takes /\ job'[d] = job[d]
      PROVE  Dated'
  <2>1. \A e \in listed' : e.at <= rows'[e.row].at
    <3> SUFFICES ASSUME NEW e \in listed' PROVE e.at <= rows'[e.row].at
      OBVIOUS
    <3>1. e.at <= rows[e.row].at /\ e.row \in Ids /\ e.at \in Nat
      BY <1>f, <1>l DEF Dated
    <3>2. rows[e.row].at \in Nat
      BY <1>r, <3>1 DEF Row
    <3> QED BY <1>f, <3>1, <3>2
  <2>2. ASSUME NEW d \in Drainer, pc'[d] \in Takes PROVE job'[d].at <= rows'[job'[d].row].at
    <3>1. pc[d] \in Takes /\ job'[d] = job[d] /\ job[d].row \in Ids /\ job[d].at \in Nat
      BY <1>0, <1>f, <1>j, <2>2 DEF Placed, DrainerPlaced, Takes, AtRow
    <3>2. job[d].at <= rows[job[d].row].at /\ rows[job[d].row].at \in Nat
      BY <1>r, <3>1 DEF Dated, Row
    <3> QED BY <1>f, <3>1, <3>2
  <2> QED BY <2>1, <2>2 DEF Dated
<1>s. UNCHANGED rows => \A q \in Ids : rows'[q].at \in Nat /\ rows'[q].at >= rows[q].at
  BY <1>r DEF Row
<1>t. ASSUME NEW q \in Ids, NEW st \in {"pending", "processing", "done"}, SetStatus(q, st)
      PROVE  \A i \in Ids : rows'[i].at \in Nat /\ rows'[i].at >= rows[i].at
  <2>1. \A i \in Ids : rows'[i].at = rows[i].at
    BY <1>0, <1>t, StatusChanges
  <2> QED BY <1>r, <2>1 DEF Row
<1>1. ASSUME NEW f \in Feeder, Feed(f) PROVE Dated'
  <2>1. f \notin Drainer /\ \A d \in Drainer : pc'[d] = pc[d] /\ job'[d] = job[d]
    BY <1>0, <1>1, Movers, ProcessAssumption
  <2>2. CASE InsertRow(f)
    <3>1. PICK row : row \in Row /\ rows' = Append(rows, row)
      BY <2>2, <1>0, JobTyped DEF InsertRow, Placed, FeederPlaced, Feeding, Row, Job
    <3>2. \A q \in Ids : rows'[q] = rows[q]
      BY <1>0, <3>1, AppendProperties DEF Ids
    <3>3. listed' = listed
      BY <2>2 DEF InsertRow
    <3> QED BY <1>f, <1>r, <2>1, <3>2, <3>3 DEF Row
  <2>3. CASE InsertPending(f)
    <3>1. job[f].row \in Ids /\ rows' = rows /\ listed' = listed \cup {[row |-> job[f].row, at |-> 0]}
      BY <1>0, <2>3 DEF InsertPending, Placed, FeederPlaced
    <3>2. rows[job[f].row].at \in Nat
      BY <1>r, <3>1 DEF Row
    <3> QED BY <2>1, <3>1, <3>2 DEF Dated
  <2>4. CASE StartEnqueue(f) \/ StartSeed(f) \/ Lookup(f) \/ InsertByUrl(f)
    <3>1. UNCHANGED <<rows, listed>>
      BY <2>4 DEF StartEnqueue, StartSeed, Lookup, InsertByUrl, tables
    <3> QED BY <1>f, <1>s, <2>1, <3>1
  <2> QED BY <1>1, <2>2, <2>3, <2>4 DEF Feed
<1>2. ASSUME NEW d \in Drainer, Drain(d) PROVE Dated'
  <2>1. \A o \in Drainer \ {d} : pc'[o] = pc[o] /\ job'[o] = job[o]
    BY <1>0, <1>2, Movers
  <2>2. CASE Peek(d)
    <3>1. UNCHANGED <<rows, listed>>
      BY <2>2 DEF Peek, tables
    <3>2. CASE Goto(d, "release")
      <4>1. pc'[d] = "release"
        BY <1>0, <3>2, OthersStay
      <4> QED BY <1>f, <1>s, <2>1, <3>1, <4>1 DEF Takes
    <3>3. CASE ~Goto(d, "release")
      <4>1. PICK e \in listed :
            At(d, "claim", [Nothing EXCEPT !.row = e.row, !.at = e.at, !.url = rows[e.row].url,
                                           !.approved = rows[e.row].approved])
        BY <2>2, <3>3 DEF Peek
      <4>2. job'[d].row = e.row /\ job'[d].at = e.at
        BY <1>0, <4>1 DEF At, TypeOK, Nothing
      <4> QED BY <2>1, <3>1, <4>2 DEF Dated
    <3> QED BY <3>2, <3>3
  <2>3. CASE Claim(d)
    <3>1. /\ job[d].row \in Ids /\ SetStatus(job[d].row, "processing")
          /\ pc[d] = "claim" /\ job'[d] = job[d] /\ listed' = listed
      BY <1>0, <2>3, OthersStay DEF Claim, Placed, DrainerPlaced, AtRow
    <3> QED BY <1>f, <1>t, <2>1, <3>1 DEF Takes
  <2>4. CASE Close(d)
    <3>1. /\ job[d].row \in Ids /\ SetStatus(job[d].row, "done")
          /\ pc'[d] = "clear" /\ listed' = listed
      BY <1>0, <2>4, OthersStay DEF Close, Placed, DrainerPlaced, AtRow
    <3> QED BY <1>f, <1>t, <2>1, <3>1 DEF Takes
  <2>5. CASE \/ StartDrain(d) \/ Unlist(d) \/ MarkStarted(d) \/ Gate(d) \/ Stamp(d) \/ Fetch(d)
             \/ ClearStarted(d) \/ Release(d)
    <3>1. rows' = rows /\ listed' \subseteq listed
      BY <2>5 DEF StartDrain, Unlist, MarkStarted, Gate, Stamp, Fetch, ClearStarted, Release, tables
    <3>2. \/ \E step \in {"peek", "mark", "gate", "close", "stamp", "fetch", "idle"} : Goto(d, step)
          \/ \E step \in {"peek", "release"} : \E task : At(d, step, task)
      BY <2>5 DEF StartDrain, Unlist, MarkStarted, Gate, Stamp, Fetch, ClearStarted, Release
    <3>3. pc'[d] \notin Takes
      BY <1>0, <3>2, OthersStay DEF Takes
    <3> QED BY <1>f, <1>s, <2>1, <3>1, <3>3
  <2> QED BY <1>2, <2>2, <2>3, <2>4, <2>5 DEF Drain
<1>3. ASSUME NEW s \in Sweeper, Sweep(s) PROVE Dated'
  <2>1. s \notin Drainer /\ \A d \in Drainer : pc'[d] = pc[d] /\ job'[d] = job[d]
    BY <1>0, <1>3, Movers, ProcessAssumption
  <2>2. CASE Reset(s)
    <3>1. job[s].row \in Ids /\ SetStatus(job[s].row, "pending") /\ listed' = listed
      BY <1>0, <2>2 DEF Reset, Placed, SweeperPlaced
    <3> QED BY <1>f, <1>t, <2>1, <3>1
  <2>3. CASE Relist(s)
    <3>1. PICK r \in Ids : /\ rows' = [rows EXCEPT ![r].at = @ + 1]
                           /\ listed' = listed \cup {[row |-> r, at |-> rows[r].at + 1]}
      BY <1>0, <2>3 DEF Relist, Placed, SweeperPlaced
    <3>2. rows'[r].at = rows[r].at + 1 /\ \A i \in Ids \ {r} : rows'[i] = rows[i]
      BY <1>0, <3>1, DateChanges
    <3>3. \A i \in Ids : rows[i].at \in Nat /\ rows'[i].at \in Nat /\ rows'[i].at >= rows[i].at
      BY <1>r, <3>2 DEF Row
    <3>4. \A e \in listed' : e.at <= rows'[e.row].at
      <4> SUFFICES ASSUME NEW e \in listed' PROVE e.at <= rows'[e.row].at
        OBVIOUS
      <4>1. CASE e \in listed
        <5>1. e.at <= rows[e.row].at /\ e.row \in Ids /\ e.at \in Nat
          BY <1>l, <4>1 DEF Dated
        <5> QED BY <3>3, <5>1
      <4>2. CASE e = [row |-> r, at |-> rows[r].at + 1]
        BY <3>2, <3>3, <4>2
      <4> QED BY <3>1, <4>1, <4>2
    <3>5. ASSUME NEW d \in Drainer, pc'[d] \in Takes PROVE job'[d].at <= rows'[job'[d].row].at
      <4>1. pc[d] \in Takes /\ job'[d] = job[d] /\ job[d].row \in Ids /\ job[d].at \in Nat
        BY <1>0, <1>j, <2>1, <3>5 DEF Placed, DrainerPlaced, Takes, AtRow
      <4>2. job[d].at <= rows[job[d].row].at
        BY <4>1 DEF Dated
      <4> QED BY <3>3, <4>1, <4>2
    <3> QED BY <3>4, <3>5 DEF Dated
  <2>4. CASE UNCHANGED <<rows, listed>>
    BY <1>f, <1>s, <2>1, <2>4
  <2> QED BY <1>3, <2>2, <2>3, <2>4 DEF Sweep, StartSweep, Recheck, Unmark, tables
<1>4. ASSUME \/ \E i \in RowId : Age(i)
             \/ \E u \in Url : Lapse(u)
             \/ Expire
             \/ \E p \in Process : Dies(p)
             \/ UNCHANGED vars
      PROVE  Dated'
  <2>1. UNCHANGED <<rows, listed>>
    BY <1>4 DEF Age, Lapse, Expire, Dies, vars, tables
  <2>2. CASE UNCHANGED <<pc, job>>
    BY <1>f, <1>s, <2>1, <2>2
  <2>3. ASSUME NEW p \in Process, Dies(p) PROVE Dated'
    <3>1. pc'[p] = "idle" /\ \A r \in Process \ {p} : pc'[r] = pc[r] /\ job'[r] = job[r]
      BY <1>0, <2>3, OthersStay DEF Dies
    <3>2. \A d \in Drainer : pc'[d] \in Takes => pc[d] \in Takes /\ job'[d] = job[d]
      BY <1>0, <3>1 DEF Takes
    <3> QED BY <1>f, <1>s, <2>1, <3>2
  <2> QED BY <1>4, <2>2, <2>3 DEF Age, Lapse, Expire, vars
<1> QED BY <1>1, <1>2, <1>3, <1>4 DEF Next

LEMMA FeedLeavesNone ==
  ASSUME Typed, Within, NEW f \in Feeder, Feed(f)
  PROVE  \A q \in Ids' \ lost' : (Waiting(q) /\ Held(q))'
<1>0. /\ TypeOK /\ Placed /\ Len(rows) \in Nat /\ rows \in Seq(Row) /\ f \in Process
      /\ FeederPlaced(f) /\ \A o \in Process \ {f} : pc'[o] = pc[o] /\ job'[o] = job[o]
  BY LenTyped, Movers DEF Typed, Process, Placed
<1>1. UNCHANGED <<markers, lost>>
  BY DEF Feed, StartEnqueue, StartSeed, Lookup, InsertRow, InsertByUrl, InsertPending, redis, history
<1>q. \A q \in Ids \ lost : Waiting(q) /\ Held(q)
  BY DEF Within
<1>2. CASE StartEnqueue(f) \/ StartSeed(f) \/ Lookup(f)
  <2>1. UNCHANGED <<rows, listed>> /\ pc[f] \in {"idle", "lookup"}
    BY <1>2 DEF StartEnqueue, StartSeed, Lookup, tables
  <2>2. pc'[f] \in {"lookup", "insert", "idle"}
    <3>1. \/ \E step \in {"insert", "idle"} : Goto(f, step)
          \/ \E step \in {"lookup", "insert"} : \E task : At(f, step, task)
      BY <1>2 DEF StartEnqueue, StartSeed, Lookup
    <3> QED BY <1>0, <3>1, OthersStay
  <2>3. \A q : ~On(f, q, Lists \cup Marks) /\ ~On(f, q, {"unlist", "clear", "unmark"})'
    BY <2>1, <2>2 DEF On, Lists, Marks
  <2> QED BY <1>0, <1>1, <1>q, <2>1, <2>3, AwayFrame DEF Ids
<1>3. CASE InsertRow(f)
  <2>n. PICK n : n = Len(rows) + 1
    OBVIOUS
  <2>1. PICK row : row \in Row /\ row.status = "pending" /\ rows' = Append(rows, row)
    BY <1>0, <1>3, JobTyped DEF InsertRow, FeederPlaced, Feeding, Row, Job
  <2>2. /\ \A q \in Ids : rows'[q] = rows[q]
        /\ Ids' = Ids \cup {n} /\ n \notin Ids /\ rows'[n] = row
    BY <1>0, <2>1, <2>n, AppendProperties DEF Ids
  <2>3. pc[f] = "insert" /\ pc'[f] = "index" /\ job'[f].row = n /\ listed' = listed
    <3> DEFINE task == [job[f] EXCEPT !.row = n]
    <3>1. At(f, "index", task) /\ pc[f] = "insert" /\ listed' = listed
      BY <1>3, <2>n DEF InsertRow
    <3>2. task.row = n
      BY <1>0, JobTyped DEF Job
    <3> HIDE DEF task
    <3>3. pc'[f] = "index" /\ job'[f] = task
      BY <1>0, <3>1, OthersStay
    <3> QED BY <3>1, <3>2, <3>3
  <2>4. ASSUME NEW q \in Ids \ lost PROVE (Waiting(q) /\ Held(q))'
    <3>1. ~On(f, q, Lists \cup Marks) /\ ~On(f, q, {"unlist", "clear", "unmark"})'
      BY <2>3 DEF On, Lists, Marks
    <3> QED BY <1>0, <1>1, <1>q, <2>2, <2>3, <2>4, <3>1, AwayFrame
  <2>5. (Waiting(n) /\ Held(n))'
    <3>1. On(f, n, Lists)'
      BY <2>3 DEF On, Lists
    <3>2. rows'[n].status = "pending"
      BY <2>1, <2>2
    <3> QED BY <1>0, <3>1, <3>2 DEF Waiting, Held
  <2> QED BY <1>1, <2>2, <2>4, <2>5
<1>4. CASE InsertByUrl(f)
  <2>1. /\ UNCHANGED <<rows, listed>> /\ pc[f] = "index" /\ pc'[f] = "list" /\ job'[f] = job[f]
    BY <1>0, <1>4, OthersStay DEF InsertByUrl
  <2>2. ASSUME NEW q \in Ids \ lost PROVE (Waiting(q) /\ Held(q))'
    <3>1. On(f, q, Lists) => On(f, q, Lists)'
      BY <2>1 DEF On, Lists
    <3>2. ~On(f, q, Marks) /\ ~On(f, q, {"unlist"})' /\ ~On(f, q, {"clear"})' /\ ~On(f, q, {"unmark"})'
      BY <2>1 DEF On, Marks
    <3>3. Waiting(q)'
      BY <1>0, <1>q, <2>1, <3>1, <3>2, WaitingFrame
    <3>4. Held(q)'
      BY <1>0, <1>1, <1>q, <2>1, <3>2, HeldFrame
    <3> QED BY <3>3, <3>4
  <2> QED BY <1>1, <2>1, <2>2 DEF Ids
<1>5. CASE InsertPending(f)
  <2>1. PICK r : r = job[f].row
    OBVIOUS
  <2>2. /\ rows' = rows /\ pc[f] = "list" /\ pc'[f] = "idle"
        /\ listed' = listed \cup {[row |-> r, at |-> 0]}
    BY <1>0, <1>5, <2>1, OthersStay DEF InsertPending
  <2>3. ASSUME NEW q \in Ids \ lost, q # r PROVE (Waiting(q) /\ Held(q))'
    <3>1. ~On(f, q, Lists \cup Marks) /\ ~On(f, q, {"unlist", "clear", "unmark"})'
      BY <2>1, <2>2, <2>3 DEF On
    <3> QED BY <1>0, <1>1, <1>q, <2>2, <2>3, <3>1, AwayFrame
  <2>4. (Waiting(r) /\ Held(r))'
    <3> DEFINE e == [row |-> r, at |-> 0]
    <3>1. e \in listed' /\ e.row = r
      BY <2>2
    <3>2. ASSUME NEW d \in Drainer PROVE ~On(d, r, {"unlist"})'
      <4>1. ~Seen(r)
        BY <2>1, <2>2 DEF Within, Unseen, PutsIn
      <4>2. ~On(d, r, {"unlist"})
        BY <4>1 DEF Seen, AtWork, On, AtRow
      <4>3. d \in Process /\ d # f
        BY ProcessAssumption DEF Process
      <4> QED BY <1>0, <4>2, <4>3 DEF On
    <3> HIDE DEF e
    <3> QED BY <3>1, <3>2 DEF Waiting, Held, Listed
  <2> QED BY <1>1, <2>2, <2>3, <2>4 DEF Ids
<1> QED BY <1>2, <1>3, <1>4, <1>5 DEF Feed

LEMMA DrainLeavesNone ==
  ASSUME Typed, Within, NEW d \in Drainer, Drain(d)
  PROVE  \A q \in Ids' \ lost' : (Waiting(q) /\ Held(q))'
<1>0. /\ TypeOK /\ Placed /\ Len(rows) \in Nat /\ rows \in Seq(Row) /\ d \in Process
      /\ DrainerPlaced(d) /\ \A o \in Process \ {d} : pc'[o] = pc[o] /\ job'[o] = job[o]
  BY LenTyped, Movers DEF Typed, Process, Placed
<1>i. Ids \subseteq RowId
  BY <1>0, LenTyped, BoundAssumption DEF Ids, RowId
<1>l. lost \subseteq lost'
  BY DEF Drain, StartDrain, Peek, Claim, Unlist, MarkStarted, Gate, Stamp, Fetch, Close,
     ClearStarted, Release, history
<1>q. \A q \in Ids \ lost' : Waiting(q) /\ Held(q)
  BY <1>l DEF Within
<1>r. PICK r : r = job[d].row
  OBVIOUS
\* The rows that d is not at.
<1>a. ASSUME NEW q \in Ids \ lost',
             ~On(d, q, Lists \cup Marks), ~On(d, q, {"unlist", "clear", "unmark"})',
             rows'[q].status = rows[q].status, markers'[q] = markers[q],
             \A e \in listed : e.row = q => e \in listed'
      PROVE  (Waiting(q) /\ Held(q))'
  BY <1>0, <1>q, <1>a, AwayFrame
<1>1. CASE StartDrain(d) \/ Peek(d) \/ Release(d)
  <2>1. UNCHANGED <<rows, listed, markers>> /\ pc[d] \in {"idle", "peek", "release"}
    BY <1>1 DEF StartDrain, Peek, Release, tables, redis
  <2>2. pc'[d] \in {"peek", "claim", "release", "idle"}
    <3>1. \/ \E step \in {"peek", "release", "idle"} : Goto(d, step)
          \/ \E step \in {"claim"} : \E task : At(d, step, task)
      BY <1>1 DEF StartDrain, Peek, Release
    <3> QED BY <1>0, <3>1, OthersStay
  <2>3. \A q : ~On(d, q, Lists \cup Marks) /\ ~On(d, q, {"unlist", "clear", "unmark"})'
    BY <2>1, <2>2 DEF On, Lists, Marks
  <2> QED BY <1>a, <2>1, <2>3 DEF Ids
<1>2. CASE Claim(d)
  <2>1. /\ SetStatus(r, "processing") /\ r \in Ids /\ pc[d] = "claim" /\ pc'[d] = "unlist"
        /\ job'[d] = job[d] /\ UNCHANGED <<listed, markers>>
    BY <1>0, <1>2, <1>r, OthersStay DEF Claim, DrainerPlaced, AtRow, redis
  <2>2. /\ Ids' = Ids /\ rows'[r].status = "processing"
        /\ \A q \in Ids \ {r} : rows'[q] = rows[q]
    BY <1>0, <2>1, StatusChanges DEF Ids
  <2>3. ASSUME NEW q \in Ids \ lost', q # r PROVE (Waiting(q) /\ Held(q))'
    <3>1. ~On(d, q, Lists \cup Marks) /\ ~On(d, q, {"unlist", "clear", "unmark"})'
      BY <1>r, <2>1, <2>3 DEF On
    <3> QED BY <1>a, <2>1, <2>2, <2>3, <3>1
  <2>4. (Waiting(r) /\ Held(r))'
    <3>1. On(d, r, Marks)'
      BY <1>r, <2>1 DEF On, Marks
    <3> QED BY <1>0, <2>2, <3>1 DEF Waiting, Held
  <2> QED BY <2>2, <2>3, <2>4
<1>3. CASE Unlist(d)
  <2>1. /\ rows' = rows /\ markers' = markers /\ pc[d] = "unlist" /\ pc'[d] = "mark"
        /\ job'[d] = job[d] /\ listed' = listed \ {[row |-> r, at |-> job[d].at]}
    BY <1>0, <1>3, <1>r, OthersStay DEF Unlist, redis
  <2>2. ASSUME NEW q \in Ids \ lost', q # r PROVE (Waiting(q) /\ Held(q))'
    <3>1. ~On(d, q, Lists \cup Marks) /\ ~On(d, q, {"unlist", "clear", "unmark"})'
      BY <1>r, <2>1, <2>2 DEF On
    <3>2. \A e \in listed : e.row = q => e \in listed'
      BY <2>1, <2>2
    <3> QED BY <1>a, <2>1, <2>2, <3>1, <3>2
  <2>3. ASSUME r \in Ids \ lost' PROVE (Waiting(r) /\ Held(r))'
    <3>1. On(d, r, Marks)' /\ On(d, r, {"unlist"})
      BY <1>r, <2>1 DEF On, Marks
    <3>2. Held(r)'
      BY <1>0, <3>1 DEF Held
    <3>3. CASE \E p \in Process : On(p, r, Lists)
      <4>1. PICK p \in Process : On(p, r, Lists)
        BY <3>3
      <4>2. p # d
        BY <2>1, <4>1 DEF On, Lists
      <4> QED BY <1>0, <3>2, <4>1, <4>2 DEF Waiting, On
    <3>4. ASSUME NEW e \in listed, e.row = r,
                 \A c \in Drainer : On(c, r, {"unlist"}) => job[c].at # e.at
          PROVE  Waiting(r)'
      <4>1. e \in listed'
        BY <2>1, <3>1, <3>4
      <4>2. ASSUME NEW c \in Drainer, On(c, r, {"unlist"})' PROVE job'[c].at # e.at
        <5>1. c # d /\ c \in Process
          BY <2>1, <4>2 DEF On, Process
        <5> QED BY <1>0, <3>4, <4>2, <5>1 DEF On
      <4> QED BY <3>4, <4>1, <4>2 DEF Waiting
    <3>5. rows[r].status # "pending" => Waiting(r)'
      BY <2>1 DEF Waiting
    <3> QED BY <1>q, <2>3, <3>2, <3>3, <3>4, <3>5 DEF Waiting
  <2> QED BY <2>1, <2>2, <2>3 DEF Ids
<1>4. CASE MarkStarted(d)
  <2>1. /\ UNCHANGED <<rows, listed>> /\ pc[d] = "mark" /\ pc'[d] = "gate" /\ job'[d] = job[d]
        /\ r \in Ids
    BY <1>0, <1>4, <1>r, OthersStay DEF MarkStarted, DrainerPlaced, AtRow, tables
  <2>2. \/ markers' = [markers EXCEPT ![r] = [by |-> d, stale |-> FALSE]]
        \/ r \in lost' /\ markers' = markers
    BY <1>4, <1>r DEF MarkStarted
  <2>3. ASSUME NEW q \in Ids \ lost', q # r PROVE (Waiting(q) /\ Held(q))'
    <3>1. ~On(d, q, Lists \cup Marks) /\ ~On(d, q, {"unlist", "clear", "unmark"})'
      BY <1>r, <2>1, <2>3 DEF On
    <3>2. markers'[q] = markers[q]
      BY <1>0, <1>i, <2>2, <2>3 DEF TypeOK
    <3> QED BY <1>a, <2>1, <2>3, <3>1, <3>2
  <2>4. ASSUME r \notin lost' PROVE (Waiting(r) /\ Held(r))'
    <3>1. Waiting(r)'
      <4>1. ~On(d, r, Lists) /\ ~On(d, r, {"unlist"})'
        BY <2>1 DEF On, Lists
      <4> QED BY <1>0, <1>q, <2>1, <2>4, <4>1, WaitingFrame
    <3>2. markers'[r] = [by |-> d, stale |-> FALSE]
      BY <1>0, <1>i, <2>1, <2>2, <2>4 DEF TypeOK
    <3>3. Marked(r)' /\ ~markers'[r].stale /\ markers'[r].by = d
      BY <3>2, ProcessAssumption DEF Marked, NoMarker
    <3>4. ~On(d, r, {"clear"})'
      BY <2>1 DEF On
    <3> QED BY <3>1, <3>3, <3>4 DEF Held
  <2> QED BY <2>1, <2>3, <2>4 DEF Ids
<1>5. CASE Gate(d) \/ Stamp(d) \/ Fetch(d)
  <2>1. UNCHANGED <<rows, listed, markers>> /\ pc[d] \in {"gate", "stamp", "fetch"}
    BY <1>5 DEF Gate, Stamp, Fetch, tables, redis
  <2>2. pc'[d] \in {"stamp", "fetch", "close"}
    <3>1. \E step \in {"stamp", "fetch", "close"} : Goto(d, step)
      BY <1>5 DEF Gate, Stamp, Fetch
    <3> QED BY <1>0, <3>1, OthersStay
  <2>3. \A q : ~On(d, q, Lists \cup Marks) /\ ~On(d, q, {"unlist", "clear", "unmark"})'
    BY <2>1, <2>2 DEF On, Lists, Marks
  <2> QED BY <1>a, <2>1, <2>3 DEF Ids
<1>6. CASE Close(d)
  <2>1. /\ SetStatus(r, "done") /\ r \in Ids /\ pc[d] = "close" /\ pc'[d] = "clear"
        /\ job'[d] = job[d] /\ UNCHANGED <<listed, markers>>
    BY <1>0, <1>6, <1>r, OthersStay DEF Close, DrainerPlaced, AtRow, redis
  <2>2. /\ Ids' = Ids /\ rows'[r].status = "done"
        /\ \A q \in Ids \ {r} : rows'[q] = rows[q]
    BY <1>0, <2>1, StatusChanges DEF Ids
  <2>3. ASSUME NEW q \in Ids \ lost', q # r PROVE (Waiting(q) /\ Held(q))'
    <3>1. ~On(d, q, Lists \cup Marks) /\ ~On(d, q, {"unlist", "clear", "unmark"})'
      BY <1>r, <2>1, <2>3 DEF On
    <3> QED BY <1>a, <2>1, <2>2, <2>3, <3>1
  <2>4. (Waiting(r) /\ Held(r))'
    BY <2>2 DEF Waiting, Held
  <2> QED BY <2>2, <2>3, <2>4
<1>7. CASE ClearStarted(d)
  <2>1. UNCHANGED <<rows, listed>> /\ pc[d] = "clear" /\ pc'[d] \in {"peek", "release"}
    <3>1. UNCHANGED <<rows, listed>> /\ pc[d] = "clear"
      BY <1>7 DEF ClearStarted, tables
    <3>2. PICK step \in {"peek", "release"} : At(d, step, Nothing)
      BY <1>7 DEF ClearStarted
    <3> QED BY <1>0, <3>1, <3>2, OthersStay
  <2>o. \A q : ~On(d, q, Lists \cup Marks) /\ ~On(d, q, {"unlist", "clear", "unmark"})'
    BY <2>1 DEF On, Lists, Marks
  <2>2. \/ markers' = [markers EXCEPT ![r] = NoMarker]
           /\ lost' = IF markers[r].by \in {d, Nobody} THEN lost ELSE lost \cup {r}
        \/ markers' = markers
    BY <1>7, <1>r DEF ClearStarted, Unmarked
  <2>3. ASSUME NEW q \in Ids \ lost', q # r PROVE (Waiting(q) /\ Held(q))'
    <3>1. markers'[q] = markers[q]
      BY <1>0, <1>i, <2>2, <2>3 DEF TypeOK
    <3> QED BY <1>a, <2>1, <2>o, <2>3, <3>1
  <2>4. ASSUME r \in Ids \ lost' PROVE (Waiting(r) /\ Held(r))'
    <3>1. CASE markers' = markers
      BY <1>a, <2>1, <2>o, <2>4, <3>1
    <3>2. CASE markers' # markers
      <4>1. markers[r].by \in {d, Nobody}
        BY <2>2, <2>4, <3>2
      <4>2. ~(Marked(r) /\ markers[r].by # d)
        BY <1>0, <1>i, <2>4, <4>1, ProcessAssumption DEF TypeOK, Marked, Marker
      <4>3. Waiting(r)'
        BY <1>0, <1>q, <2>1, <2>o, <2>4, WaitingFrame DEF On, Lists
      <4>4. On(d, r, {"clear"})
        BY <1>r, <2>1 DEF On
      <4>5. rows[r].status = "processing" => Listed(r) \/ \E p \in Process : On(p, r, Marks)
        BY <1>q, <2>4, <4>2, <4>4 DEF Held
      <4>6. \A p \in Process : On(p, r, Marks) => On(p, r, Marks)'
        BY <1>0, <2>o DEF On
      <4>7. Listed(r) => Listed(r)'
        BY <2>1 DEF Listed
      <4>8. Held(r)'
        BY <2>1, <4>5, <4>6, <4>7 DEF Held
      <4> QED BY <4>3, <4>8
    <3> QED BY <3>1, <3>2
  <2> QED BY <2>1, <2>3, <2>4 DEF Ids
<1> QED BY <1>1, <1>2, <1>3, <1>4, <1>5, <1>6, <1>7 DEF Drain

LEMMA SweepLeavesNone ==
  ASSUME Typed, Within, NEW s \in Sweeper, Sweep(s)
  PROVE  \A q \in Ids' \ lost' : (Waiting(q) /\ Held(q))'
<1>0. /\ TypeOK /\ Placed /\ Len(rows) \in Nat /\ rows \in Seq(Row) /\ s \in Process
      /\ SweeperPlaced(s) /\ \A o \in Process \ {s} : pc'[o] = pc[o] /\ job'[o] = job[o]
      /\ s \notin Drainer
  BY LenTyped, Movers, ProcessAssumption DEF Typed, Process, Placed
<1>i. Ids \subseteq RowId
  BY <1>0, LenTyped, BoundAssumption DEF Ids, RowId
<1>l. lost \subseteq lost'
  BY DEF Sweep, StartSweep, Recheck, Reset, Relist, Unmark, history
<1>q. \A q \in Ids \ lost' : Waiting(q) /\ Held(q)
  BY <1>l DEF Within
<1>r. PICK r : r = job[s].row
  OBVIOUS
\* The rows that s is not at.
<1>a. ASSUME NEW q \in Ids \ lost',
             ~On(s, q, Lists \cup Marks), ~On(s, q, {"unlist", "clear", "unmark"})',
             rows'[q].status = rows[q].status, markers'[q] = markers[q],
             \A e \in listed : e.row = q => e \in listed'
      PROVE  (Waiting(q) /\ Held(q))'
  BY <1>0, <1>q, <1>a, AwayFrame
<1>1. CASE StartSweep(s)
  <2>1. UNCHANGED <<rows, listed, markers>> /\ pc[s] = "idle" /\ pc'[s] = "recheck"
    <3>1. UNCHANGED <<rows, listed, markers>> /\ pc[s] = "idle" /\ \E task : At(s, "recheck", task)
      BY <1>1 DEF StartSweep, tables, redis
    <3> QED BY <1>0, <3>1, OthersStay
  <2>2. \A q : ~On(s, q, Lists \cup Marks) /\ ~On(s, q, {"unlist", "clear", "unmark"})'
    BY <2>1 DEF On, Lists, Marks
  <2> QED BY <1>a, <2>1, <2>2 DEF Ids
<1>2. CASE Recheck(s)
  <2>1. UNCHANGED <<rows, listed, markers>> /\ pc[s] = "recheck"
    BY <1>2 DEF Recheck, tables, redis
  <2>2. PICK i \in job[s].todo, step \in {"reset", "unmark"} :
           Chosen(s, i, step) /\ (step = "unmark" => rows[i].status # "processing")
    BY <1>2 DEF Recheck
  <2>3. pc'[s] = step /\ job'[s].row = i
    <3> DEFINE task == [job[s] EXCEPT !.row = i, !.todo = @ \ {i}]
    <3>1. At(s, step, task)
      BY <2>2 DEF Chosen
    <3>2. task.row = i
      BY <1>0, JobTyped DEF Job
    <3> HIDE DEF task
    <3>3. pc'[s] = step /\ job'[s] = task
      BY <1>0, <3>1, OthersStay
    <3> QED BY <3>2, <3>3
  <2>4. ASSUME NEW q \in Ids \ lost' PROVE (Waiting(q) /\ Held(q))'
    <3>1. ~On(s, q, Lists) /\ ~On(s, q, Marks) /\ ~On(s, q, {"unlist"})' /\ ~On(s, q, {"clear"})'
      BY <2>1, <2>3 DEF On, Lists, Marks
    <3>2. Waiting(q)'
      BY <1>0, <1>q, <2>1, <2>4, <3>1, WaitingFrame
    <3>3. On(s, q, {"unmark"})' => rows[q].status # "processing"
      BY <2>2, <2>3 DEF On
    <3>4. Held(q)'
      BY <1>0, <1>q, <2>1, <2>4, <3>1, <3>3, HeldFrame
    <3> QED BY <3>2, <3>4
  <2> QED BY <2>1, <2>4 DEF Ids
<1>3. CASE Reset(s)
  <2>1. /\ SetStatus(r, "pending") /\ r \in Ids /\ pc[s] = "reset" /\ pc'[s] = "relist"
        /\ job'[s] = job[s] /\ UNCHANGED <<listed, markers>>
    BY <1>0, <1>3, <1>r, OthersStay DEF Reset, SweeperPlaced, redis
  <2>2. /\ Ids' = Ids /\ rows'[r].status = "pending"
        /\ \A q \in Ids \ {r} : rows'[q] = rows[q]
    BY <1>0, <2>1, StatusChanges DEF Ids
  <2>3. ASSUME NEW q \in Ids \ lost', q # r PROVE (Waiting(q) /\ Held(q))'
    <3>1. ~On(s, q, Lists \cup Marks) /\ ~On(s, q, {"unlist", "clear", "unmark"})'
      BY <1>r, <2>1, <2>3 DEF On
    <3> QED BY <1>a, <2>1, <2>2, <2>3, <3>1
  <2>4. (Waiting(r) /\ Held(r))'
    <3>1. On(s, r, Lists)'
      BY <1>r, <2>1 DEF On, Lists
    <3> QED BY <1>0, <2>2, <3>1 DEF Waiting, Held
  <2> QED BY <2>2, <2>3, <2>4
<1>4. CASE Relist(s)
  <2>1. /\ pc[s] = "relist" /\ pc'[s] = "unmark" /\ job'[s] = job[s] /\ r \in Ids
        /\ rows' = [rows EXCEPT ![r].at = @ + 1] /\ markers' = markers
        /\ listed' = listed \cup {[row |-> r, at |-> rows[r].at + 1]}
    BY <1>0, <1>4, <1>r, OthersStay DEF Relist, SweeperPlaced, redis
  <2>2. /\ Ids' = Ids /\ rows'[r].status = rows[r].status /\ rows[r].at + 1 \in Nat
        /\ \A q \in Ids \ {r} : rows'[q] = rows[q]
    BY <1>0, <2>1, DateChanges DEF Ids
  <2>3. ASSUME NEW q \in Ids \ lost', q # r PROVE (Waiting(q) /\ Held(q))'
    <3>1. ~On(s, q, Lists \cup Marks) /\ ~On(s, q, {"unlist", "clear", "unmark"})'
      BY <1>r, <2>1, <2>3 DEF On
    <3> QED BY <1>a, <2>1, <2>2, <2>3, <3>1
  <2>4. (Waiting(r) /\ Held(r))'
    <3>e. PICK e : e = [row |-> r, at |-> rows[r].at + 1]
      OBVIOUS
    <3>1. e \in listed' /\ e.row = r /\ e.at = rows[r].at + 1
      BY <2>1, <3>e
    <3>2. ASSUME NEW d \in Drainer, On(d, r, {"unlist"})' PROVE job'[d].at # e.at
      <4>1. d \in Process /\ d # s
        BY <1>0 DEF Process
      <4>2. job'[d] = job[d] /\ pc[d] = "unlist" /\ job[d].row = r
        BY <1>0, <3>2, <4>1 DEF On
      <4>3. job[d].at <= rows[r].at /\ job[d].at \in Nat
        BY <1>0, <4>1, <4>2, JobTyped DEF Within, Dated, Takes, Job
      <4>4. rows[r] \in Row
        BY <1>0, <2>1, ElementOfSeq DEF Ids
      <4>5. rows[r].at \in Nat
        BY <4>4 DEF Row
      <4> QED BY <3>1, <4>2, <4>3, <4>5
    <3> QED BY <3>1, <3>2 DEF Waiting, Held, Listed
  <2> QED BY <2>2, <2>3, <2>4
<1>5. CASE Unmark(s)
  <2>1. UNCHANGED <<rows, listed>> /\ pc[s] = "unmark" /\ pc'[s] \in {"idle", "recheck"}
    <3>1. UNCHANGED <<rows, listed>> /\ pc[s] = "unmark" /\ Onward(s)
      BY <1>5 DEF Unmark, tables
    <3>2. Goto(s, "idle") \/ \E task : At(s, "recheck", task)
      BY <3>1 DEF Onward
    <3> QED BY <1>0, <3>1, <3>2, OthersStay
  <2>o. \A q : ~On(s, q, Lists \cup Marks) /\ ~On(s, q, {"unlist", "clear", "unmark"})'
    BY <2>1 DEF On, Lists, Marks
  <2>2. \/ markers' = [markers EXCEPT ![r] = NoMarker]
           /\ lost' = IF markers[r].stale \/ markers[r] = NoMarker THEN lost ELSE lost \cup {r}
        \/ markers' = markers
    BY <1>5, <1>r DEF Unmark, Unmarked
  <2>3. ASSUME NEW q \in Ids \ lost', q # r PROVE (Waiting(q) /\ Held(q))'
    <3>1. markers'[q] = markers[q]
      BY <1>0, <1>i, <2>2, <2>3 DEF TypeOK
    <3> QED BY <1>a, <2>1, <2>o, <2>3, <3>1
  <2>4. ASSUME r \in Ids \ lost' PROVE (Waiting(r) /\ Held(r))'
    <3>1. CASE markers' = markers
      BY <1>a, <2>1, <2>o, <2>4, <3>1
    <3>2. CASE markers' # markers
      <4>1. ~(Marked(r) /\ ~markers[r].stale)
        BY <2>2, <2>4, <3>2 DEF Marked
      <4>3. Waiting(r)'
        BY <1>0, <1>q, <2>1, <2>o, <2>4, WaitingFrame DEF On, Lists
      <4>4. On(s, r, {"unmark"})
        BY <1>r, <2>1 DEF On
      <4>5. rows[r].status = "processing" => Listed(r) \/ \E p \in Process : On(p, r, Marks)
        BY <1>q, <2>4, <4>1, <4>4 DEF Held
      <4>6. \A p \in Process : On(p, r, Marks) => On(p, r, Marks)'
        BY <1>0, <2>o DEF On
      <4>7. Listed(r) => Listed(r)'
        BY <2>1 DEF Listed
      <4>8. Held(r)'
        BY <2>1, <4>5, <4>6, <4>7 DEF Held
      <4> QED BY <4>3, <4>8
    <3> QED BY <3>1, <3>2
  <2> QED BY <2>1, <2>3, <2>4 DEF Ids
<1> QED BY <1>1, <1>2, <1>3, <1>4, <1>5 DEF Sweep

LEMMA OtherLeavesNone ==
  ASSUME Typed, Within, \/ \E q \in RowId : Age(q)
                        \/ \E u \in Url : Lapse(u)
                        \/ Expire
                        \/ \E p \in Process : Dies(p)
                        \/ UNCHANGED vars
  PROVE  \A q \in Ids' \ lost' : (Waiting(q) /\ Held(q))'
<1>0. TypeOK /\ Placed /\ Drainer \cup Sweeper \subseteq Process
  BY DEF Typed, Process
<1>q. \A q \in Ids \ lost : Waiting(q) /\ Held(q)
  BY DEF Within
<1>1. CASE (\E u \in Url : Lapse(u)) \/ Expire \/ UNCHANGED vars
  <2>1. UNCHANGED <<rows, listed, markers, pc, job, lost>>
    BY <1>1 DEF Lapse, Expire, vars, tables, history
  <2> QED BY <1>q, <2>1 DEF Ids, Waiting, Held, On, Listed, Marked
<1>2. ASSUME NEW i \in RowId, Age(i) PROVE \A q \in Ids' \ lost' : (Waiting(q) /\ Held(q))'
  <2>1. /\ UNCHANGED <<rows, listed, pc, job, lost>>
        /\ markers' = [markers EXCEPT ![i].stale = TRUE] /\ markers[i] # NoMarker
        /\ \A s \in Sweeper : pc[s] # "idle" => job[s].row # i
    BY <1>2 DEF Age, tables, history
  <2>2. markers'[i].by = markers[i].by /\ markers'[i] # NoMarker
    BY <1>0, <2>1, ProcessAssumption DEF TypeOK, Marker, NoMarker
  <2>3. ASSUME NEW q \in Ids \ lost PROVE (Waiting(q) /\ Held(q))'
    <3>1. Waiting(q)'
      BY <1>q, <2>1, <2>3 DEF Waiting, On
    <3>2. CASE q # i
      <4>1. markers'[q] = markers[q]
        <5>1. q \in RowId
          BY <1>0, <2>3, LenTyped, BoundAssumption DEF Ids, RowId
        <5> QED BY <1>0, <2>1, <3>2, <5>1 DEF TypeOK
      <4> QED BY <1>q, <2>1, <2>3, <3>1, <4>1 DEF Held, On, Listed, Marked
    <3>3. CASE q = i
      <4>1. \A s \in Sweeper : ~On(s, q, {"unmark"})
        BY <2>1, <3>3 DEF On
      <4> QED BY <1>q, <2>1, <2>2, <2>3, <3>1, <3>3, <4>1 DEF Held, On, Listed, Marked
    <3> QED BY <3>2, <3>3
  <2> QED BY <2>1, <2>3 DEF Ids
<1>3. ASSUME NEW p \in Process, Dies(p) PROVE \A q \in Ids' \ lost' : (Waiting(q) /\ Held(q))'
  <2>1. /\ pc'[p] = "idle" /\ \A o \in Process \ {p} : pc'[o] = pc[o] /\ job'[o] = job[o]
        /\ UNCHANGED <<rows, listed, markers>>
        /\ lost' = IF Gap(p) THEN lost \cup {job[p].row} ELSE lost
    BY <1>0, <1>3, OthersStay DEF Dies, tables
  <2>2. ASSUME NEW q \in Ids \ lost' PROVE (Waiting(q) /\ Held(q))'
    <3>1. Waiting(q) /\ Held(q) /\ ~(Gap(p) /\ job[p].row = q)
      BY <1>q, <2>1, <2>2
    <3>2. ~On(p, q, Lists)
      BY <3>1 DEF On, Lists, Gap
    <3>3. On(p, q, Marks) => Listed(q)
      <4>1. On(p, q, Marks) => [row |-> job[p].row, at |-> job[p].at] \in listed /\ job[p].row = q
        BY <3>1 DEF On, Marks, Gap
      <4> QED BY <4>1 DEF Listed
    <3>4. ~On(p, q, {"unlist"})' /\ ~On(p, q, {"clear"})' /\ ~On(p, q, {"unmark"})'
      BY <2>1 DEF On
    <3>5. Waiting(q)'
      BY <2>1, <3>1, <3>2, <3>4, WaitingFrame
    <3>6. Listed(q) => Listed(q)'
      BY <2>1 DEF Listed
    <3>7. Held(q)'
      BY <2>1, <3>1, <3>3, <3>4, <3>6, HeldFrame
    <3> QED BY <3>5, <3>7
  <2> QED BY <2>1, <2>2 DEF Ids
<1> QED BY <1>1, <1>2, <1>3

LEMMA WithinKept == Typed /\ Within /\ [Next]_vars => Within'
<1> SUFFICES ASSUME Typed, Within, [Next]_vars PROVE Within'
  OBVIOUS
<1>1. \A q \in Ids' \ lost' : (Waiting(q) /\ Held(q))'
  BY FeedLeavesNone, DrainLeavesNone, SweepLeavesNone, OtherLeavesNone DEF Next
<1>2. Unseen' /\ Dated'
  BY UnseenKept, DatedKept DEF Within
<1> QED BY <1>1, <1>2 DEF Within

\* A row that is not closed is listed, marked or being worked on, unless it fell
\* into one of the gaps (dequeue_url, mark_url_done, reclaim_stale_processing_urls).
THEOREM NoneLeftBehind == Spec => []NotStranded
<1>1. Init => Within
  <2>1. Init => Ids = {}
    BY DEF Init, Ids
  <2>2. Init => \A f \in Feeder : pc[f] = "idle"
    BY DEF Init, Process
  <2>3. Init => \A d \in Drainer : pc[d] = "idle"
    BY DEF Init, Process
  <2> QED BY <2>1, <2>2, <2>3 DEF Init, Within, Unseen, Dated, PutsIn, Takes
<1>2. Typed /\ Within => NotStranded
  <2> SUFFICES ASSUME Typed, Within, NEW q \in Ids, rows[q].status # "done", q \notin lost
               PROVE  Listed(q) \/ Marked(q) \/ Worked(q)
    BY DEF NotStranded, Ids
  <2>1. rows[q] \in Row
    BY LenTyped, ElementOfSeq DEF Typed, Ids
  <2>2. rows[q].status \in {"pending", "processing"}
    BY <2>1 DEF Row
  <2>3. Waiting(q) /\ Held(q)
    BY DEF Within
  <2>4. \A p \in Process : On(p, q, Lists) \/ On(p, q, Marks) => Worked(q)
    BY DEF On, Lists, Marks, Worked
  <2>5. CASE rows[q].status = "pending"
    BY <2>3, <2>4, <2>5 DEF Waiting, Listed
  <2>6. CASE rows[q].status = "processing"
    BY <2>3, <2>4, <2>6 DEF Held
  <2> QED BY <2>2, <2>5, <2>6
<1> QED BY <1>1, <1>2, WithinKept, TypeCorrect, PTL DEF Spec
=============================================================================
