-------------------------- MODULE PublishingProofs --------------------------
(***************************************************************************)
(* Theorems about Publishing, for any number of tasks, articles, services, *)
(* days and failures, and any cap.                                         *)
(***************************************************************************)
EXTENDS Publishing, FiniteSetTheorems, TLAPS

Job == [kind : {"none", "compose", "release", "approve", "admin"},
        id : Id \cup {NoTask}, service : Service \cup {NoService},
        day : Day, n : Nat, judged : Task \cup {NoTask}, then : {"done", "check", "incr"},
        to : Status \cup {"same"}, old : SUBSET Row]

\* A task that moves a row has read one row of its article.
HasOld(t) == \E r \in Row : job[t].old = {r} /\ r.id = job[t].id

Typed ==
    /\ TypeOK /\ IsFiniteSet(rows)
    /\ \A t \in Task : pc[t] \in {"delete", "move"} => HasOld(t)

-----------------------------------------------------------------------------
(* What a step changes.                                                    *)

LEMMA NothingTyped == Nothing \in Job
  BY BoundAssumption DEF Nothing, Job, Day, Status

LEMMA JobTyped == TypeOK => pc \in [Task -> PC] /\ job \in [Task -> Job]
  BY DEF TypeOK, Job

\* A task that moves leaves the others where they are.
LEMMA GotoStays ==
  ASSUME TypeOK, NEW t \in Task, NEW step, Goto(t, step)
  PROVE  pc'[t] = step /\ \A o \in Task \ {t} : pc'[o] = pc[o]
  BY DEF TypeOK, Goto

LEMMA AtStays ==
  ASSUME TypeOK, NEW t \in Task, NEW step, NEW task, At(t, step, task)
  PROVE  /\ pc'[t] = step /\ job'[t] = IF step = "done" THEN Nothing ELSE task
         /\ \A o \in Task \ {t} : pc'[o] = pc[o] /\ job'[o] = job[o]
  BY DEF TypeOK, Goto, At

LEMMA GotoTyped ==
  ASSUME TypeOK, NEW t \in Task, NEW step \in PC, Goto(t, step), UNCHANGED job
  PROVE  pc' \in [Task -> PC] /\ job' \in [Task -> Job]
  BY JobTyped DEF Goto

LEMMA AtTyped ==
  ASSUME TypeOK, NEW t \in Task, NEW step \in PC, NEW task \in Job, At(t, step, task)
  PROVE  pc' \in [Task -> PC] /\ job' \in [Task -> Job]
  BY JobTyped, NothingTyped DEF Goto, At

\* The changes to a job, a field at a time.
LEMMA JobChanges ==
  ASSUME NEW j \in Job
  PROVE  /\ \A x \in Task \cup {NoTask} :
               LET k == [j EXCEPT !.judged = x] IN
               /\ k \in Job /\ k.judged = x
               /\ k.kind = j.kind /\ k.id = j.id /\ k.service = j.service /\ k.day = j.day
               /\ k.n = j.n /\ k.then = j.then /\ k.to = j.to /\ k.old = j.old
         /\ \A x \in Nat :
               LET k == [j EXCEPT !.n = x] IN
               /\ k \in Job /\ k.n = x
               /\ k.kind = j.kind /\ k.id = j.id /\ k.service = j.service /\ k.day = j.day
               /\ k.judged = j.judged /\ k.then = j.then /\ k.to = j.to /\ k.old = j.old
         /\ \A x \in Status \cup {"same"} :
               LET k == [j EXCEPT !.to = x] IN
               /\ k \in Job /\ k.to = x
               /\ k.kind = j.kind /\ k.id = j.id /\ k.service = j.service /\ k.day = j.day
               /\ k.judged = j.judged /\ k.then = j.then /\ k.n = j.n /\ k.old = j.old
         /\ \A x \in SUBSET Row :
               LET k == [j EXCEPT !.old = x] IN
               /\ k \in Job /\ k.old = x
               /\ k.kind = j.kind /\ k.id = j.id /\ k.service = j.service /\ k.day = j.day
               /\ k.judged = j.judged /\ k.then = j.then /\ k.n = j.n /\ k.to = j.to
  BY DEF Job

LEMMA DayAndThen ==
  ASSUME NEW j \in Job, NEW x \in Day, NEW y \in {"done", "check", "incr"}
  PROVE  LET k == [j EXCEPT !.day = x, !.then = y] IN
         /\ k \in Job /\ k.day = x /\ k.then = y
         /\ k.kind = j.kind /\ k.id = j.id /\ k.service = j.service
         /\ k.judged = j.judged /\ k.n = j.n /\ k.to = j.to /\ k.old = j.old
  BY DEF Job

LEMMA IdAndThen ==
  ASSUME NEW j \in Job, NEW x \in Id \cup {NoTask}
  PROVE  LET k == [j EXCEPT !.id = x, !.then = "done", !.n = 0] IN
         /\ k \in Job /\ k.id = x /\ k.then = "done" /\ k.n = 0
         /\ k.kind = j.kind /\ k.day = j.day /\ k.service = j.service
         /\ k.judged = j.judged /\ k.to = j.to /\ k.old = j.old
  BY DEF Job

LEMMA NewJobs ==
  /\ \A x \in Task, s \in Service \cup {NoService} :
        LET k == [Nothing EXCEPT !.kind = "compose", !.id = x, !.service = s] IN
        k \in Job /\ k.kind = "compose" /\ k.id = x
  /\ LET k == [Nothing EXCEPT !.kind = "release"] IN k \in Job /\ k.kind = "release"
  /\ \A x \in Id :
        LET k == [Nothing EXCEPT !.kind = "approve", !.id = x] IN
        k \in Job /\ k.kind = "approve" /\ k.id = x
  /\ \A x \in Id, y \in Status \cup {"same"} :
        LET k == [Nothing EXCEPT !.kind = "admin", !.id = x, !.to = y] IN
        k \in Job /\ k.kind = "admin" /\ k.id = x /\ k.to = y
  BY NothingTyped DEF Nothing, Job, Id

-----------------------------------------------------------------------------
(* Type correctness.                                                       *)

Tables  == rows \subseteq Row /\ IsFiniteSet(rows) /\ reviews \subseteq Id
Locks   == lock \in Task \cup {NoTask} /\ meta \in Task \cup {NoTask}
Slots   == begun \subseteq Day /\ count \in [Day -> Int]
History ==
    /\ written \subseteq Task /\ stored \subseteq Id /\ torn \subseteq Id
    /\ moved \in BOOLEAN /\ broken \in BOOLEAN
    /\ used \in [Day -> Nat] /\ leaked \in [Day -> Nat]
    /\ refused \in Id \cup {NoTask}
Placed(t) == pc[t] \in {"delete", "move"} => HasOld(t)

LEMMA Parts ==
  Typed => /\ TypeOK /\ today \in Day /\ Tables /\ Locks /\ Slots /\ History
           /\ failures \in 0..MaxFailures
           /\ (Fails => failures' \in 0..MaxFailures)
           /\ \A t \in Task : Placed(t) /\ pc[t] \in PC /\ job[t] \in Job
           /\ Task \subseteq Id
  BY JobTyped, BoundAssumption DEF Typed, TypeOK, Tables, Locks, Slots, History, Placed, Fails, Id

LEMMA Whole ==
  ASSUME Typed, NEW t \in Task, today' \in Day, Tables', Locks', Slots', History',
         failures' \in 0..MaxFailures,
         pc' \in [Task -> PC], job' \in [Task -> Job],
         \A o \in Task \ {t} : pc'[o] = pc[o] /\ job'[o] = job[o], Placed(t)'
  PROVE  Typed'
<1>1. TypeOK'
  BY DEF TypeOK, Tables, Locks, Slots, History, Job
<1>2. \A o \in Task : Placed(o)'
  BY DEF Typed, Placed, HasOld
<1> QED BY <1>1, <1>2 DEF Typed, Tables, Placed

\* What is written to the table is rows.
LEMMA PutTyped ==
  ASSUME Tables, NEW row \in Row
  PROVE  Put(row) \subseteq Row /\ IsFiniteSet(Put(row)) /\ \A r \in Put(row) : r \in rows \/ r = row
<1> DEFINE rest == {r \in rows : ~SameKey(r, row)}
<1>1. rest \subseteq Row /\ IsFiniteSet(rest)
  BY FS_Subset DEF Tables
<1>2. IsFiniteSet(rest \cup {row})
  BY <1>1, FS_AddElement
<1> QED BY <1>1, <1>2 DEF Put

LEMMA StoreTyped ==
  ASSUME Typed, NEW t \in Task, NEW status \in Status, Store(t, status), UNCHANGED reviews
  PROVE  Tables' /\ stored' \subseteq Id
<1> DEFINE row == [id |-> t, status |-> status, at |-> t, day |-> today, service |-> job[t].service]
<1>0. job[t] \in Job /\ today \in Day /\ t \in Id /\ Tables /\ stored \subseteq Id
  BY Parts DEF History
<1>1. row \in Row
  BY <1>0 DEF Row, Job
<1>2. rows' = Put(row) /\ stored' = stored \cup {t}
  BY DEF Store
<1> HIDE DEF row
<1> QED BY <1>0, <1>1, <1>2, PutTyped DEF Tables

LEMMA TargetTyped ==
  ASSUME Typed, NEW t \in Task, pc[t] \in {"delete", "move"}
  PROVE  /\ Old(t) \in Row /\ job[t].old = {Old(t)} /\ Old(t).id = job[t].id /\ job[t].id \in Id
         /\ Target(t) \in Row /\ Target(t).id = job[t].id
<1>1. PICK r \in Row : job[t].old = {r} /\ r.id = job[t].id
  BY DEF Typed, HasOld
<1>2. Old(t) = r
  BY <1>1 DEF Old
<1>3. r.id \in Id
  BY DEF Row
<1>4. job[t].to \in Status \cup {"same"} /\ today \in Day
  BY Parts DEF Job
<1> DEFINE to  == IF job[t].to = "same" THEN r.status ELSE job[t].to
           out == to = "published" /\ job[t].kind \in {"release", "approve"}
           at  == IF out \/ job[t].to = "same" THEN t ELSE r.at
           day == IF out THEN today ELSE r.day
           a   == [r EXCEPT !.status = to]
           b   == [a EXCEPT !.at = at]
           c   == [b EXCEPT !.day = day]
<1>5. to \in Status /\ at \in Task \cup {NoTask} /\ day \in Day
  BY <1>4 DEF Row
<1>6. Target(t) = c
  <2>1. r.at = a.at /\ r.day = b.day
    BY DEF Row
  <2> QED BY <1>2, <2>1 DEF Target
<1> HIDE DEF to, at, day
<1>7. c \in Row /\ c.id = r.id
  BY <1>5 DEF Row
<1> QED BY <1>1, <1>2, <1>3, <1>6, <1>7

\* A step of one task.
MovesOn(t) ==
    /\ pc' \in [Task -> PC] /\ job' \in [Task -> Job] /\ Placed(t)'
    /\ \A o \in Task \ {t} : pc'[o] = pc[o] /\ job'[o] = job[o]

Steps == PC \ {"delete", "move"}

LEMMA StepsTyped ==
  {"acquire", "judge", "break", "unmark", "reacquire", "mark", "write", "unlock",
   "forget", "file", "assert", "count", "set", "check", "reserve", "incr", "undo",
   "stash", "insert", "decide", "load", "read", "giveback", "decr", "done", "dead"} \subseteq Steps
  BY DEF Steps, PC, Running

LEMMA GotoMoves ==
  ASSUME TypeOK, NEW t \in Task, NEW step \in Steps, Goto(t, step), UNCHANGED job
  PROVE  MovesOn(t)
  BY GotoStays, GotoTyped DEF MovesOn, Placed, Steps

LEMMA AtMoves ==
  ASSUME TypeOK, NEW t \in Task, NEW step \in Steps, NEW task \in Job, At(t, step, task)
  PROVE  MovesOn(t)
  BY AtStays, AtTyped DEF MovesOn, Placed, Steps

LEMMA MoveTyped ==
  ASSUME Typed, NEW t \in Task, MovesOn(t),
         today' \in Day, Tables', Locks', Slots', History', failures' \in 0..MaxFailures
  PROVE  Typed'
  BY Whole DEF MovesOn

\* The compose, up to the filing of its article.
ComposeStep(t) ==
    \/ StartCompose(t) \/ Acquire(t) \/ Judge(t) \/ Break(t) \/ Unmark(t)
    \/ Reacquire(t) \/ Mark(t) \/ Write(t) \/ Unlock(t) \/ Forget(t)

LEMMA ComposeTyped ==
  ASSUME Typed, NEW t \in Task, ComposeStep(t) PROVE Typed'
<1>0. /\ TypeOK /\ Tables /\ Locks /\ Slots /\ History /\ today \in Day
      /\ failures \in 0..MaxFailures /\ job[t] \in Job /\ Nothing \in Job /\ t \in Id
      /\ (Fails => failures' \in 0..MaxFailures)
  BY Parts, NothingTyped
<1> USE <1>0
<1> USE StepsTyped
<1>1. CASE StartCompose(t)
  <2> USE <1>1 DEF StartCompose, Starts
  <2>1. PICK s \in Service \cup {NoService} :
          Starts(t, "acquire", [Nothing EXCEPT !.kind = "compose", !.id = t, !.service = s])
    OBVIOUS
  <2>2. MovesOn(t)
    BY <2>1, NewJobs, AtMoves
  <2>3. Tables' /\ Locks' /\ Slots' /\ History'
    BY DEF Tables, Locks, Slots, History, table, locks, slots, history
  <2> QED BY MoveTyped, <2>2, <2>3
<1>2. CASE Acquire(t)
  <2>1. MovesOn(t)
    <3>1. PICK step \in {"mark", "judge"} : Goto(t, step) /\ UNCHANGED job
      BY <1>2 DEF Acquire, Held
    <3> QED BY <3>1, GotoMoves
  <2>2. Tables' /\ Slots' /\ today' \in Day
    BY <1>2 DEF Acquire, Tables, Slots, table, slots
  <2>3. Locks'
    BY <1>2 DEF Acquire, Locks, Held
  <2>4. History' /\ failures' \in 0..MaxFailures
    BY <1>2 DEF Acquire, History
  <2> QED BY MoveTyped, <2>1, <2>2, <2>3, <2>4
<1>3. CASE Judge(t)
  <2>1. MovesOn(t)
    <3>1. CASE At(t, "done", Nothing)
      BY <3>1, AtMoves
    <3>2. CASE ~At(t, "done", Nothing)
      <4>1. At(t, "break", [job[t] EXCEPT !.judged = meta])
        BY <1>3, <3>2 DEF Judge
      <4>2. [job[t] EXCEPT !.judged = meta] \in Job
        BY JobChanges DEF Locks
      <4> QED BY <4>1, <4>2, AtMoves
    <3> QED BY <3>1, <3>2
  <2>2. Tables' /\ Locks' /\ Slots' /\ History' /\ today' \in Day /\ failures' \in 0..MaxFailures
    BY <1>3 DEF Judge, Tables, Locks, Slots, History, table, locks, slots, history
  <2> QED BY MoveTyped, <2>1, <2>2
<1>4. CASE Break(t)
  <2>1. MovesOn(t)
    <3>1. At(t, "unmark", [job[t] EXCEPT !.judged = NoTask])
      BY <1>4 DEF Break
    <3>2. [job[t] EXCEPT !.judged = NoTask] \in Job
      BY JobChanges
    <3> QED BY <3>1, <3>2, AtMoves
  <2>2. Tables' /\ Locks' /\ Slots' /\ today' \in Day /\ failures' \in 0..MaxFailures
    BY <1>4 DEF Break, Tables, Locks, Slots, table, slots
  <2>3. broken' \in BOOLEAN
    BY <1>4 DEF Break
  <2>4. History'
    BY <1>4, <2>3 DEF Break, History
  <2> QED BY MoveTyped, <2>1, <2>2, <2>4
<1>5. CASE Unmark(t)
  <2> USE <1>5 DEF Unmark
  <2>1. MovesOn(t)
    BY GotoMoves
  <2>2. Tables' /\ Locks' /\ Slots' /\ History'
    BY DEF Tables, Locks, Slots, History, table, slots, history
  <2> QED BY MoveTyped, <2>1, <2>2
<1>6. CASE Reacquire(t)
  <2>1. MovesOn(t)
    <3>1. \/ Goto(t, "mark") /\ UNCHANGED job
          \/ At(t, "done", Nothing)
      BY <1>6 DEF Reacquire, Held
    <3> QED BY <3>1, GotoMoves, AtMoves
  <2>2. Tables' /\ Slots' /\ History' /\ today' \in Day /\ failures' \in 0..MaxFailures
    BY <1>6 DEF Reacquire, Tables, Slots, History, table, slots, history
  <2>3. Locks'
    BY <1>6 DEF Reacquire, Locks, Held
  <2> QED BY MoveTyped, <2>1, <2>2, <2>3
<1>7. CASE Mark(t)
  <2> USE <1>7 DEF Mark
  <2>1. MovesOn(t)
    BY GotoMoves
  <2>2. Tables' /\ Locks' /\ Slots' /\ History'
    BY DEF Tables, Locks, Slots, History, table, slots, history
  <2> QED BY MoveTyped, <2>1, <2>2
<1>8. CASE Write(t)
  <2> USE <1>8 DEF Write
  <2>1. MovesOn(t)
    BY GotoMoves
  <2>2. Tables' /\ Locks' /\ Slots' /\ History'
    BY DEF Tables, Locks, Slots, History, table, locks, slots
  <2> QED BY MoveTyped, <2>1, <2>2
<1>9. CASE Unlock(t)
  <2> USE <1>9 DEF Unlock
  <2>1. MovesOn(t)
    BY GotoMoves
  <2>2. Tables' /\ Locks' /\ Slots' /\ History'
    BY DEF Tables, Locks, Slots, History, table, slots, history
  <2> QED BY MoveTyped, <2>1, <2>2
<1>10. CASE Forget(t)
  <2>1. MovesOn(t)
    <3>1. \/ Goto(t, "file") /\ UNCHANGED job
          \/ At(t, "done", Nothing)
      BY <1>10 DEF Forget
    <3> QED BY <3>1, GotoMoves, AtMoves
  <2>2. Tables' /\ Locks' /\ Slots' /\ History' /\ today' \in Day /\ failures' \in 0..MaxFailures
    BY <1>10 DEF Forget, Tables, Locks, Slots, History, table, slots, history
  <2> QED BY MoveTyped, <2>1, <2>2
<1> QED BY <1>1, <1>2, <1>3, <1>4, <1>5, <1>6, <1>7, <1>8, <1>9, <1>10 DEF ComposeStep

\* A counter of the days, changed on one of them.
LEMMA Counts ==
  ASSUME NEW f, NEW d
  PROVE  /\ f \in [Day -> Int] => /\ [f EXCEPT ![d] = @ + 1] \in [Day -> Int]
                                  /\ [f EXCEPT ![d] = @ - 1] \in [Day -> Int]
         /\ f \in [Day -> Nat] => \A k \in Nat : [f EXCEPT ![d] = @ + k] \in [Day -> Nat]
         /\ \A e \in Day : /\ f \in [Day -> Int] => f[e] \in Int
                           /\ f \in [Day -> Nat] => f[e] \in Nat
<1>1. CASE d \in Day
  BY <1>1
<1>2. CASE d \notin Day
  BY <1>2
<1> QED BY <1>1, <1>2

\* The filing of an article and the slots of the day.
SlotStep(t) ==
    \/ File(t) \/ Stash(t)
    \/ AssertAllowed(t) \/ Reserve(t) \/ Count(t) \/ Set(t) \/ Check(t) \/ Incr(t) \/ Undo(t)
    \/ GiveBack(t) \/ Decr(t) \/ Insert(t)

LEMMA SlotTyped ==
  ASSUME Typed, NEW t \in Task, SlotStep(t) PROVE Typed'
<1>0. /\ TypeOK /\ Tables /\ Locks /\ Slots /\ History /\ today \in Day
      /\ failures \in 0..MaxFailures /\ job[t] \in Job /\ Nothing \in Job /\ t \in Id
      /\ (Fails => failures' \in 0..MaxFailures)
      /\ {"on_hold", "backlog", "published"} \subseteq Status
      /\ job \in [Task -> Job] /\ job[t].day \in Day /\ Day \subseteq Nat
  BY Parts, NothingTyped, JobTyped DEF Status, Job, Day
<1> USE <1>0, StepsTyped
<1>1. CASE File(t)
  <2>1. MovesOn(t)
    <3>1. \/ Goto(t, "assert") /\ UNCHANGED job
          \/ At(t, "done", Nothing)
      BY <1>1 DEF File
    <3> QED BY <3>1, GotoMoves, AtMoves
  <2>2. Tables' /\ stored' \subseteq Id
    <3>1. CASE Store(t, "on_hold") /\ reviews' = reviews \cup {t}
      <4> DEFINE row == [id |-> t, status |-> "on_hold", at |-> t, day |-> today,
                         service |-> job[t].service]
      <4>1. row \in Row
        BY DEF Row, Job
      <4>2. rows' = Put(row) /\ stored' = stored \cup {t}
        BY <3>1 DEF Store
      <4> HIDE DEF row
      <4> QED BY <3>1, <4>1, <4>2, PutTyped DEF Tables, History
    <3>2. CASE Store(t, "backlog") /\ UNCHANGED reviews
      BY <3>2, StoreTyped
    <3>3. CASE UNCHANGED <<table, stored>>
      BY <3>3 DEF Tables, History, table
    <3> QED BY <1>1, <3>1, <3>2, <3>3 DEF File
  <2>3. Locks' /\ Slots' /\ History' /\ today' \in Day /\ failures' \in 0..MaxFailures
    BY <1>1, <2>2 DEF File, Locks, Slots, History, locks, slots
  <2> QED BY MoveTyped, <2>1, <2>2, <2>3
<1>2. CASE Stash(t)
  <2>1. MovesOn(t) /\ Tables' /\ stored' \subseteq Id
    BY <1>2, AtMoves, StoreTyped DEF Stash
  <2>2. Locks' /\ Slots' /\ History' /\ today' \in Day /\ failures' \in 0..MaxFailures
    BY <1>2, <2>1 DEF Stash, Locks, Slots, History, locks, slots
  <2> QED BY MoveTyped, <2>1, <2>2
<1>3. ASSUME NEW then \in {"check", "incr"}, Begin(t, then) PROVE Typed'
  <2> DEFINE task == [job[t] EXCEPT !.day = today, !.then = then]
  <2>1. task \in Job
    BY DayAndThen
  <2>2. job' = [job EXCEPT ![t] = task]
    BY <1>3 DEF Begin
  <2> HIDE DEF task
  <2>3. \E step \in {"check", "incr", "count"} : Goto(t, step)
    BY <1>3 DEF Begin
  <2>4. /\ pc' \in [Task -> PC] /\ Placed(t)' /\ \A o \in Task \ {t} : pc'[o] = pc[o]
    <3>1. PICK step \in {"check", "incr", "count"} : Goto(t, step)
      BY <2>3
    <3> QED BY <3>1, GotoStays, JobTyped DEF Goto, Placed, Steps
  <2>5. MovesOn(t)
    BY <2>1, <2>2, <2>4 DEF MovesOn
  <2>6. Tables' /\ Locks' /\ Slots' /\ History' /\ today' \in Day /\ failures' \in 0..MaxFailures
    BY <1>3 DEF Begin, Tables, Locks, Slots, History, table, locks, history
  <2> QED BY MoveTyped, <2>5, <2>6
<1>4. CASE Count(t)
  <2> DEFINE task == [job[t] EXCEPT !.n = Published(job[t].day)]
  <2>1. Published(job[t].day) \in Nat
    BY FS_Subset, FS_CardinalityType DEF Published, Tables
  <2>2. task \in Job
    BY <2>1, JobChanges
  <2>3. job' = [job EXCEPT ![t] = task] /\ Goto(t, "set")
    BY <1>4 DEF Count
  <2> HIDE DEF task
  <2>4. MovesOn(t)
    BY <2>2, <2>3, GotoStays, JobTyped DEF MovesOn, Goto, Placed, Steps
  <2>5. Tables' /\ Locks' /\ Slots' /\ History' /\ today' \in Day /\ failures' \in 0..MaxFailures
    BY <1>4 DEF Count, Tables, Locks, Slots, History, table, locks, slots, history
  <2> QED BY MoveTyped, <2>4, <2>5
<1>5. CASE Set(t)
  <2>1. MovesOn(t)
    <3>1. job[t].then \in Steps
      BY DEF Job
    <3> QED BY <1>5, <3>1, GotoMoves DEF Set
  <2>2. count' \in [Day -> Int] /\ leaked' \in [Day -> Nat]
    <3>1. job[t].n \in Int
      BY DEF Job
    <3> DEFINE d == job[t].day
               k == IF count[d] > 0 THEN count[d] ELSE 0
    <3>2. leaked \in [Day -> Nat] /\ count \in [Day -> Int] /\ count' = [count EXCEPT ![d] = job[t].n]
      BY <1>5 DEF Set, Slots, History
    <3>3. count[d] \in Int
      BY <3>2, Counts
    <3>4. k \in Nat
      BY <3>3
    <3>5. leaked' = [leaked EXCEPT ![d] = @ + k]
      BY <1>5 DEF Set
    <3> HIDE DEF k, d
    <3> QED BY <3>1, <3>2, <3>4, <3>5, Counts
  <2>3. Tables' /\ Locks' /\ Slots' /\ History' /\ today' \in Day /\ failures' \in 0..MaxFailures
    BY <1>5, <2>2 DEF Set, Tables, Locks, Slots, History, table, locks
  <2> QED BY MoveTyped, <2>1, <2>3
<1>6. CASE Check(t)
  <2>1. MovesOn(t)
    <3> DEFINE task(id) == [job[t] EXCEPT !.id = id, !.then = "done", !.n = 0]
    <3>1. \A id \in Id \cup {NoTask} : task(id) \in Job
      BY IdAndThen
    <3>2. \E step \in {"reserve", "stash", "done"}, id \in Id \cup {NoTask} :
             At(t, step, task(id)) \/ At(t, "done", Nothing)
      <4>1. \A r \in Backlog : r.id \in Id
        BY DEF Backlog, Tables, Row
      <4> QED BY <1>6, <4>1 DEF Check
    <3> HIDE DEF task
    <3> QED BY <3>1, <3>2, AtMoves
  <2>2. Tables' /\ Locks' /\ Slots' /\ History' /\ today' \in Day /\ failures' \in 0..MaxFailures
    BY <1>6 DEF Check, Tables, Locks, Slots, History, table, locks, slots, history
  <2> QED BY MoveTyped, <2>1, <2>2
<1>7. CASE Incr(t)
  <2>1. MovesOn(t)
    <3>1. \E step \in {"undo", "insert", "load"} : Goto(t, step) /\ UNCHANGED job
      BY <1>7 DEF Incr
    <3> QED BY <3>1, GotoMoves
  <2>2. Slots'
    BY <1>7, Counts DEF Incr, Slots
  <2>3. Tables' /\ Locks' /\ History' /\ today' \in Day /\ failures' \in 0..MaxFailures
    BY <1>7 DEF Incr, Tables, Locks, History, table, locks, history
  <2> QED BY MoveTyped, <2>1, <2>2, <2>3
<1>8. CASE Undo(t)
  <2>1. MovesOn(t)
    <3>1. \/ Goto(t, "stash") /\ UNCHANGED job
          \/ At(t, "done", Nothing)
      BY <1>8 DEF Undo
    <3> QED BY <3>1, GotoMoves, AtMoves
  <2>2. Slots'
    BY <1>8, Counts DEF Undo, Slots
  <2>3. Tables' /\ Locks' /\ History' /\ today' \in Day /\ failures' \in 0..MaxFailures
    BY <1>8 DEF Undo, Tables, Locks, History, table, locks, history
  <2> QED BY MoveTyped, <2>1, <2>2, <2>3
<1>9. CASE GiveBack(t)
  <2>1. MovesOn(t)
    <3>1. CASE At(t, "done", Nothing)
      BY <3>1, AtMoves
    <3>2. CASE Goto(t, "decr") /\ job' = [job EXCEPT ![t].n = today]
      <4> DEFINE task == [job[t] EXCEPT !.n = today]
      <4>1. task \in Job
        BY JobChanges
      <4>2. job' = [job EXCEPT ![t] = task]
        BY <3>2
      <4> HIDE DEF task
      <4> QED BY <3>2, <4>1, <4>2, GotoStays, JobTyped DEF MovesOn, Goto, Placed, Steps
    <3> QED BY <1>9, <3>1, <3>2 DEF GiveBack
  <2>2. Tables' /\ Locks' /\ Slots' /\ History' /\ today' \in Day /\ failures' \in 0..MaxFailures
    BY <1>9 DEF GiveBack, Tables, Locks, Slots, History, table, locks, slots, history
  <2> QED BY MoveTyped, <2>1, <2>2
<1>10. CASE Decr(t)
  <2>1. MovesOn(t)
    BY <1>10, AtMoves DEF Decr
  <2>2. Slots'
    BY <1>10, Counts DEF Decr, Slots
  <2>3. leaked' \in [Day -> Nat]
    BY <1>10, Counts DEF Decr, History
  <2>4. Tables' /\ Locks' /\ History' /\ today' \in Day /\ failures' \in 0..MaxFailures
    BY <1>10, <2>3 DEF Decr, Tables, Locks, History, table, locks
  <2> QED BY MoveTyped, <2>1, <2>2, <2>4
<1>11. CASE Insert(t)
  <2>1. MovesOn(t)
    <3>1. \/ Goto(t, "giveback") /\ UNCHANGED job
          \/ At(t, "done", Nothing)
      BY <1>11 DEF Insert
    <3> QED BY <3>1, GotoMoves, AtMoves
  <2>2. Tables' /\ stored' \subseteq Id
    <3>1. Store(t, "published") \/ UNCHANGED <<rows, stored>>
      BY <1>11 DEF Insert
    <3>2. CASE UNCHANGED <<rows, stored>>
      BY <1>11, <3>2 DEF Insert, Tables, History
    <3> QED BY <1>11, <3>1, <3>2, StoreTyped DEF Insert
  <2>3. used' \in [Day -> Nat] /\ leaked' \in [Day -> Nat]
    <3>1. used' = used \/ used' = [used EXCEPT ![job[t].day] = @ + 1]
      BY <1>11 DEF Insert
    <3>2. leaked' = leaked \/ leaked' = [leaked EXCEPT ![job[t].day] = @ + 1]
      BY <1>11 DEF Insert
    <3> QED BY <3>1, <3>2 DEF History
  <2>4. failures' \in 0..MaxFailures
    BY <1>11 DEF Insert
  <2>5. Locks' /\ Slots' /\ History' /\ today' \in Day
    BY <1>11, <2>2, <2>3 DEF Insert, Locks, Slots, History, locks, slots
  <2> QED BY MoveTyped, <2>1, <2>2, <2>4, <2>5
<1> QED BY <1>1, <1>2, <1>3, <1>4, <1>5, <1>6, <1>7, <1>8, <1>9, <1>10, <1>11
        DEF SlotStep, AssertAllowed, Reserve

\* The moves of rows, and what asks for them; death.
RowStep(t) ==
    \/ Read(t) \/ Delete(t) \/ Move(t)
    \/ StartRelease(t) \/ Load(t)
    \/ StartApprove(t) \/ Decide(t) \/ StartWithdraw(t) \/ StartRecompose(t)
    \/ Die(t)

LEMMA FallenMoves ==
  ASSUME Typed, NEW t \in Task, Fallen(t) PROVE MovesOn(t) /\ failures' \in 0..MaxFailures
<1>1. \/ Goto(t, "giveback") /\ UNCHANGED job
      \/ At(t, "done", Nothing)
  BY DEF Fallen
<1> QED BY <1>1, Parts, NothingTyped, StepsTyped, GotoMoves, AtMoves DEF Fallen

LEMMA RowTyped ==
  ASSUME Typed, NEW t \in Task, RowStep(t) PROVE Typed'
<1>0. /\ TypeOK /\ Tables /\ Locks /\ Slots /\ History /\ today \in Day
      /\ failures \in 0..MaxFailures /\ job[t] \in Job /\ Nothing \in Job /\ Task \subseteq Id
      /\ (Fails => failures' \in 0..MaxFailures)
      /\ {"on_hold", "backlog", "published", "draft", "deleted", "same"} \subseteq Status \cup {"same"}
      /\ \A r \in rows : r.id \in Id
  BY Parts, NothingTyped DEF Status, Tables, Row
<1> USE <1>0, StepsTyped
<1>1. CASE Read(t)
  <2>1. MovesOn(t)
    <3>1. CASE At(t, "done", Nothing)
      BY <3>1, AtMoves
    <3>2. CASE ~At(t, "done", Nothing)
      <4>1. PICK r \in Of(job[t].id) : At(t, "delete", [job[t] EXCEPT !.old = {r}])
        BY <1>1, <3>2 DEF Read
      <4>2. r \in Row /\ r.id = job[t].id
        BY DEF Of, Tables
      <4> DEFINE task == [job[t] EXCEPT !.old = {r}]
      <4>3. task \in Job /\ task.old = {r} /\ task.id = job[t].id
        <5> SUFFICES ASSUME NEW x \in SUBSET Row, x = {r}
                     PROVE  LET k == [job[t] EXCEPT !.old = x] IN
                            k \in Job /\ k.old = x /\ k.id = job[t].id
          BY <4>2
        <5> QED BY DEF Job
      <4>4. At(t, "delete", task)
        BY <4>1
      <4> HIDE DEF task
      <4>5. /\ pc'[t] = "delete" /\ job'[t] = task
            /\ \A o \in Task \ {t} : pc'[o] = pc[o] /\ job'[o] = job[o]
        BY <4>4, AtStays
      <4>6. pc' \in [Task -> PC] /\ job' \in [Task -> Job]
        BY <4>3, <4>4, AtTyped DEF PC, Running
      <4> QED BY <4>2, <4>3, <4>5, <4>6 DEF MovesOn, Placed, HasOld
    <3> QED BY <3>1, <3>2
  <2>2. Tables' /\ Locks' /\ Slots' /\ History' /\ today' \in Day /\ failures' \in 0..MaxFailures
    BY <1>1 DEF Read, Tables, Locks, Slots, History, table, locks, slots, history
  <2> QED BY MoveTyped, <2>1, <2>2
<1>2. CASE Delete(t)
  <2>0. HasOld(t)
    BY <1>2 DEF Typed, Delete
  <2>1. MovesOn(t) /\ failures' \in 0..MaxFailures
    <3>1. CASE Fallen(t)
      BY <3>1, FallenMoves
    <3>2. CASE Goto(t, "move") /\ UNCHANGED <<job, failures>>
      BY <2>0, <3>2, GotoStays, GotoTyped DEF MovesOn, Placed, HasOld, PC, Running
    <3> QED BY <1>2, <3>1, <3>2 DEF Delete
  <2>2. Tables'
    <3>1. rows' = rows \/ rows' = rows \ {Old(t)}
      BY <1>2 DEF Delete
    <3> QED BY <1>2, <3>1, FS_RemoveElement DEF Delete, Tables
  <2>3. moved' \in BOOLEAN
    BY <1>2 DEF Delete, History
  <2>4. Locks' /\ Slots' /\ History' /\ today' \in Day
    BY <1>2, <2>3 DEF Delete, Locks, Slots, History, locks, slots
  <2> QED BY MoveTyped, <2>1, <2>2, <2>4
<1>3. CASE Move(t)
  <2>0. Target(t) \in Row /\ job[t].id \in Id
    BY <1>3, TargetTyped DEF Move
  <2>1. MovesOn(t) /\ failures' \in 0..MaxFailures
    <3>1. CASE Fallen(t)
      BY <3>1, FallenMoves
    <3>2. CASE At(t, "done", Nothing) /\ UNCHANGED failures
      BY <3>2, AtMoves
    <3> QED BY <1>3, <3>1, <3>2 DEF Move
  <2>2. Tables'
    <3>1. rows' = rows \/ rows' = Put(Target(t))
      BY <1>3 DEF Move
    <3> QED BY <1>3, <2>0, <3>1, PutTyped DEF Move, Tables
  <2>3. used' \in [Day -> Nat] /\ leaked' \in [Day -> Nat] /\ torn' \subseteq Id
    <3> DEFINE k == IF job[t].kind = "release" THEN 1 ELSE 0
    <3>1. used' = used \/ used' = [used EXCEPT ![job[t].day] = @ + k]
      BY <1>3 DEF Move
    <3>2. leaked' = leaked \/ leaked' = [leaked EXCEPT ![job[t].day] = @ + k]
      BY <1>3 DEF Move
    <3>3. k \in Nat /\ (torn' = torn \/ torn' = torn \cup {job[t].id})
      BY <1>3 DEF Move
    <3> HIDE DEF k
    <3> QED BY <2>0, <3>1, <3>2, <3>3, Counts DEF History
  <2>4. Locks' /\ Slots' /\ History' /\ today' \in Day
    BY <1>3, <2>3 DEF Move, Locks, Slots, History, locks, slots
  <2> QED BY MoveTyped, <2>1, <2>2, <2>4
<1>4. CASE StartRelease(t)
  <2>1. MovesOn(t)
    BY <1>4, NewJobs, AtMoves DEF StartRelease, Starts
  <2>2. Tables' /\ Locks' /\ Slots' /\ History' /\ today' \in Day /\ failures' \in 0..MaxFailures
    BY <1>4 DEF StartRelease, Starts, Tables, Locks, Slots, History, table, locks, slots, history
  <2> QED BY MoveTyped, <2>1, <2>2
<1>5. CASE Load(t)
  <2>1. MovesOn(t)
    <3>1. \/ Goto(t, "giveback") /\ UNCHANGED job
          \/ At(t, "done", Nothing)
          \/ At(t, "read", Moves(t, "published"))
      BY <1>5 DEF Load
    <3>2. Moves(t, "published") \in Job
      BY JobChanges DEF Moves
    <3> QED BY <3>1, <3>2, GotoMoves, AtMoves
  <2>2. refused' \in Id \cup {NoTask}
    <3>1. refused' \in {refused, NoTask, job[t].id}
      BY <1>5 DEF Load
    <3> QED BY <3>1 DEF History, Job
  <2>3. Tables' /\ Locks' /\ Slots' /\ History' /\ today' \in Day /\ failures' \in 0..MaxFailures
    BY <1>5, <2>2 DEF Load, Tables, Locks, Slots, History, table, locks, slots
  <2> QED BY MoveTyped, <2>1, <2>3
<1>6. CASE StartApprove(t)
  <2>1. PICK id \in reviews :
          /\ Starts(t, "decide", [Nothing EXCEPT !.kind = "approve", !.id = id])
          /\ reviews' = reviews \ {id}
          /\ UNCHANGED <<rows, history>>
    BY <1>6 DEF StartApprove
  <2>2. MovesOn(t)
    BY <2>1, NewJobs, AtMoves DEF Starts, Tables
  <2>3. Tables' /\ Locks' /\ Slots' /\ History' /\ today' \in Day /\ failures' \in 0..MaxFailures
    BY <2>1 DEF Starts, Tables, Locks, Slots, History, locks, slots, history
  <2> QED BY MoveTyped, <2>2, <2>3
<1>7. CASE Decide(t)
  <2>1. MovesOn(t)
    <3>1. At(t, "load", job[t]) \/ At(t, "read", Moves(t, "backlog"))
      BY <1>7 DEF Decide
    <3>2. Moves(t, "backlog") \in Job
      BY JobChanges DEF Moves
    <3> QED BY <3>1, <3>2, AtMoves
  <2>2. Tables' /\ Locks' /\ Slots' /\ History' /\ today' \in Day /\ failures' \in 0..MaxFailures
    BY <1>7 DEF Decide, Tables, Locks, Slots, History, table, locks, slots, history
  <2> QED BY MoveTyped, <2>1, <2>2
<1>8. CASE StartWithdraw(t) \/ StartRecompose(t)
  <2>1. PICK r \in rows, to \in {"draft", "published", "deleted", "same"} :
          Starts(t, "read", [Nothing EXCEPT !.kind = "admin", !.id = r.id, !.to = to])
    BY <1>8 DEF StartWithdraw, StartRecompose
  <2>2. MovesOn(t)
    <3> DEFINE task == [Nothing EXCEPT !.kind = "admin", !.id = r.id, !.to = to]
    <3>1. task \in Job
      <4>1. r.id \in Id /\ to \in Status \cup {"same"}
        OBVIOUS
      <4> QED BY <4>1, NewJobs
    <3>2. At(t, "read", task)
      BY <2>1 DEF Starts
    <3> HIDE DEF task
    <3> QED BY <3>1, <3>2, AtMoves
  <2>3. UNCHANGED <<today, table, locks, slots, failures, history>>
    BY <1>8 DEF StartWithdraw, StartRecompose, Starts
  <2>4. Tables' /\ Locks' /\ Slots' /\ History' /\ today' \in Day /\ failures' \in 0..MaxFailures
    BY <2>3 DEF Tables, Locks, Slots, History, table, locks, slots, history
  <2> QED BY MoveTyped, <2>2, <2>4
<1>9. CASE Die(t)
  <2>1. MovesOn(t)
    BY <1>9, AtMoves DEF Die
  <2>2. torn' \subseteq Id
    <3>1. pc[t] = "move" => job[t].id \in Id
      BY TargetTyped
    <3> QED BY <1>9, <3>1 DEF Die, History
  <2>3. Tables' /\ Locks' /\ Slots' /\ History' /\ today' \in Day /\ failures' \in 0..MaxFailures
    BY <1>9, <2>2 DEF Die, Tables, Locks, Slots, History, table, locks, slots
  <2> QED BY MoveTyped, <2>1, <2>3
<1> QED BY <1>1, <1>2, <1>3, <1>4, <1>5, <1>6, <1>7, <1>8, <1>9 DEF RowStep

LEMMA ClockTyped ==
  ASSUME Typed, Tick \/ Expire \/ UNCHANGED vars PROVE Typed'
<1>1. /\ UNCHANGED <<rows, reviews, begun, count, pc, job, failures>>
      /\ UNCHANGED history
  BY DEF Tick, Expire, vars, table, slots, history
<1>2. TypeOK /\ Locks /\ today \in Day
  BY Parts
<1>3. today' \in Day
  <2>1. today' = today \/ (today < LastDay /\ today' = today + 1)
    BY DEF Tick, Expire, vars
  <2> QED BY <1>2, <2>1, BoundAssumption DEF Day
<1>4. Locks'
  BY <1>2 DEF Tick, Expire, vars, locks, Locks
<1>5. TypeOK'
  BY <1>1, <1>2, <1>3, <1>4 DEF TypeOK, Locks, history
<1> QED BY <1>1, <1>5 DEF Typed, HasOld

LEMMA StepIs ==
  ASSUME NEW t \in Task, Step(t) PROVE ComposeStep(t) \/ SlotStep(t) \/ RowStep(t)
  BY DEF Step, ComposeStep, SlotStep, RowStep

\* Every variable keeps its type, and a task that moves a row has read one.
THEOREM TypeCorrect == Spec => []Typed
<1>1. Init => Typed
  <2> SUFFICES ASSUME Init PROVE Typed
    OBVIOUS
  <2>1. TypeOK
    <3>1. job \in [Task -> Job] /\ pc \in [Task -> PC]
      BY NothingTyped DEF Init, PC
    <3>2. today \in Day /\ failures \in 0..MaxFailures
      BY BoundAssumption DEF Init, Day
    <3>3. rows \subseteq Row /\ reviews \subseteq Id /\ stored \subseteq Id
      BY ExistingAssumption DEF Init, Id
    <3>4. count \in [Day -> Int] /\ used \in [Day -> Nat] /\ leaked \in [Day -> Nat]
      BY DEF Init
    <3>5. moved \in BOOLEAN /\ broken \in BOOLEAN
      BY DEF Init
    <3> QED BY <3>1, <3>2, <3>3, <3>4, <3>5 DEF Init, TypeOK, Job
  <2>2. IsFiniteSet(rows)
    BY ExistingAssumption DEF Init
  <2> QED BY <2>1, <2>2 DEF Init, Typed
<1>2. Typed /\ [Next]_vars => Typed'
  BY StepIs, ComposeTyped, SlotTyped, RowTyped, ClockTyped DEF Next
<1> QED BY <1>1, <1>2, PTL DEF Spec

-----------------------------------------------------------------------------
(* Where the steps of a task lead.                                         *)

Stays(t) == \A o \in Task \ {t} : pc'[o] = pc[o] /\ job'[o] = job[o]

\* A job of which one field is set in place.
LEMMA PlaceStays ==
  ASSUME TypeOK, NEW t \in Task, NEW step, Goto(t, step), NEW task, job' = [job EXCEPT ![t] = task]
  PROVE  pc'[t] = step /\ job'[t] = task /\ Stays(t)
  BY DEF TypeOK, Goto, Stays

Goes(t, from, to) == pc[t] \in from /\ pc'[t] \in to /\ Stays(t)

LEMMA GotoGoes ==
  ASSUME TypeOK, NEW t \in Task, NEW from, pc[t] \in from, NEW step, NEW to, step \in to
  PROVE  /\ Goto(t, step) /\ UNCHANGED job => Goes(t, from, to)
         /\ \A task : At(t, step, task) => Goes(t, from, to)
         /\ \A task : Goto(t, step) /\ job' = [job EXCEPT ![t] = task] => Goes(t, from, to)
  BY GotoStays, AtStays, PlaceStays DEF Goes, Stays

Composing == {"acquire", "judge", "break", "unmark", "reacquire", "mark", "write", "unlock", "forget"}

LEMMA ComposeGoes ==
  ASSUME Typed, NEW t \in Task, ComposeStep(t)
  PROVE  /\ Goes(t, Composing \cup {"idle"}, Composing \cup {"file", "done"})
         /\ UNCHANGED <<today, table, slots, stored, torn, moved, used, leaked>>
<1>1. UNCHANGED <<today, table, slots, stored, torn, moved, used, leaked>>
  BY DEF ComposeStep, StartCompose, Starts, Acquire, Judge, Break, Unmark, Reacquire, Mark,
     Write, Unlock, Forget, history, locks
<1>2. pc[t] \in Composing \cup {"idle"}
  BY DEF ComposeStep, StartCompose, Starts, Acquire, Judge, Break, Unmark, Reacquire, Mark,
     Write, Unlock, Forget, Composing
<1>3. \E step \in Composing \cup {"file", "done"} :
         \/ Goto(t, step) /\ UNCHANGED job
         \/ \E task : At(t, step, task)
  <2> USE DEF Composing
  <2>1. CASE StartCompose(t)
    BY <2>1 DEF StartCompose, Starts
  <2>2. CASE Acquire(t) \/ Judge(t) \/ Break(t) \/ Unmark(t)
    BY <2>2 DEF Acquire, Held, Judge, Break, Unmark
  <2>3. CASE Reacquire(t) \/ Mark(t) \/ Write(t)
    BY <2>3 DEF Reacquire, Held, Mark, Write
  <2>4. CASE Unlock(t) \/ Forget(t)
    BY <2>4 DEF Unlock, Forget
  <2> QED BY <2>1, <2>2, <2>3, <2>4 DEF ComposeStep
<1> QED BY <1>1, <1>2, <1>3, GotoGoes DEF Typed

Counting == {"assert", "count", "set", "check", "reserve", "incr", "undo"}

LEMMA SlotGoes ==
  ASSUME Typed, NEW t \in Task, SlotStep(t)
  PROVE  /\ Goes(t, Counting \cup {"file", "stash", "insert", "giveback", "decr"},
                    Counting \cup {"stash", "insert", "load", "giveback", "decr", "done"})
         /\ UNCHANGED <<today, locks, written, torn, moved, broken, refused>>
<1>1. UNCHANGED <<today, locks, written, torn, moved, broken, refused>>
  BY DEF SlotStep, File, Stash, AssertAllowed, Reserve, Begin, Count, Set, Check, Incr, Undo,
     GiveBack, Decr, Insert, history, slots, locks
<1>2. pc[t] \in Counting \cup {"file", "stash", "insert", "giveback", "decr"}
  BY DEF SlotStep, File, Stash, AssertAllowed, Reserve, Count, Set, Check, Incr, Undo,
     GiveBack, Decr, Insert, Counting
<1>3. \E step \in Counting \cup {"stash", "insert", "load", "giveback", "decr", "done"} :
         \/ Goto(t, step) /\ UNCHANGED job
         \/ \E task : At(t, step, task)
         \/ \E task : Goto(t, step) /\ job' = [job EXCEPT ![t] = task]
  <2> USE DEF Counting
  <2>1. CASE File(t) \/ Stash(t) \/ Insert(t)
    BY <2>1 DEF File, Stash, Insert
  <2>2. CASE AssertAllowed(t) \/ Reserve(t)
    <3>1. PICK then \in {"check", "incr"} : Begin(t, then)
      BY <2>2 DEF AssertAllowed, Reserve
    <3>2. job' = [job EXCEPT ![t] = [job[t] EXCEPT !.day = today, !.then = then]]
      BY <3>1 DEF Begin
    <3>3. Goto(t, then) \/ Goto(t, "count")
      BY <3>1 DEF Begin
    <3> QED BY <3>2, <3>3
  <2>3. CASE Count(t)
    BY <2>3 DEF Count
  <2>4. CASE Set(t)
    <3>1. job[t].then \in {"done", "check", "incr"}
      BY Parts DEF Job
    <3> QED BY <2>4, <3>1 DEF Set
  <2>5. CASE Check(t)
    BY <2>5 DEF Check
  <2>6. CASE Incr(t) \/ Undo(t)
    BY <2>6 DEF Incr, Undo
  <2>7. CASE GiveBack(t) \/ Decr(t)
    BY <2>7 DEF GiveBack, Decr
  <2> QED BY <2>1, <2>2, <2>3, <2>4, <2>5, <2>6, <2>7 DEF SlotStep
<1> QED BY <1>1, <1>2, <1>3, GotoGoes DEF Typed

LEMMA RowGoes ==
  ASSUME Typed, NEW t \in Task, RowStep(t)
  PROVE  /\ Goes(t, PC \ {"done", "dead"},
                    {"assert", "load", "decide", "read", "delete", "move", "giveback", "done", "dead"})
         /\ UNCHANGED <<today, locks, slots, written, stored, broken>>
<1>1. UNCHANGED <<today, locks, slots, written, stored, broken>>
  BY DEF RowStep, Read, Delete, Move, StartRelease, Load, StartApprove, Decide, StartWithdraw,
     StartRecompose, Starts, Die, history
<1>2. pc[t] \in PC \ {"done", "dead"}
  BY DEF RowStep, Read, Delete, Move, StartRelease, Load, StartApprove, Decide, StartWithdraw,
     StartRecompose, Starts, Die, Alive, PC, Running
<1>3. \E step \in {"assert", "load", "decide", "read", "delete", "move", "giveback", "done", "dead"} :
         \/ Goto(t, step) /\ UNCHANGED job
         \/ \E task : At(t, step, task)
  <2>1. CASE Read(t) \/ Load(t)
    BY <2>1 DEF Read, Load
  <2>2. CASE Delete(t) \/ Move(t)
    BY <2>2 DEF Delete, Move, Fallen
  <2>3. CASE StartRelease(t) \/ StartApprove(t) \/ StartWithdraw(t) \/ StartRecompose(t)
    BY <2>3 DEF StartRelease, StartApprove, StartWithdraw, StartRecompose, Starts
  <2>4. CASE Decide(t) \/ Die(t)
    BY <2>4 DEF Decide, Die
  <2> QED BY <2>1, <2>2, <2>3, <2>4 DEF RowStep
<1> QED BY <1>1, <1>2, <1>3, GotoGoes DEF Typed

LEMMA Advances ==
  ASSUME Typed, NEW t \in Task, Step(t)
  PROVE  pc[t] \notin {"done", "dead"} /\ pc'[t] # "idle" /\ Stays(t)
  BY StepIs, ComposeGoes, SlotGoes, RowGoes DEF Goes, Composing, Counting

-----------------------------------------------------------------------------
(* One writer: it holds the lock, and whoever a reclaim has judged dead is.  *)

LockInv ==
    /\ ~broken => \A t \in Task : pc[t] \in {"mark", "write"} => lock = t
    /\ meta # NoTask => pc[meta] # "idle"
    /\ \A t \in Task : pc[t] = "break" =>
          job[t].judged \in Task /\ pc[job[t].judged] \in {"done", "dead"}

\* A step that leaves the lock alone and takes no task to write or to reclaim.
LEMMA LockFrame ==
  ASSUME Typed, LockInv, NEW t \in Task, Step(t), UNCHANGED <<lock, broken>>,
         meta' \in {meta, NoTask},
         pc'[t] \in {"mark", "write"} => pc[t] \in {"mark", "write"},
         pc'[t] # "break"
  PROVE  LockInv'
<1>1. pc[t] \notin {"done", "dead"} /\ pc'[t] # "idle" /\ Stays(t)
  BY Advances
<1>2. meta \in Task \cup {NoTask}
  BY Parts DEF Locks
<1> QED BY <1>1, <1>2 DEF LockInv, Stays

LEMMA StepKeepsLock ==
  ASSUME Typed, LockInv, NEW t \in Task, Step(t) PROVE LockInv'
<1>0. /\ pc[t] \notin {"done", "dead"} /\ pc'[t] # "idle" /\ Stays(t) /\ TypeOK
      /\ meta \in Task \cup {NoTask} /\ lock \in Task \cup {NoTask} /\ NoTask \notin Task
      /\ job[t] \in Job
  BY Advances, Parts, TaskAssumption DEF Locks
<1> USE <1>0
<1>1. CASE SlotStep(t) \/ RowStep(t)
  BY <1>1, SlotGoes, RowGoes, LockFrame DEF Goes, Counting, locks
<1>2. CASE StartCompose(t) \/ Unmark(t) \/ Write(t) \/ Forget(t)
  <2>1. \E step \in {"acquire", "reacquire", "unlock", "file", "done"} :
           Goto(t, step) \/ \E task : At(t, step, task)
    BY <1>2 DEF StartCompose, Starts, Unmark, Write, Forget
  <2>2. pc'[t] \in {"acquire", "reacquire", "unlock", "file", "done"}
    BY <2>1, GotoStays, AtStays
  <2>3. UNCHANGED <<lock, broken>> /\ meta' \in {meta, NoTask}
    BY <1>2 DEF StartCompose, Starts, Unmark, Write, Forget, history, locks
  <2> QED BY <2>2, <2>3, LockFrame
<1>3. CASE Acquire(t) \/ Reacquire(t)
  <2>1. meta' = meta /\ (broken => broken') /\ pc'[t] # "break"
    <3>1. \E step \in {"judge", "mark", "done"} : Goto(t, step) \/ \E task : At(t, step, task)
      BY <1>3 DEF Acquire, Reacquire, Held
    <3>2. meta' = meta
      BY <1>3 DEF Acquire, Reacquire
    <3>3. broken => broken'
      BY <1>3 DEF Acquire, Reacquire, history
    <3> QED BY <3>1, <3>2, <3>3, GotoStays, AtStays
  <2>2. ~broken' => \/ lock = NoTask /\ lock' = t
                    \/ lock' = lock /\ pc'[t] \notin {"mark", "write"}
    <3>1. CASE Acquire(t)
      BY <3>1, GotoStays DEF Acquire, Held
    <3>2. CASE Reacquire(t)
      <4>1. CASE lock = NoTask
        BY <3>2, <4>1 DEF Reacquire, Held
      <4>2. CASE lock # NoTask
        BY <3>2, <4>2, AtStays DEF Reacquire
      <4> QED BY <4>1, <4>2
    <3> QED BY <1>3, <3>1, <3>2
  <2> QED BY <2>1, <2>2 DEF LockInv, Stays
<1>4. CASE Judge(t)
  <2>1. UNCHANGED <<lock, meta, broken>>
    BY <1>4 DEF Judge, locks, history
  <2>2. CASE At(t, "done", Nothing)
    BY <2>1, <2>2, AtStays, LockFrame
  <2>3. CASE ~At(t, "done", Nothing)
    <3> DEFINE task == [job[t] EXCEPT !.judged = meta]
    <3>1. At(t, "break", task) /\ meta # NoTask /\ ~Alive(meta)
      BY <1>4, <2>3 DEF Judge
    <3>2. task.judged = meta
      BY JobChanges
    <3> HIDE DEF task
    <3>3. pc'[t] = "break" /\ job'[t].judged = meta
      BY <3>1, <3>2, AtStays
    <3>4. meta \in Task /\ pc[meta] \in {"done", "dead"}
      BY <3>1, JobTyped DEF LockInv, Alive, PC
    <3> QED BY <2>1, <3>3, <3>4 DEF LockInv, Stays
  <2> QED BY <2>2, <2>3
<1>5. CASE Break(t)
  <2>1. /\ lock' = NoTask /\ meta' = meta /\ pc[t] = "break"
        /\ broken' = (broken \/ lock \notin {NoTask, job[t].judged})
    BY <1>5 DEF Break
  <2>2. pc'[t] = "unmark"
    BY <1>5, AtStays DEF Break
  <2>3. ~broken' => ~broken /\ lock \in {NoTask, job[t].judged}
    BY <2>1
  <2>4. ASSUME ~broken', NEW o \in Task, pc'[o] \in {"mark", "write"} PROVE FALSE
    <3>1. o # t /\ lock = o
      BY <2>2, <2>3, <2>4 DEF LockInv, Stays
    <3>2. pc[o] \in {"done", "dead"}
      BY <2>1, <2>3, <2>4, <3>1 DEF LockInv
    <3> QED BY <2>4, <3>1, <3>2 DEF Stays
  <2> QED BY <2>1, <2>2, <2>4 DEF LockInv, Stays
<1>6. CASE Mark(t)
  <2>1. pc[t] = "mark" /\ pc'[t] = "write" /\ meta' = t /\ UNCHANGED <<lock, broken>>
    BY <1>6, GotoStays DEF Mark, history
  <2> QED BY <2>1 DEF LockInv, Stays
<1>7. CASE Unlock(t)
  <2>1. /\ pc'[t] = "forget" /\ UNCHANGED <<meta, broken>>
        /\ lock' = IF lock = t THEN NoTask ELSE lock
    BY <1>7, GotoStays DEF Unlock, history
  <2> QED BY <2>1 DEF LockInv, Stays
<1> QED BY <1>1, <1>2, <1>3, <1>4, <1>5, <1>6, <1>7, StepIs DEF ComposeStep

LEMMA ClockKeepsLock ==
  ASSUME Typed, LockInv, Tick \/ Expire \/ UNCHANGED vars PROVE LockInv'
<1>1. UNCHANGED <<pc, job, broken>> /\ meta' \in {meta, NoTask}
  BY DEF Tick, Expire, vars, locks, history
<1>2. lock' = lock \/ (lock # NoTask /\ ~Alive(lock))
  BY DEF Tick, Expire, vars, locks
<1>3. ~Alive(lock) => pc[lock] \notin {"mark", "write"}
  BY DEF Alive, Running
<1> QED BY <1>1, <1>2, <1>3 DEF LockInv

\* One writer loop runs at a time, whoever dies and whoever reclaims, unless the
\* lock that a reclaim deleted had changed hands, or Redis was out of reach
\* (compose_lock).
THEOREM SingleWriter == Spec => []OneWriter
<1>1. Init => LockInv
  BY DEF Init, LockInv
<1>2. Typed /\ LockInv /\ [Next]_vars => LockInv'
  BY StepKeepsLock, ClockKeepsLock DEF Next
<1>3. LockInv => OneWriter
  <2> SUFFICES ASSUME LockInv, ~broken
               PROVE  Cardinality({t \in Task : pc[t] \in {"mark", "write"}}) <= 1
    BY DEF OneWriter
  <2> DEFINE writers == {t \in Task : pc[t] \in {"mark", "write"}}
  <2>1. writers \subseteq {lock}
    BY DEF LockInv
  <2>2. IsFiniteSet({lock}) /\ Cardinality({lock}) = 1
    BY FS_Singleton
  <2>3. Cardinality(writers) <= Cardinality({lock})
    BY <2>1, <2>2, FS_Subset
  <2> QED BY <2>2, <2>3
<1> QED BY <1>1, <1>2, <1>3, TypeCorrect, PTL DEF Spec

-----------------------------------------------------------------------------
(* What a compose has finished is stored, and its article by no one else.    *)

Filing == {"file", "stash", "insert"}
Kept   == {"unlock", "forget"} \cup Filing \cup Counting

FileInv(t) ==
    /\ pc[t] \in Composing \cup Filing => job[t].kind = "compose"
    /\ pc[t] \in {"count", "set"} => job[t].then \in {"check", "incr"}
    /\ \/ pc[t] = "idle"
       \/ job[t].kind = "compose" /\ pc[t] \in Composing \cup Filing \cup Counting
       => t \notin stored
    /\ failures = 0 /\ t \in written =>
          t \in stored \/ (job[t].kind = "compose" /\ pc[t] \in Kept)

\* The counter of failures does not go back.
LEMMA FailuresGrow == Typed /\ Fails => failures' # 0
  BY BoundAssumption DEF Typed, TypeOK, Fails

LEMMA ComposeKeepsFile ==
  ASSUME Typed, NEW t \in Task, FileInv(t), ComposeStep(t) PROVE FileInv(t)'
<1>0. /\ stored' = stored /\ TypeOK /\ job[t] \in Job
      /\ pc[t] \in Composing \cup {"idle"} /\ pc'[t] \in Composing \cup {"file", "done"}
  BY ComposeGoes, Parts DEF Goes
<1> USE <1>0
<1>1. t \notin stored
  BY DEF FileInv
<1>2. pc'[t] # "done" => job'[t].kind = "compose"
  <2>1. CASE StartCompose(t)
    <3>1. PICK s \in Service \cup {NoService} :
            At(t, "acquire", [Nothing EXCEPT !.kind = "compose", !.id = t, !.service = s])
      BY <2>1 DEF StartCompose, Starts
    <3> DEFINE task == [Nothing EXCEPT !.kind = "compose", !.id = t, !.service = s]
    <3>2. task.kind = "compose"
      BY DEF Nothing
    <3>3. At(t, "acquire", task)
      BY <3>1
    <3> HIDE DEF task
    <3> QED BY <3>2, <3>3, AtStays
  <2>2. CASE Judge(t)
    <3>1. CASE At(t, "done", Nothing)
      BY <3>1, AtStays
    <3>2. CASE ~At(t, "done", Nothing)
      <4> DEFINE task == [job[t] EXCEPT !.judged = meta]
      <4>1. At(t, "break", task)
        BY <2>2, <3>2 DEF Judge
      <4>2. task.kind = job[t].kind /\ job[t].kind = "compose"
        BY <2>2, JobChanges, Parts DEF FileInv, Judge, Composing, Locks
      <4> HIDE DEF task
      <4> QED BY <4>1, <4>2, AtStays
    <3> QED BY <3>1, <3>2
  <2>3. CASE Break(t)
    <3> DEFINE task == [job[t] EXCEPT !.judged = NoTask]
    <3>1. At(t, "unmark", task)
      BY <2>3 DEF Break
    <3>2. task.kind = job[t].kind /\ job[t].kind = "compose"
      BY <2>3, JobChanges DEF FileInv, Break, Composing
    <3> HIDE DEF task
    <3> QED BY <3>1, <3>2, AtStays
  <2>4. CASE Reacquire(t) \/ Forget(t)
    <3>1. job[t].kind = "compose"
      BY <2>4 DEF FileInv, Reacquire, Forget, Composing
    <3>2. UNCHANGED job \/ At(t, "done", Nothing)
      BY <2>4 DEF Reacquire, Forget
    <3> QED BY <3>1, <3>2, AtStays
  <2>5. CASE Acquire(t) \/ Unmark(t) \/ Mark(t) \/ Write(t) \/ Unlock(t)
    <3>1. job[t].kind = "compose"
      BY <2>5 DEF FileInv, Acquire, Unmark, Mark, Write, Unlock, Composing
    <3>2. UNCHANGED job
      BY <2>5 DEF Acquire, Unmark, Mark, Write, Unlock
    <3> QED BY <3>1, <3>2
  <2> QED BY <2>1, <2>2, <2>3, <2>4, <2>5 DEF ComposeStep
<1>3. ASSUME failures' = 0, t \in written' PROVE pc'[t] \in {"unlock", "forget", "file"}
  <2>1. CASE Write(t)
    BY <2>1, GotoStays DEF Write
  <2>2. CASE ~Write(t)
    <3>1. written' = written
      BY <2>2 DEF ComposeStep, StartCompose, Acquire, Judge, Break, Unmark, Reacquire, Mark,
         Unlock, Forget, history
    <3>2. failures = 0
      <4>1. failures' = failures \/ Fails
        BY <2>2 DEF ComposeStep, StartCompose, Starts, Acquire, Judge, Break, Unmark, Reacquire,
           Mark, Unlock, Forget
      <4> QED BY <1>3, <4>1, FailuresGrow
    <3>3. pc[t] \in {"unlock", "forget"}
      BY <1>1, <1>3, <3>1, <3>2 DEF FileInv, Kept, Filing, Counting, Composing
    <3>4. Unlock(t) \/ Forget(t)
      BY <2>2, <3>3 DEF ComposeStep, StartCompose, Starts, Acquire, Judge, Break, Unmark,
         Reacquire, Mark
    <3> QED BY <1>3, <3>1, <3>4, GotoStays DEF Unlock, Forget
  <2> QED BY <2>1, <2>2
<1>4. pc'[t] \notin {"count", "set", "idle"}
  BY DEF Composing
<1>5. pc'[t] = "done" => pc'[t] \notin Composing \cup Filing \cup Counting
  BY DEF Composing, Filing, Counting
<1>6. pc'[t] \in {"unlock", "forget", "file"} => pc'[t] # "done" /\ pc'[t] \in Kept
  BY DEF Kept, Filing
<1> QED BY <1>1, <1>2, <1>3, <1>4, <1>5, <1>6 DEF FileInv

LEMMA SlotKeepsFile ==
  ASSUME Typed, NEW t \in Task, FileInv(t), SlotStep(t) PROVE FileInv(t)'
<1>0. TypeOK /\ written' = written /\ job[t] \in Job
  BY SlotGoes, Parts
<1> USE <1>0
<1> USE DEF Composing, Filing, Counting, Kept
\* A step that stores nothing and stays a compose's, or was none of it.
<1>a. ASSUME stored' = stored, failures' = failures, job'[t].kind = job[t].kind,
             pc[t] \in Counting \cup {"file"}, pc'[t] \in Counting \cup {"stash", "insert"},
             pc'[t] \in {"stash", "insert"} => job[t].kind = "compose",
             pc'[t] \in {"count", "set"} => job'[t].then \in {"check", "incr"}
      PROVE  FileInv(t)'
  BY <1>a DEF FileInv
<1>b. ASSUME stored' = stored \cup {t}, pc'[t] = "done" PROVE FileInv(t)'
  BY <1>b DEF FileInv
<1>c. ASSUME stored' = stored \/ stored' = stored \cup {t},
             pc'[t] \in {"giveback", "decr", "done", "load"},
             \/ failures' # 0
             \/ failures' = failures /\ pc[t] \in {"giveback", "decr"}
             \/ failures' = failures /\ job[t].kind # "compose"
      PROVE  FileInv(t)'
  BY <1>c DEF FileInv
<1>1. CASE File(t)
  <2>1. CASE Goto(t, "assert") /\ UNCHANGED <<table, job, stored>>
    BY <1>1, <2>1, <1>a, GotoStays DEF File
  <2>2. CASE ~(Goto(t, "assert") /\ UNCHANGED <<table, job, stored>>)
    <3>1. stored' = stored \cup {t} /\ At(t, "done", Nothing)
      BY <1>1, <2>2 DEF File, Store
    <3> QED BY <3>1, <1>b, AtStays
  <2> QED BY <2>1, <2>2
<1>2. CASE Stash(t)
  BY <1>2, <1>b, AtStays DEF Stash, Store
<1>3. ASSUME NEW then \in {"check", "incr"}, Begin(t, then), pc[t] \in {"assert", "reserve"}
      PROVE  FileInv(t)'
  <2> DEFINE task == [job[t] EXCEPT !.day = today, !.then = then]
  <2>1. task.kind = job[t].kind /\ task.then = then
    BY DEF Job
  <2>2. job' = [job EXCEPT ![t] = task]
    BY <1>3 DEF Begin
  <2> HIDE DEF task
  <2>3. PICK step \in {"check", "incr", "count"} : Goto(t, step)
    BY <1>3 DEF Begin
  <2>4. pc'[t] = step /\ job'[t] = task
    BY <2>2, <2>3, PlaceStays
  <2>5. stored' = stored /\ failures' = failures
    BY <1>3 DEF Begin, history
  <2> QED BY <1>3, <2>1, <2>4, <2>5, <1>a
<1>4. CASE Count(t)
  <2> DEFINE task == [job[t] EXCEPT !.n = Published(job[t].day)]
  <2>1. Published(job[t].day) \in Nat
    BY FS_Subset, FS_CardinalityType, Parts DEF Published, Tables
  <2>2. task.kind = job[t].kind /\ task.then = job[t].then
    BY <2>1, JobChanges
  <2>3. job' = [job EXCEPT ![t] = task] /\ Goto(t, "set")
    BY <1>4 DEF Count
  <2> HIDE DEF task
  <2>4. pc'[t] = "set" /\ job'[t] = task
    BY <2>3, PlaceStays
  <2>5. stored' = stored /\ failures' = failures /\ pc[t] = "count"
    BY <1>4 DEF Count, history
  <2>6. job[t].then \in {"check", "incr"}
    BY <2>5 DEF FileInv
  <2> QED BY <2>2, <2>4, <2>5, <2>6, <1>a
<1>5. CASE Set(t)
  <2>1. pc[t] = "set" /\ Goto(t, job[t].then) /\ UNCHANGED <<job, stored, failures>>
    BY <1>5 DEF Set
  <2>2. job[t].then \in {"check", "incr"}
    BY <2>1 DEF FileInv
  <2> QED BY <2>1, <2>2, <1>a, GotoStays
<1>6. CASE Check(t)
  <2> DEFINE task(id) == [job[t] EXCEPT !.id = id, !.then = "done", !.n = 0]
  <2>1. \A id \in Id \cup {NoTask} : task(id).kind = job[t].kind
    BY IdAndThen
  <2>2. /\ pc[t] = "check" /\ stored' = stored /\ failures' = failures
        /\ \A r \in Backlog : r.id \in Id
        /\ t \in Id
    BY <1>6, Parts DEF Check, history, Backlog, Tables, Row
  <2>3. CASE job[t].kind = "compose"
    <3>1. PICK step \in {"reserve", "stash"} : At(t, step, task(t))
      <4>1. At(t, IF count[job[t].day] < Cap THEN "reserve" ELSE "stash", task(t))
        BY <1>6, <2>3 DEF Check
      <4>2. CASE count[job[t].day] < Cap
        BY <4>1, <4>2
      <4>3. CASE ~(count[job[t].day] < Cap)
        BY <4>1, <4>3
      <4> QED BY <4>2, <4>3
    <3>2. task(t).kind = job[t].kind
      BY <2>1, <2>2
    <3> HIDE DEF task
    <3>3. pc'[t] = step /\ job'[t].kind = job[t].kind
      BY <3>1, <3>2, AtStays
    <3> QED BY <2>2, <2>3, <3>3, <1>a
  <2>4. CASE job[t].kind # "compose"
    <3>1. \/ At(t, "done", Nothing)
          \/ \E r \in Backlog : At(t, "reserve", task(r.id))
      BY <1>6, <2>4 DEF Check
    <3>2. CASE At(t, "done", Nothing)
      BY <2>2, <2>4, <3>2, <1>c, AtStays
    <3>3. CASE ~At(t, "done", Nothing)
      <4>1. PICK r \in Backlog : At(t, "reserve", task(r.id))
        BY <3>1, <3>3
      <4>2. task(r.id).kind = job[t].kind
        BY <2>1, <2>2
      <4> HIDE DEF task
      <4>3. pc'[t] = "reserve" /\ job'[t].kind = job[t].kind
        BY <4>1, <4>2, AtStays
      <4> QED BY <2>2, <4>3, <1>a
    <3> QED BY <3>2, <3>3
  <2> QED BY <2>3, <2>4
<1>7. CASE Incr(t)
  <2>1. pc[t] = "incr" /\ UNCHANGED <<job, stored, failures>>
    BY <1>7 DEF Incr, history
  <2>2. \E step \in {"undo", "insert", "load"} :
           Goto(t, step) /\ (step = "insert" => job[t].kind = "compose")
                         /\ (step = "load" => job[t].kind # "compose")
    BY <1>7 DEF Incr
  <2>3. /\ pc'[t] \in {"undo", "insert", "load"}
        /\ pc'[t] = "insert" => job[t].kind = "compose"
        /\ pc'[t] = "load" => job[t].kind # "compose"
    BY <2>2, GotoStays
  <2> QED BY <2>1, <2>3, <1>a, <1>c
<1>8. CASE Undo(t)
  <2>1. pc[t] = "undo" /\ UNCHANGED <<stored, failures>>
    BY <1>8 DEF Undo, history
  <2>2. CASE job[t].kind = "compose"
    BY <1>8, <2>1, <2>2, <1>a, GotoStays DEF Undo
  <2>3. CASE job[t].kind # "compose"
    BY <1>8, <2>1, <2>3, <1>c, AtStays DEF Undo
  <2> QED BY <2>2, <2>3
<1>9. CASE GiveBack(t) \/ Decr(t)
  <2>1. pc[t] \in {"giveback", "decr"} /\ UNCHANGED <<stored, failures>>
    BY <1>9 DEF GiveBack, Decr, history
  <2>2. pc'[t] \in {"decr", "done"}
    BY <1>9, GotoStays, AtStays DEF GiveBack, Decr
  <2> QED BY <2>1, <2>2, <1>c
<1>10. CASE Insert(t)
  <2>1. CASE Store(t, "published") /\ At(t, "done", Nothing)
    BY <2>1, <1>b, AtStays DEF Store
  <2>2. CASE ~(Store(t, "published") /\ At(t, "done", Nothing))
    <3>1. Fails /\ Goto(t, "giveback") /\ (stored' = stored \/ stored' = stored \cup {t})
      BY <1>10, <2>2 DEF Insert, Store
    <3> QED BY <3>1, <1>c, GotoStays, FailuresGrow
  <2> QED BY <2>1, <2>2
<1> QED BY <1>1, <1>2, <1>3, <1>4, <1>5, <1>6, <1>7, <1>8, <1>9, <1>10
        DEF SlotStep, AssertAllowed, Reserve

LEMMA RowKeepsFile ==
  ASSUME Typed, NEW t \in Task, FileInv(t), RowStep(t) PROVE FileInv(t)'
<1>0. /\ TypeOK /\ written' = written /\ stored' = stored
      /\ pc'[t] \in {"assert", "load", "decide", "read", "delete", "move", "giveback", "done", "dead"}
  BY RowGoes DEF Goes, Typed
<1> USE <1>0
<1>1. pc'[t] = "assert" => job'[t].kind = "release"
  <2>1. CASE StartRelease(t)
    <3> DEFINE task == [Nothing EXCEPT !.kind = "release"]
    <3>1. At(t, "assert", task) /\ task.kind = "release"
      BY <2>1 DEF StartRelease, Starts, Nothing
    <3> HIDE DEF task
    <3> QED BY <3>1, AtStays
  <2>2. CASE Read(t) \/ Load(t)
    <3>1. \E step \in {"delete", "giveback", "read", "done"} :
             Goto(t, step) \/ \E task : At(t, step, task)
      BY <2>2 DEF Read, Load
    <3> QED BY <3>1, GotoStays, AtStays
  <2>3. CASE Delete(t) \/ Move(t)
    BY <2>3, GotoStays, AtStays DEF Delete, Move, Fallen
  <2>4. CASE StartApprove(t) \/ StartWithdraw(t) \/ StartRecompose(t)
    <3>1. \E step \in {"decide", "read"} : \E task : At(t, step, task)
      BY <2>4 DEF StartApprove, StartWithdraw, StartRecompose, Starts
    <3> QED BY <3>1, AtStays
  <2>5. CASE Decide(t) \/ Die(t)
    BY <2>5, AtStays DEF Decide, Die
  <2> QED BY <2>1, <2>2, <2>3, <2>4, <2>5 DEF RowStep
<1>2. ASSUME failures' = 0, t \in written PROVE t \in stored
  <2>1. failures' = failures \/ Fails
    BY DEF RowStep, Read, Load, Delete, Move, Fallen, StartRelease, StartApprove, StartWithdraw,
       StartRecompose, Starts, Decide, Die
  <2>2. failures = 0 /\ ~Fails
    BY <1>2, <2>1, FailuresGrow
  <2>3. pc[t] \notin Kept
    BY <2>2 DEF RowStep, Read, Load, Delete, Move, StartRelease, StartApprove, StartWithdraw,
       StartRecompose, Starts, Decide, Die, Kept, Filing, Counting
  <2> QED BY <1>2, <2>2, <2>3 DEF FileInv
<1> QED BY <1>1, <1>2 DEF FileInv, Composing, Filing, Counting

\* The filing of another task, and time, do not touch this one.
LEMMA OthersKeepFile ==
  ASSUME Typed, NEW t \in Task, FileInv(t),
         \/ \E o \in Task \ {t} : Step(o)
         \/ Tick \/ Expire \/ UNCHANGED vars
  PROVE  FileInv(t)'
<1>1. CASE Tick \/ Expire \/ UNCHANGED vars
  BY <1>1 DEF Tick, Expire, vars, table, slots, history, FileInv
<1>2. ASSUME NEW o \in Task \ {t}, Step(o) PROVE FileInv(t)'
  <2>1. pc'[t] = pc[t] /\ job'[t] = job[t]
    BY <1>2, Advances DEF Stays
  <2>2. (t \in stored' <=> t \in stored) /\ (t \in written' <=> t \in written)
    <3>1. CASE ComposeStep(o)
      <4>1. stored' = stored
        BY <3>1, ComposeGoes
      <4>2. written' = written \/ written' = written \cup {o}
        BY <3>1 DEF ComposeStep, StartCompose, Acquire, Judge, Break, Unmark, Reacquire, Mark,
           Write, Unlock, Forget, history
      <4> QED BY <1>2, <4>1, <4>2
    <3>2. CASE SlotStep(o)
      <4>1. written' = written
        BY <3>2, SlotGoes
      <4>2. stored' = stored \/ stored' = stored \cup {o}
        BY <3>2 DEF SlotStep, File, Stash, AssertAllowed, Reserve, Begin, Count, Set, Check,
           Incr, Undo, GiveBack, Decr, Insert, Store, history
      <4> QED BY <1>2, <4>1, <4>2
    <3>3. CASE RowStep(o)
      BY <3>3, RowGoes
    <3> QED BY <1>2, <3>1, <3>2, <3>3, StepIs
  <2>3. failures' = 0 => failures = 0
    <3>1. failures' = failures \/ Fails
      <4>1. CASE ComposeStep(o)
        BY <4>1 DEF ComposeStep, StartCompose, Starts, Acquire, Judge, Break, Unmark, Reacquire,
           Mark, Write, Unlock, Forget
      <4>2. CASE SlotStep(o)
        BY <4>2 DEF SlotStep, File, Stash, AssertAllowed, Reserve, Begin, Count, Set, Check,
           Incr, Undo, GiveBack, Decr, Insert
      <4>3. CASE RowStep(o)
        BY <4>3 DEF RowStep, Read, Load, Delete, Move, Fallen, StartRelease, StartApprove,
           StartWithdraw, StartRecompose, Starts, Decide, Die
      <4> QED BY <1>2, <4>1, <4>2, <4>3, StepIs
    <3> QED BY <3>1, FailuresGrow
  <2> QED BY <2>1, <2>2, <2>3 DEF FileInv
<1> QED BY <1>1, <1>2

LEMMA Filed == Spec => [](Typed /\ \A t \in Task : FileInv(t))
<1>1. Init => \A t \in Task : FileInv(t)
  <2> SUFFICES ASSUME Init, NEW t \in Task PROVE FileInv(t)
    OBVIOUS
  <2>1. pc[t] = "idle" /\ written = {} /\ stored = {r.id : r \in Existing}
    BY DEF Init
  <2>2. t \notin stored
    BY <2>1, ExistingAssumption
  <2> QED BY <2>1, <2>2 DEF FileInv, Composing, Filing, Counting
<1>2. Typed /\ (\A t \in Task : FileInv(t)) /\ [Next]_vars => (\A t \in Task : FileInv(t))'
  <2> SUFFICES ASSUME Typed, NEW t \in Task, FileInv(t), [Next]_vars PROVE FileInv(t)'
    OBVIOUS
  <2>1. CASE Step(t)
    BY <2>1, StepIs, ComposeKeepsFile, SlotKeepsFile, RowKeepsFile
  <2>2. CASE ~Step(t)
    <3>1. \/ \E o \in Task \ {t} : Step(o)
          \/ Tick \/ Expire \/ UNCHANGED vars
      BY <2>2 DEF Next
    <3> QED BY <3>1, OthersKeepFile
  <2> QED BY <2>1, <2>2
<1> QED BY <1>1, <1>2, TypeCorrect, PTL DEF Spec

\* A finished compose is not thrown away for want of a slot: unless a call
\* failed, its task ends with the article stored (_finalize_publish,
\* _stash_capped_compose_to_backlog).
THEOREM FinishedIsStored == Spec => []ComposedKept
<1>1. (\A t \in Task : FileInv(t)) => ComposedKept
  BY DEF FileInv, ComposedKept, Kept, Filing, Counting
<1> QED BY <1>1, Filed, PTL

-----------------------------------------------------------------------------
(* The table: an article that was stored has a row, unless it is being moved *)
(* or its move broke off, and it has no other.                             *)

InMove(t, id) == pc[t] = "move" /\ job[t].id = id

Single ==
    /\ \A r, o \in rows : r.id = o.id => r = o
    /\ \A t \in Task : pc[t] = "move" =>
          /\ \A r \in rows : r.id # job[t].id
          /\ \A o \in Task : InMove(o, job[t].id) => o = t

TableInv ==
    /\ \A r \in rows : r.id \in stored
    /\ \A t \in Task : pc[t] \in {"delete", "move"} => job[t].id \in stored
    /\ \A id \in stored : (\E r \in rows : r.id = id) \/ (\E t \in Task : InMove(t, id)) \/ id \in torn
    /\ ~moved => Single

\* A step that leaves the table alone; one that gave up a move says so.
LEMMA TableFrame ==
  ASSUME TableInv, NEW t \in Task, Stays(t), UNCHANGED <<rows, stored, moved>>,
         torn \subseteq torn', pc[t] = "move" => job[t].id \in torn',
         pc'[t] # "move", pc'[t] = "delete" => job'[t].id \in stored
  PROVE  TableInv'
<1>1. ~moved' => Single'
  BY DEF TableInv, Single, InMove, Stays
<1>2. ASSUME NEW id \in stored'
      PROVE  (\E r \in rows' : r.id = id) \/ (\E o \in Task : InMove(o, id)') \/ id \in torn'
  <2>1. (\E r \in rows : r.id = id) \/ (\E o \in Task : InMove(o, id)) \/ id \in torn
    BY <1>2 DEF TableInv
  <2> QED BY <2>1 DEF InMove, Stays
<1>3. /\ \A r \in rows' : r.id \in stored'
      /\ \A o \in Task : pc'[o] \in {"delete", "move"} => job'[o].id \in stored'
  BY DEF TableInv, Stays
<1> QED BY <1>1, <1>2, <1>3 DEF TableInv

\* A new article.
LEMMA TableStores ==
  ASSUME Typed, TableInv, NEW t \in Task, t \notin stored, Stays(t), UNCHANGED <<torn, moved>>,
         NEW status \in Status, Store(t, status),
         pc[t] # "move", pc'[t] \notin {"delete", "move"}
  PROVE  TableInv'
<1> DEFINE row == [id |-> t, status |-> status, at |-> t, day |-> today, service |-> job[t].service]
<1>1. rows' = Put(row) /\ stored' = stored \cup {t} /\ row.id = t
  BY DEF Store
<1> HIDE DEF row
<1>2. \A r \in rows : r.id # t
  BY DEF TableInv
<1>3. \A r : r \in rows' <=> r \in rows \/ r = row
  BY <1>1, <1>2 DEF Put, SameKey
<1>4. ~moved' => Single'
  <2> SUFFICES ASSUME ~moved PROVE Single'
    OBVIOUS
  <2>1. \A r, o \in rows' : r.id = o.id => r = o
    BY <1>1, <1>2, <1>3 DEF TableInv, Single
  <2>2. ASSUME NEW u \in Task, pc'[u] = "move"
        PROVE  /\ \A r \in rows' : r.id # job'[u].id
               /\ \A o \in Task : InMove(o, job[u].id)' => o = u
    <3>1. u # t /\ pc[u] = "move" /\ job'[u] = job[u] /\ job[u].id # t
      BY <2>2 DEF Stays, TableInv
    <3>2. \A r \in rows : r.id # job[u].id
      BY <3>1 DEF TableInv, Single
    <3>3. \A o \in Task : InMove(o, job[u].id)' => o = u
      BY <3>1 DEF TableInv, Single, InMove, Stays
    <3> QED BY <1>1, <1>3, <3>1, <3>2, <3>3
  <2> QED BY <2>1, <2>2 DEF Single
<1>5. ASSUME NEW id \in stored'
      PROVE  (\E r \in rows' : r.id = id) \/ (\E o \in Task : InMove(o, id)') \/ id \in torn'
  <2>1. CASE id = t
    BY <1>1, <1>3, <2>1
  <2>2. CASE id # t
    <3>1. (\E r \in rows : r.id = id) \/ (\E o \in Task : InMove(o, id)) \/ id \in torn
      BY <1>1, <1>5, <2>2 DEF TableInv
    <3> QED BY <1>3, <3>1 DEF InMove, Stays
  <2> QED BY <2>1, <2>2
<1>6. /\ \A r \in rows' : r.id \in stored'
      /\ \A o \in Task : pc'[o] \in {"delete", "move"} => job'[o].id \in stored'
  BY <1>1, <1>3 DEF TableInv, Stays
<1> QED BY <1>4, <1>5, <1>6 DEF TableInv

LEMMA TableDeletes ==
  ASSUME Typed, TableInv, NEW t \in Task, pc[t] = "delete", pc'[t] = "move", job'[t] = job[t],
         Stays(t), UNCHANGED <<stored, torn>>,
         rows' = rows \ {Old(t)}, moved' = (moved \/ Old(t) \notin rows)
  PROVE  TableInv'
<1> DEFINE i == job[t].id
<1>0. Old(t).id = i /\ i \in stored
  BY TargetTyped DEF TableInv
<1>1. ~moved' => Single'
  <2> SUFFICES ASSUME ~moved' PROVE Single'
    OBVIOUS
  <2>1. ~moved /\ Old(t) \in rows /\ Single
    BY DEF TableInv
  <2>2. \A r \in rows' : r.id # i
    BY <1>0, <2>1 DEF Single
  <2>3. \A u \in Task : ~InMove(u, i)
    BY <1>0, <2>1 DEF Single, InMove
  <2>4. \A r, o \in rows' : r.id = o.id => r = o
    BY <2>1 DEF Single
  <2>5. ASSUME NEW u \in Task, pc'[u] = "move"
        PROVE  /\ \A r \in rows' : r.id # job'[u].id
               /\ \A o \in Task : InMove(o, job[u].id)' => o = u
    <3>1. CASE u = t
      BY <2>2, <2>3, <3>1 DEF InMove, Stays
    <3>2. CASE u # t
      <4>1. pc[u] = "move" /\ job'[u] = job[u] /\ job[u].id # i
        BY <2>3, <2>5, <3>2 DEF Stays, InMove
      <4> QED BY <2>1, <4>1 DEF Single, InMove, Stays
    <3> QED BY <3>1, <3>2
  <2> QED BY <2>4, <2>5 DEF Single
<1>2. ASSUME NEW id \in stored'
      PROVE  (\E r \in rows' : r.id = id) \/ (\E o \in Task : InMove(o, id)') \/ id \in torn'
  <2>1. CASE id = i
    BY <2>1 DEF InMove
  <2>2. CASE id # i
    <3>1. (\E r \in rows : r.id = id) \/ (\E o \in Task : InMove(o, id)) \/ id \in torn
      BY <1>2 DEF TableInv
    <3> QED BY <1>0, <2>2, <3>1 DEF InMove, Stays
  <2> QED BY <2>1, <2>2
<1>3. /\ \A r \in rows' : r.id \in stored'
      /\ \A o \in Task : pc'[o] \in {"delete", "move"} => job'[o].id \in stored'
  BY DEF TableInv, Stays
<1> QED BY <1>1, <1>2, <1>3 DEF TableInv

LEMMA TablePuts ==
  ASSUME Typed, TableInv, NEW t \in Task, pc[t] = "move", pc'[t] \notin {"delete", "move"},
         Stays(t), UNCHANGED <<stored, torn, moved>>, rows' = Put(Target(t))
  PROVE  TableInv'
<1> DEFINE i == job[t].id
<1>0. Target(t).id = i /\ i \in stored
  BY TargetTyped DEF TableInv
<1>1. /\ Target(t) \in rows' /\ \A r \in rows' : r \in rows \/ r = Target(t)
      /\ \A r \in rows : r.id # i => r \in rows'
  BY <1>0 DEF Put, SameKey
<1>2. ~moved' => Single'
  <2> SUFFICES ASSUME ~moved PROVE Single'
    OBVIOUS
  <2>1. Single /\ \A r \in rows : r.id # i
    BY DEF TableInv, Single
  <2>2. \A r, o \in rows' : r.id = o.id => r = o
    BY <1>0, <1>1, <2>1 DEF Single
  <2>3. ASSUME NEW u \in Task, pc'[u] = "move"
        PROVE  /\ \A r \in rows' : r.id # job'[u].id
               /\ \A o \in Task : InMove(o, job[u].id)' => o = u
    <3>1. u # t /\ pc[u] = "move" /\ job'[u] = job[u]
      BY <2>3 DEF Stays
    <3>2. job[u].id # i
      BY <2>1, <3>1 DEF Single, InMove
    <3> QED BY <1>0, <1>1, <2>1, <3>1, <3>2 DEF Single, InMove, Stays
  <2> QED BY <2>2, <2>3 DEF Single
<1>3. ASSUME NEW id \in stored'
      PROVE  (\E r \in rows' : r.id = id) \/ (\E o \in Task : InMove(o, id)') \/ id \in torn'
  <2>1. CASE id = i
    BY <1>0, <1>1, <2>1
  <2>2. CASE id # i
    <3>1. (\E r \in rows : r.id = id) \/ (\E o \in Task : InMove(o, id)) \/ id \in torn
      BY <1>3 DEF TableInv
    <3> QED BY <1>1, <2>2, <3>1 DEF InMove, Stays
  <2> QED BY <2>1, <2>2
<1>4. /\ \A r \in rows' : r.id \in stored'
      /\ \A o \in Task : pc'[o] \in {"delete", "move"} => job'[o].id \in stored'
  BY <1>0, <1>1 DEF TableInv, Stays
<1> QED BY <1>2, <1>3, <1>4 DEF TableInv

LEMMA StepKeepsTable ==
  ASSUME Typed, TableInv, NEW t \in Task, FileInv(t), Step(t) PROVE TableInv'
<1>0. TypeOK /\ Stays(t) /\ job[t] \in Job
  BY Advances, Parts
<1> USE <1>0
<1>1. CASE ComposeStep(t)
  <2>1. UNCHANGED <<rows, stored, moved, torn>> /\ pc[t] # "move" /\ pc'[t] \notin {"delete", "move"}
    BY <1>1, ComposeGoes DEF Goes, Composing, table
  <2> QED BY <2>1, TableFrame
<1>2. CASE SlotStep(t)
  <2>1. /\ UNCHANGED <<moved, torn>> /\ pc[t] # "move" /\ pc'[t] \notin {"delete", "move"}
    BY <1>2, SlotGoes DEF Goes, Counting
  <2>2. CASE UNCHANGED <<rows, stored>>
    BY <2>1, <2>2, TableFrame
  <2>3. CASE ~UNCHANGED <<rows, stored>>
    <3>1. pc[t] \in Filing /\ \E status \in Status : Store(t, status)
      BY <1>2, <2>3 DEF SlotStep, File, Stash, AssertAllowed, Reserve, Begin, Count, Set, Check,
         Incr, Undo, GiveBack, Decr, Insert, Filing, Status, table, history
    <3>2. t \notin stored
      BY <3>1 DEF FileInv
    <3> QED BY <2>1, <3>1, <3>2, TableStores
  <2> QED BY <2>2, <2>3
<1>3. CASE Read(t)
  <2>1. UNCHANGED <<rows, stored, moved, torn>> /\ pc[t] = "read"
    BY <1>3 DEF Read, table, history
  <2>2. CASE At(t, "done", Nothing)
    BY <2>1, <2>2, AtStays, TableFrame
  <2>3. CASE ~At(t, "done", Nothing)
    <3>1. PICK r \in Of(job[t].id) : At(t, "delete", [job[t] EXCEPT !.old = {r}])
      BY <1>3, <2>3 DEF Read
    <3> DEFINE task == [job[t] EXCEPT !.old = {r}]
    <3>2. task.id = job[t].id
      BY DEF Job
    <3>3. At(t, "delete", task) /\ job[t].id \in stored
      BY <3>1 DEF Of, TableInv
    <3> HIDE DEF task
    <3>4. pc'[t] = "delete" /\ job'[t].id \in stored
      BY <3>2, <3>3, AtStays
    <3> QED BY <2>1, <3>4, TableFrame
  <2> QED BY <2>2, <2>3
<1>4. CASE Delete(t)
  <2>1. UNCHANGED <<stored, torn>> /\ pc[t] = "delete"
    BY <1>4 DEF Delete
  <2>2. CASE Fallen(t) /\ UNCHANGED <<rows, moved>>
    <3>1. pc'[t] \in {"giveback", "done"}
      BY <2>2, GotoStays, AtStays DEF Fallen
    <3> QED BY <2>1, <2>2, <3>1, TableFrame
  <2>3. CASE ~(Fallen(t) /\ UNCHANGED <<rows, moved>>)
    <3>1. /\ rows' = rows \ {Old(t)} /\ moved' = (moved \/ Old(t) \notin rows)
          /\ Goto(t, "move") /\ UNCHANGED job
      BY <1>4, <2>3 DEF Delete
    <3> QED BY <2>1, <3>1, GotoStays, TableDeletes
  <2> QED BY <2>2, <2>3
<1>5. CASE Move(t)
  <2>1. UNCHANGED <<stored, moved>> /\ pc[t] = "move"
    BY <1>5 DEF Move
  <2>2. pc'[t] \in {"giveback", "done"}
    BY <1>5, GotoStays, AtStays DEF Move, Fallen
  <2>3. \/ rows' = Put(Target(t)) /\ torn' = torn
        \/ rows' = rows /\ torn' = torn \cup {job[t].id}
    BY <1>5 DEF Move
  <2>4. CASE rows' = Put(Target(t)) /\ torn' = torn
    BY <2>1, <2>2, <2>4, TablePuts
  <2>5. CASE rows' = rows /\ torn' = torn \cup {job[t].id}
    BY <2>1, <2>2, <2>5, TableFrame
  <2> QED BY <2>3, <2>4, <2>5
<1>6. CASE \/ StartRelease(t) \/ Load(t) \/ StartApprove(t) \/ Decide(t)
           \/ StartWithdraw(t) \/ StartRecompose(t)
  <2>1. UNCHANGED <<rows, stored, moved, torn>> /\ pc[t] # "move"
    BY <1>6 DEF StartRelease, Load, StartApprove, Decide, StartWithdraw, StartRecompose, Starts,
       table, history
  <2>2. \E step \in {"assert", "decide", "read", "load", "giveback", "done"} :
           Goto(t, step) \/ \E task : At(t, step, task)
    <3>1. CASE Load(t)
      BY <3>1 DEF Load
    <3>2. CASE Decide(t)
      BY <3>2 DEF Decide
    <3>3. CASE StartRelease(t) \/ StartApprove(t) \/ StartWithdraw(t) \/ StartRecompose(t)
      BY <3>3 DEF StartRelease, StartApprove, StartWithdraw, StartRecompose, Starts
    <3> QED BY <1>6, <3>1, <3>2, <3>3
  <2>3. pc'[t] \notin {"delete", "move"}
    BY <2>2, GotoStays, AtStays
  <2> QED BY <2>1, <2>3, TableFrame
<1>7. CASE Die(t)
  <2>1. /\ UNCHANGED <<rows, stored, moved>> /\ pc'[t] = "dead"
        /\ torn' = IF pc[t] = "move" THEN torn \cup {job[t].id} ELSE torn
    BY <1>7, AtStays DEF Die, table
  <2> QED BY <2>1, TableFrame
<1> QED BY <1>1, <1>2, <1>3, <1>4, <1>5, <1>6, <1>7, StepIs DEF RowStep

LEMMA TableKept == Spec => [](Typed /\ TableInv)
<1>1. Init => TableInv
  BY ExistingAssumption DEF Init, TableInv, Single, InMove
<1>2. Typed /\ (\A t \in Task : FileInv(t)) /\ TableInv /\ [Next]_vars => TableInv'
  <2>1. ASSUME TableInv, Tick \/ Expire \/ UNCHANGED vars PROVE TableInv'
    <3>1. UNCHANGED <<rows, stored, moved, torn, pc, job>>
      BY <2>1 DEF Tick, Expire, vars, table, history
    <3> QED BY <2>1, <3>1 DEF TableInv, Single, InMove
  <2> QED BY <2>1, StepKeepsTable DEF Next
<1> QED BY <1>1, <1>2, Filed, PTL DEF Spec

\* An article that was ever stored has a row, unless a task is between its
\* DELETE and its INSERT or ended there, whoever else moves it meanwhile
\* (transition_article_status).
THEOREM NothingVanishes == Spec => []NoneVanishes
<1>1. TableInv => NoneVanishes
  BY DEF TableInv, InMove, NoneVanishes, Of
<1> QED BY <1>1, TableKept, PTL

\* An article is in one status, as long as no two tasks have moved the same row.
THEOREM OneStatus == Spec => []OneRowEach
<1>1. TableInv => OneRowEach
  <2> SUFFICES ASSUME TableInv, ~moved, NEW id \in Id PROVE Cardinality(Of(id)) <= 1
    BY DEF OneRowEach
  <2>1. CASE Of(id) = {}
    BY <2>1, FS_EmptySet
  <2>2. CASE Of(id) # {}
    <3>1. PICK r \in Of(id) : TRUE
      BY <2>2
    <3>2. Of(id) = {r}
      BY <3>1 DEF Of, TableInv, Single
    <3>3. Cardinality({r}) = 1
      BY FS_Singleton
    <3> QED BY <3>2, <3>3
  <2> QED BY <2>1, <2>2
<1> QED BY <1>1, TableKept, PTL

-----------------------------------------------------------------------------
(* The cap: what went out on a day's slots, and the tasks that hold one, are *)
(* counted, but for what has leaked.                                       *)

Holds(t, d) ==
    /\ job[t].day = d
    /\ \/ pc[t] \in {"insert", "giveback", "decr"}
       \/ job[t].kind = "release" /\ pc[t] \in {"load", "read", "delete", "move"}
Overran(t, d) == job[t].day = d /\ pc[t] = "undo"

Holders(d) == {t \in Task : Holds(t, d)}
Overs(d)   == {t \in Task : Overran(t, d)}

CapInv ==
    \A d \in Day :
        /\ used[d] + Cardinality(Holders(d)) + Cardinality(Overs(d)) <= count[d] + leaked[d]
        /\ used[d] + Cardinality(Holders(d)) <= Cap + leaked[d]

\* A set that one element may join or leave.
LEMMA OneJoins ==
  ASSUME NEW S, IsFiniteSet(S), NEW T, NEW x, S \ {x} = T \ {x}
  PROVE  /\ Cardinality(S) \in Nat /\ Cardinality(T) \in Nat
         /\ (x \in S <=> x \in T) => Cardinality(T) = Cardinality(S)
         /\ x \in S /\ x \notin T => Cardinality(T) = Cardinality(S) - 1
         /\ x \notin S /\ x \in T => Cardinality(T) = Cardinality(S) + 1
<1>1. CASE x \in S <=> x \in T
  <2>1. S = T
    BY <1>1
  <2> QED BY <1>1, <2>1, FS_CardinalityType
<1>2. CASE x \in S /\ x \notin T
  <2>1. T = S \ {x}
    BY <1>2
  <2> QED BY <1>2, <2>1, FS_RemoveElement, FS_CardinalityType
<1>3. CASE x \notin S /\ x \in T
  <2>1. T = S \cup {x}
    BY <1>3
  <2> QED BY <1>3, <2>1, FS_AddElement, FS_CardinalityType
<1> QED BY <1>1, <1>2, <1>3

\* A step of t changes only t's part in them.
LEMMA HoldersMove ==
  ASSUME NEW t \in Task, Stays(t), NEW d \in Day
  PROVE  /\ Cardinality(Holders(d)) \in Nat /\ Cardinality(Holders(d)') \in Nat
         /\ Cardinality(Overs(d)) \in Nat /\ Cardinality(Overs(d)') \in Nat
         /\ (Holds(t, d) <=> Holds(t, d)') =>
               Cardinality(Holders(d)') = Cardinality(Holders(d))
         /\ Holds(t, d) /\ ~Holds(t, d)' =>
               Cardinality(Holders(d)') = Cardinality(Holders(d)) - 1
         /\ ~Holds(t, d) /\ Holds(t, d)' =>
               Cardinality(Holders(d)') = Cardinality(Holders(d)) + 1
         /\ (Overran(t, d) <=> Overran(t, d)') =>
               Cardinality(Overs(d)') = Cardinality(Overs(d))
         /\ Overran(t, d) /\ ~Overran(t, d)' =>
               Cardinality(Overs(d)') = Cardinality(Overs(d)) - 1
         /\ ~Overran(t, d) /\ Overran(t, d)' =>
               Cardinality(Overs(d)') = Cardinality(Overs(d)) + 1
<1>1. IsFiniteSet(Holders(d)) /\ IsFiniteSet(Overs(d))
  <2>1. IsFiniteSet(Task) /\ Holders(d) \subseteq Task /\ Overs(d) \subseteq Task
    BY TaskAssumption DEF Holders, Overs
  <2> QED BY <2>1, FS_Subset
<1>2. \A o \in Task \ {t} : (Holds(o, d) <=> Holds(o, d)') /\ (Overran(o, d) <=> Overran(o, d)')
  BY DEF Stays, Holds, Overran
<1>3. Holders(d) \ {t} = Holders(d)' \ {t} /\ Overs(d) \ {t} = Overs(d)' \ {t}
  BY <1>2 DEF Holders, Overs
<1>4. /\ t \in Holders(d) <=> Holds(t, d)
      /\ t \in Holders(d)' <=> Holds(t, d)'
      /\ t \in Overs(d) <=> Overran(t, d)
      /\ t \in Overs(d)' <=> Overran(t, d)'
  BY DEF Holders, Overs
<1> QED BY <1>1, <1>3, <1>4, OneJoins

\* A step that takes no slot and none back.
LEMMA CapFrame ==
  ASSUME Typed, CapInv, NEW t \in Task, Stays(t), UNCHANGED <<count, used, leaked>>,
         \A d \in Day : (Holds(t, d)' => Holds(t, d)) /\ (Overran(t, d)' => Overran(t, d))
  PROVE  CapInv'
<1> SUFFICES ASSUME NEW d \in Day
             PROVE  /\ used[d] + Cardinality(Holders(d)') + Cardinality(Overs(d)') <= count[d] + leaked[d]
                    /\ used[d] + Cardinality(Holders(d)') <= Cap + leaked[d]
  BY DEF CapInv
<1>1. used[d] \in Nat /\ leaked[d] \in Nat /\ count[d] \in Int /\ Cap \in Nat
  BY Parts, CapAssumption DEF Slots, History
<1>2. /\ Cardinality(Holders(d)') <= Cardinality(Holders(d))
      /\ Cardinality(Overs(d)') <= Cardinality(Overs(d))
  BY HoldersMove
<1> QED BY <1>1, <1>2, HoldersMove DEF CapInv

\* A slot is given up, spent or lost count of, and none is taken: the counter
\* loses no more than what is given up and leaks.
LEMMA CapSpends ==
  ASSUME Typed, CapInv, NEW t \in Task, Stays(t), NEW d \in Day,
         NEW spent \in Nat, NEW leaks \in Nat, NEW counts \in Int,
         used'[d] = used[d] + spent, leaked'[d] = leaked[d] + leaks, count'[d] = count[d] + counts,
         Holds(t, d)' => Holds(t, d), Overran(t, d)' => Overran(t, d),
         NEW given \in {0, 1}, given = 1 => Holds(t, d) /\ ~Holds(t, d)',
         NEW undone \in {0, 1}, undone = 1 => Overran(t, d) /\ ~Overran(t, d)',
         spent <= leaks + given,
         spent <= leaks + counts + given + undone
  PROVE  /\ used'[d] + Cardinality(Holders(d)') + Cardinality(Overs(d)') <= count'[d] + leaked'[d]
         /\ used'[d] + Cardinality(Holders(d)') <= Cap + leaked'[d]
<1>1. used[d] \in Nat /\ leaked[d] \in Nat /\ count[d] \in Int /\ Cap \in Nat
  BY Parts, CapAssumption DEF Slots, History
<1>2. /\ Cardinality(Holders(d)') + given <= Cardinality(Holders(d))
      /\ Cardinality(Overs(d)') + undone <= Cardinality(Overs(d))
      /\ Cardinality(Holders(d)) \in Nat /\ Cardinality(Holders(d)') \in Nat
      /\ Cardinality(Overs(d)) \in Nat /\ Cardinality(Overs(d)') \in Nat
  BY HoldersMove
<1>3. /\ used[d] + Cardinality(Holders(d)) + Cardinality(Overs(d)) <= count[d] + leaked[d]
      /\ used[d] + Cardinality(Holders(d)) <= Cap + leaked[d]
  BY DEF CapInv
<1> DEFINE h == Cardinality(Holders(d))
           i == Cardinality(Holders(d)')
           o == Cardinality(Overs(d))
           q == Cardinality(Overs(d)')
<1> HIDE DEF h, i, o, q
<1> QED BY <1>1, <1>2, <1>3 DEF h, i, o, q

\* A task that goes where no slot is held holds none.
LEMMA NoneHeld ==
  ASSUME NEW t \in Task, pc'[t] \in {"idle", "done", "dead", "stash", "check", "reserve", "count", "set",
                                     "incr", "assert", "decide", "file"} \cup Composing
  PROVE  \A d \in Day : ~Holds(t, d)' /\ ~Overran(t, d)'
  BY DEF Holds, Overran, Composing

\* The slot that a task asks for: it has it, or is over the cap.
LEMMA IncrKeepsCap ==
  ASSUME Typed, CapInv, NEW t \in Task, Incr(t) PROVE CapInv'
<1>0. /\ TypeOK /\ job[t] \in Job /\ job[t].day \in Day /\ count \in [Day -> Int]
      /\ pc[t] = "incr" /\ UNCHANGED <<job, used, leaked>>
  BY Parts DEF Incr, history, Slots, Job
<1> DEFINE e == job[t].day
<1>1. PICK step \in {"undo", "insert", "load"} :
        Goto(t, step) /\ (step # "undo" => count[e] + 1 <= Cap)
  <2>1. CASE count[e] + 1 > Cap
    BY <2>1 DEF Incr
  <2>2. CASE ~(count[e] + 1 > Cap)
    <3>1. count[e] + 1 <= Cap
      BY <1>0, <2>2, CapAssumption, Counts
    <3>2. Goto(t, IF job[t].kind = "compose" THEN "insert" ELSE "load")
      BY <2>2 DEF Incr
    <3>3. Goto(t, "insert") \/ Goto(t, "load")
      BY <3>2
    <3> QED BY <3>1, <3>3
  <2> QED BY <2>1, <2>2
<1>2. pc'[t] = step /\ Stays(t)
  BY <1>0, <1>1, GotoStays DEF Stays
<1>3. \A d \in Day : count'[d] = IF d = e THEN count[d] + 1 ELSE count[d]
  BY <1>0 DEF Incr
<1> SUFFICES ASSUME NEW d \in Day
             PROVE  /\ used[d] + Cardinality(Holders(d)') + Cardinality(Overs(d)') <= count'[d] + leaked[d]
                    /\ used[d] + Cardinality(Holders(d)') <= Cap + leaked[d]
  BY <1>0 DEF CapInv
<1>4. used[d] \in Nat /\ leaked[d] \in Nat /\ count[d] \in Int /\ Cap \in Nat
  BY Parts, CapAssumption DEF Slots, History
<1>5. ~Holds(t, d) /\ ~Overran(t, d)
  BY <1>0 DEF Holds, Overran
<1>6. /\ used[d] + Cardinality(Holders(d)) + Cardinality(Overs(d)) <= count[d] + leaked[d]
      /\ used[d] + Cardinality(Holders(d)) <= Cap + leaked[d]
  BY DEF CapInv
<1>7. CASE d # e
  <2>1. ~Holds(t, d)' /\ ~Overran(t, d)'
    BY <1>0, <1>7 DEF Holds, Overran
  <2> QED BY <1>2, <1>3, <1>4, <1>5, <1>6, <1>7, <2>1, HoldersMove
<1>8. CASE d = e /\ step = "undo"
  <2>1. ~Holds(t, d)' /\ Overran(t, d)'
    BY <1>0, <1>2, <1>8 DEF Holds, Overran
  <2> QED BY <1>2, <1>3, <1>4, <1>5, <1>6, <1>8, <2>1, HoldersMove
<1>9. CASE d = e /\ step # "undo"
  <2>1. ~Overran(t, d)'
    BY <1>2, <1>9 DEF Overran
  <2>2. count[d] + 1 <= Cap /\ count'[d] = count[d] + 1
    BY <1>1, <1>3, <1>9
  <2>3. /\ Cardinality(Holders(d)') <= Cardinality(Holders(d)) + 1
        /\ Cardinality(Overs(d)') = Cardinality(Overs(d))
        /\ Cardinality(Holders(d)) \in Nat /\ Cardinality(Holders(d)') \in Nat
        /\ Cardinality(Overs(d)) \in Nat
    BY <1>2, <1>5, <2>1, HoldersMove
  <2> DEFINE h == Cardinality(Holders(d))
             i == Cardinality(Holders(d)')
             o == Cardinality(Overs(d))
             q == Cardinality(Overs(d)')
  <2> HIDE DEF h, i, o, q
  <2> QED BY <1>4, <1>6, <2>2, <2>3 DEF h, i, o, q
<1> QED BY <1>7, <1>8, <1>9

\* A counter of days that one step raises, or leaves.
LEMMA Raised ==
  ASSUME NEW f \in [Day -> Nat], NEW e \in Day, NEW k \in Nat, NEW g, g = [f EXCEPT ![e] = @ + k]
  PROVE  \A d \in Day : g[d] = f[d] + (IF d = e THEN k ELSE 0)
<1> SUFFICES ASSUME NEW d \in Day PROVE g[d] = f[d] + (IF d = e THEN k ELSE 0)
  OBVIOUS
<1>1. f[d] \in Nat
  OBVIOUS
<1>2. CASE d = e
  BY <1>2
<1>3. CASE d # e
  BY <1>1, <1>3
<1> QED BY <1>2, <1>3

LEMMA Same ==
  ASSUME NEW f \in [Day -> Nat], NEW e
  PROVE  \A d \in Day : f[d] = f[d] + (IF d = e THEN 0 ELSE 0)
<1> SUFFICES ASSUME NEW d \in Day PROVE f[d] = f[d] + (IF d = e THEN 0 ELSE 0)
  OBVIOUS
<1>1. f[d] \in Nat /\ (IF d = e THEN 0 ELSE 0) = 0
  OBVIOUS
<1> QED BY <1>1

\* What gives one up, or begins a counter.
LEMMA SlotKeepsCap ==
  ASSUME Typed, CapInv, NEW t \in Task, SlotStep(t) PROVE CapInv'
<1>0. /\ TypeOK /\ Stays(t) /\ job[t] \in Job /\ job[t].day \in Day /\ job[t].n \in Nat
      /\ count \in [Day -> Int] /\ used \in [Day -> Nat] /\ leaked \in [Day -> Nat]
      /\ Day \subseteq Nat
  BY SlotGoes, Parts DEF Goes, Slots, History, Job, Day
<1> USE <1>0
<1> DEFINE e == job[t].day
<1>1. CASE File(t) \/ Stash(t) \/ AssertAllowed(t) \/ Reserve(t) \/ Count(t) \/ Check(t)
  <2>1. UNCHANGED <<count, used, leaked>>
    BY <1>1 DEF File, Stash, AssertAllowed, Reserve, Begin, Count, Check, slots, history
  <2>2. \A d \in Day : ~Holds(t, d)' /\ ~Overran(t, d)'
    <3>1. CASE File(t) \/ Stash(t)
      <4>1. pc'[t] \in {"assert", "done"}
        BY <3>1, GotoStays, AtStays DEF File, Stash
      <4> QED BY <4>1, NoneHeld
    <3>2. CASE AssertAllowed(t) \/ Reserve(t) \/ Count(t)
      <4>1. \E step \in {"check", "incr", "count", "set"} : Goto(t, step)
        BY <3>2 DEF AssertAllowed, Reserve, Begin, Count
      <4> QED BY <4>1, GotoStays, NoneHeld
    <3>3. CASE Check(t)
      <4>1. \E step \in {"reserve", "stash", "done"} : \E task : At(t, step, task)
        BY <3>3 DEF Check
      <4> QED BY <4>1, AtStays, NoneHeld
    <3> QED BY <1>1, <3>1, <3>2, <3>3
  <2> QED BY <2>1, <2>2, CapFrame
<1>2. CASE Set(t)
  <2>1. /\ pc[t] = "set" /\ pc'[t] \in {"done", "check", "incr"} /\ used' = used
        /\ count' = [count EXCEPT ![e] = job[t].n]
        /\ leaked' = [leaked EXCEPT ![e] = @ + (IF count[e] > 0 THEN count[e] ELSE 0)]
    BY <1>2, GotoStays DEF Set, Job
  <2>2. \A d \in Day : ~Holds(t, d)' /\ ~Overran(t, d)'
    BY <2>1, NoneHeld
  <2> SUFFICES ASSUME NEW d \in Day
               PROVE  /\ used'[d] + Cardinality(Holders(d)') + Cardinality(Overs(d)') <= count'[d] + leaked'[d]
                      /\ used'[d] + Cardinality(Holders(d)') <= Cap + leaked'[d]
    BY DEF CapInv
  <2> DEFINE leaks == IF d = e /\ count[d] > 0 THEN count[d] ELSE 0
             counts == IF d = e THEN job[t].n - count[d] ELSE 0
  <2>3. count[d] \in Int /\ used[d] \in Nat /\ leaked[d] \in Nat
    BY Counts
  <2>4. leaks \in Nat /\ counts \in Int /\ 0 <= leaks + 0 /\ 0 <= leaks + counts + 0 + 0
    BY <2>3
  <2>5. /\ used'[d] = used[d] + 0 /\ leaked'[d] = leaked[d] + leaks
        /\ count'[d] = count[d] + counts
    <3>1. CASE d = e
      BY <2>1, <2>3, <3>1
    <3>2. CASE d # e
      BY <2>1, <2>3, <3>2
    <3> QED BY <3>1, <3>2
  <2> HIDE DEF leaks, counts
  <2> QED BY <2>2, <2>4, <2>5, CapSpends
<1>3. CASE Incr(t)
  BY <1>3, IncrKeepsCap
<1>4. CASE Undo(t)
  <2>1. /\ pc[t] = "undo" /\ pc'[t] \in {"done", "stash"} /\ UNCHANGED <<used, leaked>>
        /\ count' = [count EXCEPT ![e] = @ - 1]
    BY <1>4, GotoStays, AtStays DEF Undo, history
  <2>2. \A d \in Day : ~Holds(t, d)' /\ ~Overran(t, d)'
    BY <2>1, NoneHeld
  <2> SUFFICES ASSUME NEW d \in Day
               PROVE  /\ used'[d] + Cardinality(Holders(d)') + Cardinality(Overs(d)') <= count'[d] + leaked'[d]
                      /\ used'[d] + Cardinality(Holders(d)') <= Cap + leaked'[d]
    BY DEF CapInv
  <2> DEFINE undone == IF d = e THEN 1 ELSE 0
             counts == 0 - undone
  <2>3. count[d] \in Int /\ used[d] \in Nat /\ leaked[d] \in Nat
    BY Counts
  <2>4. /\ undone \in {0, 1} /\ counts \in Int /\ 0 <= 0 + 0 /\ 0 <= 0 + counts + 0 + undone
        /\ undone = 1 => Overran(t, d)
    BY <2>1 DEF Overran
  <2>5. /\ used'[d] = used[d] + 0 /\ leaked'[d] = leaked[d] + 0
        /\ count'[d] = count[d] + counts
    BY <2>1, <2>3
  <2> DEFINE none == 0
  <2>6. /\ none \in {0, 1} /\ none \in Nat /\ none # 1
        /\ used'[d] = used[d] + none /\ leaked'[d] = leaked[d] + none
        /\ none <= none + none /\ none <= none + counts + none + undone
    BY <2>4, <2>5
  <2> HIDE DEF undone, counts, none
  <2> QED BY <2>2, <2>4, <2>5, <2>6, CapSpends
<1>5. CASE GiveBack(t)
  <2>1. /\ pc[t] = "giveback" /\ UNCHANGED <<count, used, leaked>>
    BY <1>5 DEF GiveBack, slots, history
  <2>2. CASE At(t, "done", Nothing)
    <3>1. \A d \in Day : ~Holds(t, d)' /\ ~Overran(t, d)'
      BY <2>2, AtStays, NoneHeld
    <3> QED BY <2>1, <3>1, CapFrame
  <2>3. CASE Goto(t, "decr") /\ job' = [job EXCEPT ![t].n = today]
    <3> DEFINE task == [job[t] EXCEPT !.n = today]
    <3>1. job' = [job EXCEPT ![t] = task] /\ Goto(t, "decr")
      BY <2>3
    <3>2. task.day = e
      BY DEF Job
    <3> HIDE DEF task
    <3>3. pc'[t] = "decr" /\ job'[t].day = e
      BY <3>1, <3>2, PlaceStays
    <3>4. \A d \in Day : (Holds(t, d)' => Holds(t, d)) /\ ~Overran(t, d)'
      BY <2>1, <3>3 DEF Holds, Overran
    <3> QED BY <2>1, <3>4, CapFrame
  <2> QED BY <1>5, <2>2, <2>3 DEF GiveBack
<1>6. CASE Decr(t)
  <2> DEFINE n == job[t].n
  <2>1. /\ pc[t] = "decr" /\ pc'[t] = "done" /\ used' = used
        /\ count' = [count EXCEPT ![n] = @ - 1]
        /\ leaked' = [leaked EXCEPT ![n] = @ + (IF n = e THEN 0 ELSE 1)]
    BY <1>6, AtStays DEF Decr
  <2>2. \A d \in Day : ~Holds(t, d)' /\ ~Overran(t, d)'
    BY <2>1, NoneHeld
  <2> SUFFICES ASSUME NEW d \in Day
               PROVE  /\ used'[d] + Cardinality(Holders(d)') + Cardinality(Overs(d)') <= count'[d] + leaked'[d]
                      /\ used'[d] + Cardinality(Holders(d)') <= Cap + leaked'[d]
    BY DEF CapInv
  <2> DEFINE given  == IF d = e THEN 1 ELSE 0
             leaks  == IF d = n /\ n # e THEN 1 ELSE 0
             counts == IF d = n THEN -1 ELSE 0
  <2>3. count[d] \in Int /\ used[d] \in Nat /\ leaked[d] \in Nat
    BY Counts
  <2>4. /\ given \in {0, 1} /\ leaks \in Nat /\ counts \in Int
        /\ 0 <= leaks + given /\ 0 <= leaks + counts + given + 0
        /\ given = 1 => Holds(t, d)
    BY <2>1 DEF Holds
  <2>5. /\ used'[d] = used[d] + 0 /\ leaked'[d] = leaked[d] + leaks
        /\ count'[d] = count[d] + counts
    BY <2>1, <2>3
  <2> HIDE DEF given, leaks, counts
  <2> QED BY <2>2, <2>4, <2>5, CapSpends
<1>7. CASE Insert(t)
  <2>1. pc[t] = "insert" /\ count' = count
    BY <1>7 DEF Insert, slots
  <2>2. PICK spent \in {0, 1}, leaks \in {0, 1} :
          /\ \A d \in Day : used'[d] = used[d] + (IF d = e THEN spent ELSE 0)
          /\ \A d \in Day : leaked'[d] = leaked[d] + (IF d = e THEN leaks ELSE 0)
          /\ \/ pc'[t] = "done" /\ spent = 1 /\ leaks = 0
             \/ pc'[t] = "giveback" /\ spent = leaks /\ job' = job
    <3>1. CASE used' = [used EXCEPT ![e] = @ + 1] /\ At(t, "done", Nothing) /\ UNCHANGED leaked
      <4>1. pc'[t] = "done"
        BY <3>1, AtStays
      <4>2. \A d \in Day : used'[d] = used[d] + (IF d = e THEN 1 ELSE 0)
        BY <3>1, Raised
      <4>3. \A d \in Day : leaked'[d] = leaked[d] + (IF d = e THEN 0 ELSE 0)
        BY <3>1, Same
      <4> QED BY <4>1, <4>2, <4>3
    <3>2. CASE /\ Goto(t, "giveback") /\ UNCHANGED job
               /\ used' = [used EXCEPT ![e] = @ + 1] /\ leaked' = [leaked EXCEPT ![e] = @ + 1]
      <4>1. pc'[t] = "giveback"
        BY <3>2, GotoStays
      <4>2. \A d \in Day : used'[d] = used[d] + (IF d = e THEN 1 ELSE 0)
        BY <3>2, Raised
      <4>3. \A d \in Day : leaked'[d] = leaked[d] + (IF d = e THEN 1 ELSE 0)
        BY <3>2, Raised
      <4> QED BY <3>2, <4>1, <4>2, <4>3
    <3>3. CASE Goto(t, "giveback") /\ UNCHANGED <<job, used, leaked>>
      <4>1. pc'[t] = "giveback"
        BY <3>3, GotoStays
      <4>2. \A d \in Day : used'[d] = used[d] + (IF d = e THEN 0 ELSE 0)
        BY <3>3, Same
      <4>3. \A d \in Day : leaked'[d] = leaked[d] + (IF d = e THEN 0 ELSE 0)
        BY <3>3, Same
      <4> QED BY <3>3, <4>1, <4>2, <4>3
    <3> QED BY <1>7, <3>1, <3>2, <3>3 DEF Insert
  <2> SUFFICES ASSUME NEW d \in Day
               PROVE  /\ used'[d] + Cardinality(Holders(d)') + Cardinality(Overs(d)') <= count'[d] + leaked'[d]
                      /\ used'[d] + Cardinality(Holders(d)') <= Cap + leaked'[d]
    BY DEF CapInv
  <2>3. count[d] \in Int
    BY Counts
  <2>4. ~Overran(t, d)' /\ (Holds(t, d)' => Holds(t, d))
    BY <2>1, <2>2 DEF Holds, Overran
  <2> DEFINE given == IF d = e /\ pc'[t] = "done" THEN 1 ELSE 0
             spends == IF d = e THEN spent ELSE 0
             leaking == IF d = e THEN leaks ELSE 0
  <2>5. given \in {0, 1} /\ (given = 1 => Holds(t, d) /\ ~Holds(t, d)')
    BY <2>1 DEF Holds
  <2>6. /\ spends \in Nat /\ leaking \in Nat /\ spends <= leaking + given
        /\ spends <= leaking + 0 + given + 0
    BY <2>2
  <2>7. /\ used'[d] = used[d] + spends /\ leaked'[d] = leaked[d] + leaking
        /\ count'[d] = count[d] + 0
    BY <2>1, <2>2, <2>3
  <2> HIDE DEF given, spends, leaking
  <2> QED BY <2>4, <2>5, <2>6, <2>7, CapSpends
<1> QED BY <1>1, <1>2, <1>3, <1>4, <1>5, <1>6, <1>7 DEF SlotStep

\* A move: a release spends its slot, and any other spends none.
LEMMA MoveKeepsCap ==
  ASSUME Typed, CapInv, NEW t \in Task, Move(t) PROVE CapInv'
<1>0. /\ TypeOK /\ job[t] \in Job /\ job[t].day \in Day
      /\ used \in [Day -> Nat] /\ leaked \in [Day -> Nat] /\ count \in [Day -> Int]
      /\ pc[t] = "move" /\ count' = count /\ Stays(t)
  <2>1. RowStep(t)
    BY DEF RowStep
  <2> QED BY <2>1, RowGoes, Parts DEF Goes, Slots, History, Job, Move, slots
<1> USE <1>0
<1> DEFINE e == job[t].day
           release == job[t].kind = "release"
           k == IF release THEN 1 ELSE 0
<1>1. k \in {0, 1} /\ (k = 1 <=> release)
  OBVIOUS
<1>2. PICK spent \in {0, k}, leaks \in {0, k} :
        /\ \A d \in Day : used'[d] = used[d] + (IF d = e THEN spent ELSE 0)
        /\ \A d \in Day : leaked'[d] = leaked[d] + (IF d = e THEN leaks ELSE 0)
        /\ \/ pc'[t] = "done" /\ (k = 1 => spent = 1 /\ leaks = 0)
           \/ pc'[t] = "giveback" /\ k = 1 /\ spent = leaks /\ job' = job
  <2>1. CASE /\ At(t, "done", Nothing) /\ UNCHANGED leaked
             /\ used' = [used EXCEPT ![e] = @ + k]
    <3>1. pc'[t] = "done"
      BY <2>1, AtStays
    <3>2. \A d \in Day : used'[d] = used[d] + (IF d = e THEN k ELSE 0)
      <4> HIDE DEF k
      <4> QED BY <1>1, <2>1, Raised
    <3>3. \A d \in Day : leaked'[d] = leaked[d] + (IF d = e THEN 0 ELSE 0)
      BY <2>1, Same
    <3> HIDE DEF k
    <3> QED BY <3>1, <3>2, <3>3
  <2>2. CASE /\ Fallen(t)
             /\ used' = [used EXCEPT ![e] = @ + k] /\ leaked' = [leaked EXCEPT ![e] = @ + k]
    <3>1. \/ pc'[t] = "done" /\ ~release
          \/ pc'[t] = "giveback" /\ release /\ job' = job
      BY <2>2, GotoStays, AtStays DEF Fallen
    <3>2. /\ \A d \in Day : used'[d] = used[d] + (IF d = e THEN k ELSE 0)
          /\ \A d \in Day : leaked'[d] = leaked[d] + (IF d = e THEN k ELSE 0)
      <4> HIDE DEF k
      <4> QED BY <1>1, <2>2, Raised
    <3> HIDE DEF k
    <3> QED BY <1>1, <3>1, <3>2
  <2>3. CASE Fallen(t) /\ UNCHANGED <<used, leaked>>
    <3>1. \/ pc'[t] = "done" /\ ~release
          \/ pc'[t] = "giveback" /\ release /\ job' = job
      BY <2>3, GotoStays, AtStays DEF Fallen
    <3>2. /\ \A d \in Day : used'[d] = used[d] + (IF d = e THEN 0 ELSE 0)
          /\ \A d \in Day : leaked'[d] = leaked[d] + (IF d = e THEN 0 ELSE 0)
      BY <2>3, Same
    <3> HIDE DEF k
    <3> QED BY <1>1, <3>1, <3>2
  <2> QED BY <2>1, <2>2, <2>3 DEF Move
<1> SUFFICES ASSUME NEW d \in Day
             PROVE  /\ used'[d] + Cardinality(Holders(d)') + Cardinality(Overs(d)') <= count'[d] + leaked'[d]
                    /\ used'[d] + Cardinality(Holders(d)') <= Cap + leaked'[d]
  BY DEF CapInv
<1> DEFINE given == IF d = e /\ k = 1 /\ pc'[t] = "done" THEN 1 ELSE 0
           spends == IF d = e THEN spent ELSE 0
           leaking == IF d = e THEN leaks ELSE 0
           none == 0
<1>3. ~Overran(t, d)' /\ (Holds(t, d)' => Holds(t, d))
  BY <1>1, <1>2 DEF Holds, Overran
<1>4. given \in {0, 1} /\ (given = 1 => Holds(t, d) /\ ~Holds(t, d)')
  BY <1>1 DEF Holds
<1>5. /\ spends \in Nat /\ leaking \in Nat /\ none \in Int /\ none \in {0, 1} /\ none # 1
      /\ spends <= leaking + given /\ spends <= leaking + none + given + none
  BY <1>1, <1>2
<1>6. /\ used'[d] = used[d] + spends /\ leaked'[d] = leaked[d] + leaking
      /\ count'[d] = count[d] + none
  BY <1>2, Counts
<1> HIDE DEF given, spends, leaking, none, k, e, release
<1> QED BY <1>3, <1>4, <1>5, <1>6, CapSpends

\* What an admin decides on is an approved draft, which asks for no slot.
Deciding == \A t \in Task : pc[t] = "decide" => job[t].kind = "approve"

LEMMA StepKeepsDeciding ==
  ASSUME Typed, Deciding, NEW t \in Task, Step(t) PROVE Deciding'
<1>1. Stays(t) /\ TypeOK
  BY Advances, Parts
<1>2. pc'[t] = "decide" => job'[t].kind = "approve"
  <2>1. CASE ComposeStep(t) \/ SlotStep(t)
    BY <2>1, ComposeGoes, SlotGoes DEF Goes, Composing, Counting
  <2>2. CASE StartApprove(t)
    <3>1. PICK id \in reviews : At(t, "decide", [Nothing EXCEPT !.kind = "approve", !.id = id])
      BY <2>2 DEF StartApprove, Starts
    <3>2. job'[t] = [Nothing EXCEPT !.kind = "approve", !.id = id]
      BY <1>1, <3>1, AtStays
    <3> QED BY <3>2 DEF Nothing
  <2>3. CASE RowStep(t) /\ ~StartApprove(t)
    <3>1. \E step \in {"assert", "load", "read", "delete", "move", "giveback", "done", "dead"} :
            Goto(t, step) \/ \E task : At(t, step, task)
      <4>1. CASE Read(t) \/ Load(t)
        BY <4>1 DEF Read, Load
      <4>2. CASE Delete(t) \/ Move(t)
        BY <4>2 DEF Delete, Move, Fallen
      <4>3. CASE StartRelease(t) \/ StartWithdraw(t) \/ StartRecompose(t)
        BY <4>3 DEF StartRelease, StartWithdraw, StartRecompose, Starts
      <4>4. CASE Decide(t) \/ Die(t)
        BY <4>4 DEF Decide, Die
      <4> QED BY <2>3, <4>1, <4>2, <4>3, <4>4 DEF RowStep
    <3> QED BY <1>1, <3>1, GotoStays, AtStays
  <2> QED BY <2>1, <2>2, <2>3, StepIs
<1> QED BY <1>1, <1>2 DEF Deciding, Stays

\* The other steps of a row take no slot.
LEMMA RowKeepsCap ==
  ASSUME Typed, CapInv, Deciding, NEW t \in Task, RowStep(t) PROVE CapInv'
<1>0. /\ TypeOK /\ job[t] \in Job /\ Stays(t) /\ count' = count
  BY RowGoes, Parts DEF Goes, slots
<1> USE <1>0
<1>1. CASE Move(t)
  BY <1>1, MoveKeepsCap
<1>2. CASE Read(t) \/ Delete(t) \/ Load(t) \/ Decide(t)
  <2>1. UNCHANGED <<used, leaked>> /\ pc[t] \in {"read", "delete", "load", "decide"}
    BY <1>2 DEF Read, Delete, Load, Decide, history
  <2>2. \/ pc'[t] = "done"
        \/ pc'[t] = "giveback" /\ job[t].kind = "release" /\ pc[t] \in {"delete", "load"} /\ job'[t].day = job[t].day
        \/ /\ pc'[t] \in {"delete", "move", "read", "load"}
           /\ job'[t].kind = job[t].kind /\ job'[t].day = job[t].day
           /\ pc[t] # "decide"
        \/ pc'[t] \in {"read", "load"} /\ job'[t].kind = job[t].kind /\ pc[t] = "decide"
    <3>1. CASE Read(t)
      <4>1. CASE At(t, "done", Nothing)
        BY <4>1, AtStays
      <4>2. CASE ~At(t, "done", Nothing)
        <5>1. PICK r \in Of(job[t].id) : At(t, "delete", [job[t] EXCEPT !.old = {r}])
          BY <3>1, <4>2 DEF Read
        <5>2. pc'[t] = "delete" /\ job'[t] = [job[t] EXCEPT !.old = {r}]
          BY <5>1, AtStays
        <5>3. job'[t].kind = job[t].kind /\ job'[t].day = job[t].day
          BY <5>2 DEF Job
        <5> QED BY <3>1, <5>2, <5>3 DEF Read
      <4> QED BY <4>1, <4>2
    <3>2. CASE Delete(t)
      <4>1. CASE Goto(t, "move") /\ job' = job
        BY <3>2, <4>1, GotoStays DEF Delete
      <4>2. CASE Fallen(t)
        BY <3>2, <4>2, GotoStays, AtStays DEF Delete, Fallen
      <4> QED BY <3>2, <4>1, <4>2 DEF Delete
    <3>3. CASE Load(t)
      <4>1. CASE At(t, "done", Nothing)
        BY <4>1, AtStays
      <4>2. CASE Goto(t, "giveback") /\ job' = job /\ job[t].kind = "release"
        BY <3>3, <4>2, GotoStays DEF Load
      <4>3. CASE At(t, "read", Moves(t, "published"))
        <5>1. pc'[t] = "read" /\ job'[t] = Moves(t, "published")
          BY <4>3, AtStays
        <5>2. job'[t].kind = job[t].kind /\ job'[t].day = job[t].day
          BY <5>1 DEF Job, Moves
        <5> QED BY <3>3, <5>1, <5>2 DEF Load
      <4> QED BY <3>3, <4>1, <4>2, <4>3 DEF Load
    <3>4. CASE Decide(t)
      <4>1. CASE At(t, "load", job[t])
        BY <3>4, <4>1, AtStays DEF Decide
      <4>2. CASE At(t, "read", Moves(t, "backlog"))
        <5>1. pc'[t] = "read" /\ job'[t] = Moves(t, "backlog")
          BY <4>2, AtStays
        <5>2. job'[t].kind = job[t].kind
          BY <5>1 DEF Job, Moves
        <5> QED BY <3>4, <5>1, <5>2 DEF Decide
      <4> QED BY <3>4, <4>1, <4>2 DEF Decide
    <3> QED BY <1>2, <3>1, <3>2, <3>3, <3>4
  <2>3. \A d \in Day : (Holds(t, d)' => Holds(t, d)) /\ ~Overran(t, d)'
    BY <2>1, <2>2 DEF Holds, Overran, Deciding
  <2> QED BY <2>1, <2>3, CapFrame
<1>3. CASE StartRelease(t) \/ StartApprove(t) \/ Die(t)
  <2>1. UNCHANGED <<used, leaked>>
    BY <1>3 DEF StartRelease, StartApprove, Die, history
  <2>2. \E step \in {"assert", "decide", "dead"} : \E task : At(t, step, task)
    BY <1>3 DEF StartRelease, StartApprove, Die, Starts
  <2>3. pc'[t] \in {"assert", "decide", "dead"}
    BY <2>2, AtStays
  <2> QED BY <2>1, <2>3, NoneHeld, CapFrame
<1>4. CASE StartWithdraw(t) \/ StartRecompose(t)
  <2>1. UNCHANGED <<used, leaked>>
    BY <1>4 DEF StartWithdraw, StartRecompose, history
  <2>2. PICK r \in rows, to \in {"draft", "published", "deleted", "same"} :
          Starts(t, "read", [Nothing EXCEPT !.kind = "admin", !.id = r.id, !.to = to])
    BY <1>4 DEF StartWithdraw, StartRecompose
  <2>3. pc'[t] = "read" /\ job'[t] = [Nothing EXCEPT !.kind = "admin", !.id = r.id, !.to = to]
    BY <2>2, AtStays DEF Starts
  <2>4. job'[t].kind = "admin"
    BY <2>3 DEF Nothing
  <2>5. \A d \in Day : ~Holds(t, d)' /\ ~Overran(t, d)'
    BY <2>3, <2>4 DEF Holds, Overran
  <2> QED BY <2>1, <2>5, CapFrame
<1> QED BY <1>1, <1>2, <1>3, <1>4 DEF RowStep

LEMMA StepKeepsCap ==
  ASSUME Typed, CapInv, Deciding, NEW t \in Task, Step(t) PROVE CapInv'
<1>1. CASE ComposeStep(t)
  <2>1. UNCHANGED <<count, used, leaked>> /\ Stays(t) /\ pc'[t] \in Composing \cup {"file", "done"}
    BY <1>1, ComposeGoes DEF Goes, slots
  <2>2. \A d \in Day : ~Holds(t, d)' /\ ~Overran(t, d)'
    BY <2>1, NoneHeld
  <2> QED BY <2>1, <2>2, CapFrame
<1> QED BY <1>1, SlotKeepsCap, RowKeepsCap, StepIs

\* The articles that go out on the slots of a day exceed the cap by no more than
\* the slots that its counter has lost count of (reserve_publish_slot,
\* release_publish_slot and the counter's begin in publish_daily_guard).
THEOREM CapHolds == Spec => []WithinCap
<1>1. Init => CapInv /\ Deciding
  <2> SUFFICES ASSUME Init PROVE CapInv /\ Deciding
    OBVIOUS
  <2>1. \A d \in Day : Holders(d) = {} /\ Overs(d) = {}
    BY DEF Init, Holders, Overs, Holds, Overran, Nothing
  <2>2. Cardinality({}) = 0
    BY FS_EmptySet
  <2>3. \A d \in Day : used[d] = 0 /\ count[d] = 0 /\ leaked[d] = 0
    BY DEF Init
  <2>4. CapInv
    BY <2>1, <2>2, <2>3, CapAssumption DEF CapInv
  <2> QED BY <2>4 DEF Init, Deciding
<1>2. Typed /\ CapInv /\ Deciding /\ [Next]_vars => CapInv' /\ Deciding'
  <2>1. ASSUME CapInv, Deciding, Tick \/ Expire \/ UNCHANGED vars PROVE CapInv' /\ Deciding'
    <3>1. UNCHANGED <<count, used, leaked, pc, job>>
      BY <2>1 DEF Tick, Expire, vars, slots, history
    <3> QED BY <2>1, <3>1 DEF CapInv, Holders, Overs, Holds, Overran, Deciding
  <2> QED BY <2>1, StepKeepsCap, StepKeepsDeciding DEF Next
<1>3. Typed /\ CapInv => WithinCap
  <2> SUFFICES ASSUME Typed, CapInv, NEW d \in Day PROVE used[d] <= Cap + leaked[d]
    BY DEF WithinCap
  <2>1. IsFiniteSet(Holders(d))
    BY TaskAssumption, FS_Subset DEF Holders
  <2>2. Cardinality(Holders(d)) \in Nat
    BY <2>1, FS_CardinalityType
  <2>3. used[d] \in Nat /\ leaked[d] \in Nat /\ Cap \in Nat
    BY Counts, Parts, CapAssumption DEF History
  <2>4. used[d] + Cardinality(Holders(d)) <= Cap + leaked[d]
    BY DEF CapInv
  <2> QED BY <2>2, <2>3, <2>4
<1> QED BY <1>1, <1>2, <1>3, TypeCorrect, PTL DEF Spec
=============================================================================
