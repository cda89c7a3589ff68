------------------------ MODULE EditorialRoomProofs ------------------------
(***************************************************************************)
(* Theorems about EditorialRoom, for any set of tasks and of services and  *)
(* any bounds.                                                             *)
(***************************************************************************)
EXTENDS EditorialRoom, FiniteSetTheorems, WellFoundedInduction, TLAPS

-----------------------------------------------------------------------------
(* Least and first elements.                                               *)

LEMMA LeastOf ==
  ASSUME NEW S \in SUBSET Nat, S # {}
  PROVE  \E m \in S : \A n \in S : m <= n
<1>1. PICK m \in S : \A n \in S : ~(<<n, m>> \in OpToRel(<, Nat))
  BY NatLessThanWellFounded, WFMin, Zenon
<1>2. ASSUME NEW n \in S PROVE m <= n
  <2>1. m \in Nat /\ n \in Nat
    OBVIOUS
  <2>2. ~(n < m)
    BY <1>1, <2>1 DEF OpToRel
  <2>. QED
    BY <2>1, <2>2
<1>. QED
  BY <1>2

LEMMA OldestOf ==
  ASSUME NEW S \in SUBSET Id, S # {}
  PROVE  Oldest(S) \in S
<1>1. S \in SUBSET Nat
  BY BoundAssumption DEF Id
<1>2. \E m \in S : \A n \in S : m <= n
  BY <1>1, LeastOf
<1>. QED
  BY <1>2 DEF Oldest

LEMMA FirstRowOf ==
  ASSUME NEW S, S # {}, \A r \in S : r.slot \in Nat
  PROVE  FirstRow(S) \in S
<1>. DEFINE slots == {r.slot : r \in S}
<1>1. slots \in SUBSET Nat /\ slots # {}
  OBVIOUS
<1>2. PICK m \in slots : \A n \in slots : m <= n
  BY <1>1, LeastOf
<1>3. PICK r \in S : r.slot = m
  OBVIOUS
<1>4. \A o \in S : r.slot <= o.slot
  BY <1>2, <1>3
<1>. QED
  BY <1>4 DEF FirstRow

\* The entries of the index have a first one in its order.
LEMMA FirstOf ==
  ASSUME NEW S \in SUBSET Entry, S # {}
  PROVE  First(S) \in S
<1>. DEFINE top == MaxPriority + MaxBoost
            gaps == {top - e.priority : e \in S}
<1>0. top \in Nat /\ \A e \in S : e.priority \in Nat /\ e.priority <= top /\ e.id \in Nat
  BY BoundAssumption DEF Entry, Priority, Id
<1>1. gaps \in SUBSET Nat /\ gaps # {}
  BY <1>0
<1>2. PICK g \in gaps : \A n \in gaps : g <= n
  BY <1>1, LeastOf
<1>3. PICK best \in S : top - best.priority = g
  OBVIOUS
<1>4. ASSUME NEW e \in S PROVE e.priority <= best.priority
  <2>1. top - best.priority <= top - e.priority
    BY <1>2, <1>3
  <2>. QED
    BY <2>1, <1>0
<1>. DEFINE ids == {e.id : e \in {e \in S : e.priority = best.priority}}
<1>5. ids \in SUBSET Nat /\ ids # {}
  BY <1>0
<1>6. PICK m \in ids : \A n \in ids : m <= n
  BY <1>5, LeastOf
<1>7. PICK f \in S : f.priority = best.priority /\ f.id = m
  OBVIOUS
<1>8. ASSUME NEW o \in S PROVE ~Ahead(o, f)
  <2>1. o.priority <= f.priority
    BY <1>4, <1>7
  <2>2. o.priority = f.priority => f.id <= o.id
    BY <1>6, <1>7
  <2>. QED
    BY <2>1, <2>2, <1>0 DEF Ahead
<1>. QED
  BY <1>8 DEF First

LEMMA NextOpenDayOf ==
  ASSUME NEW t, OpenDays(t) # {}
  PROVE  NextOpenDay(t) \in OpenDays(t)
<1>1. OpenDays(t) \in SUBSET Nat
  BY BoundAssumption DEF OpenDays, Day
<1>2. \E m \in OpenDays(t) : \A n \in OpenDays(t) : m <= n
  BY <1>1, LeastOf
<1>. QED
  BY <1>2 DEF NextOpenDay

-----------------------------------------------------------------------------
(* Sequences of statements.                                                *)

LEMMA OneStatement ==
  ASSUME NEW a
  PROVE  <<a>> # <<>> /\ Last(<<a>>) = a /\ Range(<<a>>) = {a}
BY DEF Last, Range

LEMMA TwoStatements ==
  ASSUME NEW a, NEW b
  PROVE  <<a, b>> # <<>> /\ Last(<<a, b>>) = b /\ Range(<<a, b>>) = {a, b}
BY DEF Last, Range

LEMMA ThreeStatements ==
  ASSUME NEW a, NEW b, NEW c
  PROVE  <<a, b, c>> # <<>> /\ Last(<<a, b, c>>) = c /\ Range(<<a, b, c>>) = {a, b, c}
BY DEF Last, Range

LEMMA FourStatements ==
  ASSUME NEW a, NEW b, NEW c, NEW d
  PROVE  <<a, b, c, d>> # <<>> /\ Last(<<a, b, c, d>>) = d /\ Range(<<a, b, c, d>>) = {a, b, c, d}
BY DEF Last, Range

LEMMA MoreStatements ==
  ASSUME NEW S, NEW s \in Seq(S), NEW u \in Seq(S), s # <<>>, u # <<>>
  PROVE  /\ s \o u \in Seq(S) /\ s \o u # <<>>
         /\ Last(s \o u) = Last(u)
         /\ Range(s \o u) = Range(s) \cup Range(u)
<1>1. /\ s \o u \in Seq(S) /\ Len(s \o u) = Len(s) + Len(u)
      /\ \A k \in 1..Len(s) : (s \o u)[k] = s[k]
      /\ \A k \in 1..Len(u) : (s \o u)[Len(s) + k] = u[k]
  OBVIOUS
<1>2. Len(s) \in Nat \ {0} /\ Len(u) \in Nat \ {0}
  OBVIOUS
<1>3. Last(s \o u) = Last(u)
  BY <1>1, <1>2 DEF Last
<1>4. DOMAIN s = 1..Len(s) /\ DOMAIN u = 1..Len(u) /\ DOMAIN (s \o u) = 1..(Len(s) + Len(u))
  BY <1>1
<1>5. ASSUME NEW x \in Range(s \o u) PROVE x \in Range(s) \cup Range(u)
  <2>1. PICK k \in 1..(Len(s) + Len(u)) : x = (s \o u)[k]
    BY <1>4 DEF Range
  <2>2. CASE k <= Len(s)
    BY <2>1, <2>2, <1>1, <1>2, <1>4 DEF Range
  <2>3. CASE k > Len(s)
    <3>1. k - Len(s) \in 1..Len(u) /\ k = Len(s) + (k - Len(s))
      BY <2>3, <1>2
    <3>2. x = u[k - Len(s)]
      BY <3>1, <2>1, <1>1
    <3>. QED
      BY <3>1, <3>2, <1>4 DEF Range
  <2>. QED
    BY <2>2, <2>3, <1>2
<1>6. ASSUME NEW x \in Range(s) PROVE x \in Range(s \o u)
  <2>1. PICK k \in 1..Len(s) : x = s[k]
    BY <1>4 DEF Range
  <2>2. x = (s \o u)[k] /\ k \in 1..(Len(s) + Len(u))
    BY <2>1, <1>1, <1>2
  <2>. QED
    BY <2>2, <1>4 DEF Range
<1>7. ASSUME NEW x \in Range(u) PROVE x \in Range(s \o u)
  <2>1. PICK k \in 1..Len(u) : x = u[k]
    BY <1>4 DEF Range
  <2>2. x = (s \o u)[Len(s) + k] /\ Len(s) + k \in 1..(Len(s) + Len(u))
    BY <2>1, <1>1, <1>2
  <2>. QED
    BY <2>2, <1>4 DEF Range
<1>. QED
  BY <1>1, <1>2, <1>3, <1>5, <1>6, <1>7

LEMMA LastInRange ==
  ASSUME NEW S, NEW s \in Seq(S), s # <<>>
  PROVE  Last(s) \in Range(s) /\ Range(s) \subseteq S
BY DEF Last, Range

-----------------------------------------------------------------------------
(* What an artifact says, and what the cap leaves of it.                   *)

LEMMA SaysOne ==
  ASSUME NEW n \in Id
  PROVE  <<n>> \in Seq(Id) /\ Says(<<n>>) = {n}
BY DEF Says, Range

LEMMA SaysNone == Says(<<>>) = {} /\ <<>> \in Seq(Id)
BY DEF Says, Range

LEMMA SaysIds ==
  ASSUME NEW c \in Seq(Id)
  PROVE  Says(c) \subseteq Id
BY DEF Says, Range

LEMMA SaysMore ==
  ASSUME NEW c \in Seq(Id), NEW u \in Seq(Id)
  PROVE  c \o u \in Seq(Id) /\ Says(c \o u) = Says(c) \cup Says(u)
<1>1. CASE c = <<>>
  <2>1. c \o u = u
    BY <1>1
  <2>. QED
    BY <2>1, <1>1, SaysNone
<1>2. CASE u = <<>>
  <2>1. c \o u = c
    BY <1>2
  <2>. QED
    BY <2>1, <1>2, SaysNone
<1>3. CASE c # <<>> /\ u # <<>>
  BY <1>3, MoreStatements DEF Says
<1>. QED
  BY <1>1, <1>2, <1>3

\* The cap leaves a text of what there was, and takes only what is beyond it.
LEMMA CapLeaves ==
  ASSUME NEW c \in Seq(Id)
  PROVE  /\ Capped(c) \in Seq(Id)
         /\ Says(Capped(c)) \subseteq Says(c)
         /\ BeyondCap(c) \subseteq Says(c)
         /\ Says(c) \subseteq Says(Capped(c)) \cup BeyondCap(c)
<1>. DEFINE first == Len(c) - MaxOld + 1
<1>1. /\ MaxOld \in Nat /\ Len(c) \in Nat /\ DOMAIN c = 1..Len(c)
      /\ \A k \in 1..Len(c) : c[k] \in Id
  BY CapAssumption
<1>2. BeyondCap(c) \subseteq Says(c)
  BY <1>1 DEF BeyondCap, Says, Range
<1>3. CASE Len(c) <= MaxOld
  BY <1>2, <1>3 DEF Capped
<1>4. CASE Len(c) > MaxOld
  <2>1. Capped(c) = SubSeq(c, first, Len(c))
    BY <1>1, <1>4 DEF Capped
  <2>2. first \in Int /\ \A k \in first..Len(c) : c[k] \in Id
    BY <1>1, <1>4
  <2>3. /\ Capped(c) \in Seq(Id) /\ Len(Capped(c)) = MaxOld
        /\ \A k \in 1..MaxOld : Capped(c)[k] = c[Len(c) - MaxOld + k]
    <3>1. SubSeq(c, first, Len(c)) \in Seq(Id)
      BY <2>2, <1>1
    <3>2. Len(SubSeq(c, first, Len(c))) = MaxOld
      BY <2>2, <1>1, <1>4
    <3>3. ASSUME NEW k \in 1..MaxOld
          PROVE  SubSeq(c, first, Len(c))[k] = c[Len(c) - MaxOld + k]
      BY <2>2, <1>1, <1>4
    <3>. QED
      BY <3>1, <3>2, <3>3, <2>1
  <2>4. DOMAIN Capped(c) = 1..MaxOld
    BY <2>3
  <2>5. ASSUME NEW x \in Says(Capped(c)) PROVE x \in Says(c)
    <3>1. PICK k \in 1..MaxOld : x = Capped(c)[k]
      BY <2>4, <2>5 DEF Says, Range
    <3>2. Len(c) - MaxOld + k \in 1..Len(c) /\ x = c[Len(c) - MaxOld + k]
      BY <3>1, <2>3, <1>1, <1>4
    <3>. QED
      BY <3>2, <1>1 DEF Says, Range
  <2>6. ASSUME NEW x \in Says(c), x \notin BeyondCap(c) PROVE x \in Says(Capped(c))
    <3>1. PICK k \in 1..Len(c) : x = c[k]
      BY <1>1, <2>6 DEF Says, Range
    <3>2. k \notin 1..(Len(c) - MaxOld)
      BY <3>1, <2>6 DEF BeyondCap
    <3>. DEFINE m == k - (Len(c) - MaxOld)
    <3>3. m \in 1..MaxOld /\ k = Len(c) - MaxOld + m
      BY <3>2, <1>1, <1>4
    <3>. HIDE DEF m
    <3>4. x = Capped(c)[m]
      BY <3>1, <3>3, <2>3
    <3>. QED
      BY <3>3, <3>4, <2>4 DEF Says, Range
  <2>. QED
    BY <2>3, <2>5, <2>6, <1>2
<1>. QED
  BY <1>1, <1>3, <1>4

-----------------------------------------------------------------------------
(* What the tables refer to is there, and stays.                           *)

Here(d, i) == d.art[i].status # "absent"

\* The index is keyed on the priority and the artifact.
Keyed(rows) ==
    \A r \in rows, o \in rows : r.id = o.id /\ r.priority = o.priority => r = o

Whole(d) ==
    /\ d \in Tables
    /\ Keyed(d.listed)
    /\ \A r \in d.listed : Here(d, r.id)
    /\ \A r \in d.slate : Here(d, r.id)
    /\ \A i \in Id : \A u \in Says(d.art[i].content) : Here(d, u)

Lasting(d, e) ==
    \A i \in Id : Here(d, i) => Here(e, i) /\ e.art[i].service = d.art[i].service

\* A statement that leaves the slate alone and selects nothing.
Quiet(d, e) ==
    /\ Whole(e)
    /\ Lasting(d, e)
    /\ e.slate = d.slate
    /\ \A i \in Id : e.art[i].status = "selected" => d.art[i].status = "selected"

Calls(d, steps) ==
    /\ steps \in Seq(Tables) /\ steps # <<>>
    /\ \A e \in Range(steps) : Quiet(d, e)

LEMMA LastingSelf == ASSUME NEW d PROVE Lasting(d, d)
BY DEF Lasting

LEMMA LastingOn ==
  ASSUME NEW a, NEW b, NEW c, Lasting(a, b), Lasting(b, c)
  PROVE  Lasting(a, c)
BY DEF Lasting

LEMMA QuietOn ==
  ASSUME NEW a, NEW b, NEW c, Quiet(a, b), Quiet(b, c)
  PROVE  Quiet(a, c)
BY LastingOn DEF Quiet

LEMMA QuietSelf ==
  ASSUME NEW d, Whole(d) PROVE Quiet(d, d)
BY LastingSelf DEF Quiet

LEMMA CallsLast ==
  ASSUME NEW d, NEW steps, Calls(d, steps)
  PROVE  Quiet(d, Last(steps)) /\ Last(steps) \in Tables
BY LastInRange DEF Calls

LEMMA CallsMore ==
  ASSUME NEW d, NEW s, NEW u, Calls(d, s), Calls(Last(s), u)
  PROVE  Calls(d, s \o u) /\ Last(s \o u) = Last(u)
<1>1. Quiet(d, Last(s))
  BY CallsLast
<1>2. \A e \in Range(u) : Quiet(d, e)
  BY <1>1, QuietOn DEF Calls
<1>3. /\ s \o u \in Seq(Tables) /\ s \o u # <<>>
      /\ Last(s \o u) = Last(u) /\ Range(s \o u) = Range(s) \cup Range(u)
  BY MoreStatements DEF Calls
<1>. QED
  BY <1>2, <1>3 DEF Calls

LEMMA CallsOne ==
  ASSUME NEW d, NEW a, Quiet(d, a)
  PROVE  Calls(d, <<a>>) /\ Last(<<a>>) = a
<1>1. a \in Tables
  BY DEF Quiet, Whole
<1>. QED
  BY <1>1, OneStatement DEF Calls

LEMMA CallsTwo ==
  ASSUME NEW d, NEW a, NEW b, Quiet(d, a), Quiet(a, b)
  PROVE  Calls(d, <<a, b>>) /\ Last(<<a, b>>) = b
<1>1. a \in Tables /\ b \in Tables
  BY DEF Quiet, Whole
<1>. QED
  BY <1>1, TwoStatements, QuietOn DEF Calls

LEMMA CallsThree ==
  ASSUME NEW d, NEW a, NEW b, NEW c, Quiet(d, a), Quiet(a, b), Quiet(b, c)
  PROVE  Calls(d, <<a, b, c>>) /\ Last(<<a, b, c>>) = c
<1>1. a \in Tables /\ b \in Tables /\ c \in Tables
  BY DEF Quiet, Whole
<1>2. Quiet(d, b) /\ Quiet(d, c)
  BY QuietOn
<1>. QED
  BY <1>1, <1>2, ThreeStatements DEF Calls

LEMMA CallsFour ==
  ASSUME NEW d, NEW a, NEW b, NEW c, NEW e,
         Quiet(d, a), Quiet(a, b), Quiet(b, c), Quiet(c, e)
  PROVE  Calls(d, <<a, b, c, e>>) /\ Last(<<a, b, c, e>>) = e
<1>1. a \in Tables /\ b \in Tables /\ c \in Tables /\ e \in Tables
  BY DEF Quiet, Whole
<1>2. Quiet(d, b) /\ Quiet(d, c)
  BY QuietOn
<1>3. Quiet(d, e)
  BY <1>2, QuietOn
<1>. QED
  BY <1>1, <1>2, <1>3, FourStatements DEF Calls

-----------------------------------------------------------------------------
(* One statement at a time.                                                *)

LEMMA StatusSet ==
  ASSUME NEW d \in Tables, NEW i \in Id, NEW s \in Status,
         NEW e, e = SetStatus(d, i, s)
  PROVE  /\ e \in Tables /\ e.listed = d.listed /\ e.slate = d.slate
         /\ \A j \in Id : /\ e.art[j].status = IF j = i THEN s ELSE d.art[j].status
                          /\ e.art[j].service = d.art[j].service
                          /\ e.art[j].priority = d.art[j].priority
                          /\ e.art[j].pin = d.art[j].pin
                          /\ e.art[j].content = d.art[j].content
<1>1. \A j \in Id : d.art[j] \in Artifact
  BY DEF Tables
<1>2. e = [d EXCEPT !.art = [d.art EXCEPT ![i] = [d.art[i] EXCEPT !.status = s]]]
  BY DEF SetStatus
<1>3. [d.art[i] EXCEPT !.status = s] \in Artifact
  BY <1>1 DEF Artifact
<1>4. e \in Tables /\ e.listed = d.listed /\ e.slate = d.slate
      /\ e.art = [d.art EXCEPT ![i] = [d.art[i] EXCEPT !.status = s]]
  BY <1>2, <1>3 DEF Tables
<1>5. \A j \in Id : e.art[j] = IF j = i THEN [d.art[i] EXCEPT !.status = s] ELSE d.art[j]
  BY <1>4 DEF Tables
<1>. QED
  BY <1>1, <1>4, <1>5 DEF Artifact

LEMMA PrioritySet ==
  ASSUME NEW d \in Tables, NEW i \in Id, NEW p \in Priority,
         NEW e, e = SetPriority(d, i, p)
  PROVE  /\ e \in Tables /\ e.listed = d.listed /\ e.slate = d.slate
         /\ \A j \in Id : /\ e.art[j].status = d.art[j].status
                          /\ e.art[j].service = d.art[j].service
                          /\ e.art[j].priority = IF j = i THEN p ELSE d.art[j].priority
                          /\ e.art[j].pin = d.art[j].pin
                          /\ e.art[j].content = d.art[j].content
<1>1. \A j \in Id : d.art[j] \in Artifact
  BY DEF Tables
<1>3. [d.art[i] EXCEPT !.priority = p] \in Artifact
  BY <1>1 DEF Artifact
<1>4. e \in Tables /\ e.listed = d.listed /\ e.slate = d.slate
      /\ e.art = [d.art EXCEPT ![i] = [d.art[i] EXCEPT !.priority = p]]
  BY <1>3 DEF Tables, SetPriority
<1>5. \A j \in Id : e.art[j] = IF j = i THEN [d.art[i] EXCEPT !.priority = p] ELSE d.art[j]
  BY <1>4 DEF Tables
<1>. QED
  BY <1>1, <1>4, <1>5 DEF Artifact

LEMMA PinSet ==
  ASSUME NEW d \in Tables, NEW i \in Id, NEW day \in Day,
         NEW e, e = SetPin(d, i, day)
  PROVE  /\ e \in Tables /\ e.listed = d.listed /\ e.slate = d.slate
         /\ \A j \in Id : /\ e.art[j].status = d.art[j].status
                          /\ e.art[j].service = d.art[j].service
                          /\ e.art[j].priority = d.art[j].priority
                          /\ e.art[j].pin = IF j = i THEN day ELSE d.art[j].pin
                          /\ e.art[j].content = d.art[j].content
<1>1. \A j \in Id : d.art[j] \in Artifact
  BY DEF Tables
<1>3. [d.art[i] EXCEPT !.pin = day] \in Artifact
  BY <1>1 DEF Artifact
<1>4. e \in Tables /\ e.listed = d.listed /\ e.slate = d.slate
      /\ e.art = [d.art EXCEPT ![i] = [d.art[i] EXCEPT !.pin = day]]
  BY <1>3 DEF Tables, SetPin
<1>5. \A j \in Id : e.art[j] = IF j = i THEN [d.art[i] EXCEPT !.pin = day] ELSE d.art[j]
  BY <1>4 DEF Tables
<1>. QED
  BY <1>1, <1>4, <1>5 DEF Artifact

LEMMA PinsCleared ==
  ASSUME NEW d \in Tables, NEW S,
         NEW e, e = [d EXCEPT !.art = [j \in Id |-> IF j \in S
                                                     THEN [@[j] EXCEPT !.pin = NoDay]
                                                     ELSE @[j]]]
  PROVE  /\ e \in Tables /\ e.listed = d.listed /\ e.slate = d.slate
         /\ \A j \in Id : /\ e.art[j].status = d.art[j].status
                          /\ e.art[j].service = d.art[j].service
                          /\ e.art[j].priority = d.art[j].priority
                          /\ e.art[j].pin = IF j \in S THEN NoDay ELSE d.art[j].pin
                          /\ e.art[j].content = d.art[j].content
<1>1. \A j \in Id : d.art[j] \in Artifact
  BY DEF Tables
<1>2. \A j \in Id : [d.art[j] EXCEPT !.pin = NoDay] \in Artifact
  BY <1>1 DEF Artifact
<1>. DEFINE f == [j \in Id |-> IF j \in S THEN [d.art[j] EXCEPT !.pin = NoDay] ELSE d.art[j]]
<1>3. f \in [Id -> Artifact]
  BY <1>1, <1>2
<1>4. e \in Tables /\ e.listed = d.listed /\ e.slate = d.slate /\ e.art = f
  BY <1>3 DEF Tables
<1>5. \A j \in Id : e.art[j] = IF j \in S THEN [d.art[j] EXCEPT !.pin = NoDay] ELSE d.art[j]
  BY <1>4
<1>. QED
  BY <1>1, <1>4, <1>5 DEF Artifact

LEMMA ContentSet ==
  ASSUME NEW d \in Tables, NEW i \in Id, NEW C \in Seq(Id),
         NEW e, e = SetContent(d, i, C)
  PROVE  /\ e \in Tables /\ e.listed = d.listed /\ e.slate = d.slate
         /\ \A j \in Id : /\ e.art[j].status = d.art[j].status
                          /\ e.art[j].service = d.art[j].service
                          /\ e.art[j].priority = d.art[j].priority
                          /\ e.art[j].pin = d.art[j].pin
                          /\ e.art[j].content = IF j = i THEN C ELSE d.art[j].content
<1>1. \A j \in Id : d.art[j] \in Artifact
  BY DEF Tables
<1>3. [d.art[i] EXCEPT !.content = C] \in Artifact
  BY <1>1 DEF Artifact
<1>4. e \in Tables /\ e.listed = d.listed /\ e.slate = d.slate
      /\ e.art = [d.art EXCEPT ![i] = [d.art[i] EXCEPT !.content = C]]
  BY <1>3 DEF Tables, SetContent
<1>5. \A j \in Id : e.art[j] = IF j = i THEN [d.art[i] EXCEPT !.content = C] ELSE d.art[j]
  BY <1>4 DEF Tables
<1>. QED
  BY <1>1, <1>4, <1>5 DEF Artifact

\* What an artifact is before it has its content.
Blank(s, pin) == [status |-> "pending", service |-> s, priority |-> 0, pin |-> pin, content |-> <<>>]
Created(d, n, s, pin) == [d EXCEPT !.art[n] = Blank(s, pin)]

LEMMA RowSet ==
  ASSUME NEW d \in Tables, NEW n \in Id, NEW s \in Service \cup {NoService},
         NEW pin \in Day \cup {NoDay},
         NEW e, e = Created(d, n, s, pin)
  PROVE  /\ e \in Tables /\ e.listed = d.listed /\ e.slate = d.slate
         /\ \A j \in Id \ {n} : e.art[j] = d.art[j]
         /\ e.art[n].status = "pending" /\ e.art[n].service = s /\ e.art[n].priority = 0
         /\ e.art[n].pin = pin /\ e.art[n].content = <<>>
<1>. DEFINE a == Blank(s, pin)
<1>1. /\ a \in Artifact /\ a.status = "pending" /\ a.service = s /\ a.priority = 0
      /\ a.pin = pin /\ a.content = <<>>
  BY SaysNone, BoundAssumption DEF Blank, Artifact, Status, Priority
<1>. HIDE DEF a
<1>2. e \in Tables /\ e.listed = d.listed /\ e.slate = d.slate /\ e.art = [d.art EXCEPT ![n] = a]
  BY <1>1 DEF Tables, Created, a
<1>. QED
  BY <1>1, <1>2 DEF Tables

LEMMA ListedSet ==
  ASSUME NEW d \in Tables, NEW i \in Id, NEW p \in Priority, NEW e, e = Listed(d, i, p)
  PROVE  /\ e \in Tables /\ e.art = d.art /\ e.slate = d.slate
         /\ e.listed = {r \in d.listed : ~(r.id = i /\ r.priority = p)}
                         \cup {[id |-> i, priority |-> p, pin |-> d.art[i].pin]}
<1>1. d.art[i].pin \in Day \cup {NoDay}
  BY DEF Tables, Artifact
<1>2. [id |-> i, priority |-> p, pin |-> d.art[i].pin] \in Entry
  BY <1>1 DEF Entry
<1>. QED
  BY <1>2 DEF Listed, Tables

LEMMA UnlistedSet ==
  ASSUME NEW d \in Tables, NEW i, NEW p, NEW e, e = Unlisted(d, i, p)
  PROVE  /\ e \in Tables /\ e.art = d.art /\ e.slate = d.slate
         /\ e.listed = {r \in d.listed : ~(r.id = i /\ r.priority = p)}
BY DEF Unlisted, Tables

LEMMA ClearedSet ==
  ASSUME NEW d \in Tables, NEW rows, NEW e, e = Cleared(d, rows)
  PROVE  e \in Tables /\ e.art = d.art /\ e.listed = d.listed /\ e.slate = d.slate \ rows
BY DEF Cleared, Tables

-----------------------------------------------------------------------------
(* The calls: what they pass through, and what they come to.               *)

\* The index lists what is pending, as it is.
Synced(d) ==
    \A x \in Entry :
        x \in d.listed <=> /\ d.art[x.id].status = "pending"
                           /\ x.priority = d.art[x.id].priority
                           /\ x.pin = d.art[x.id].pin

\* One artifact's status is s; no other status moves, and no content.
Marked(d, e, i, s) ==
    \A j \in Id : /\ e.art[j].status = IF j = i THEN s ELSE d.art[j].status
                  /\ e.art[j].content = d.art[j].content

\* No status moves and no content.
Unmoved(d, e) ==
    \A j \in Id : e.art[j].status = d.art[j].status /\ e.art[j].content = d.art[j].content

\* No pin moves.
SamePins(d, e) == \A j \in Id : e.art[j].pin = d.art[j].pin

\* The pin of i goes to day, where only what waits and is pinned for it loses it.
PinsMoved(d, e, i, day) ==
    /\ e.art[i].pin = day
    /\ \A j \in Id \ {i} :
          \/ e.art[j].pin = d.art[j].pin
          \/ Synced(d) => d.art[j].status = "pending" /\ d.art[j].pin = day

LEMMA TablesTypes ==
  ASSUME NEW d \in Tables
  PROVE  /\ d.listed \subseteq Entry /\ d.slate \subseteq Row
         /\ \A i \in Id : /\ d.art[i].status \in Status
                          /\ d.art[i].service \in Service \cup {NoService}
                          /\ d.art[i].priority \in Priority
                          /\ d.art[i].pin \in Day \cup {NoDay}
                          /\ d.art[i].content \in Seq(Id)
                          /\ Says(d.art[i].content) \subseteq Id
         /\ \A r \in d.listed : /\ r.id \in Id /\ r.priority \in Priority
                                /\ r.pin \in Day \cup {NoDay}
         /\ \A r \in d.slate : /\ r.id \in Id /\ r.day \in Day
                               /\ r.slot \in Slot /\ r.lane \in Lane
<1>1. d.art \in [Id -> Artifact] /\ d.listed \subseteq Entry /\ d.slate \subseteq Row
  BY DEF Tables
<1>2. \A i \in Id : d.art[i] \in Artifact
  BY <1>1
<1>3. \A r \in d.listed : r \in Entry
  BY <1>1
<1>4. \A r \in d.slate : r \in Row
  BY <1>1
<1>5. \A i \in Id : d.art[i].content \in Seq(Id)
  BY <1>2 DEF Artifact
<1>6. \A i \in Id : Says(d.art[i].content) \subseteq Id
  BY <1>5, SaysIds
<1>. QED
  BY <1>1, <1>2, <1>3, <1>4, <1>5, <1>6 DEF Artifact, Entry, Row

LEMMA WholeSlate ==
  ASSUME NEW d, NEW e \in Tables, Whole(d), Lasting(d, e), e.slate \subseteq d.slate,
         Keyed(e.listed), \A r \in e.listed : Here(e, r.id),
         \A i \in Id : \A u \in Says(e.art[i].content) : Here(e, u)
  PROVE  Whole(e)
<1>1. \A r \in e.slate : r.id \in Id /\ Here(d, r.id)
  BY TablesTypes DEF Whole
<1>. QED
  BY <1>1 DEF Whole, Lasting

\* A step that changes statuses, priorities or pins of what is there.
LEMMA ArtQuiet ==
  ASSUME NEW d, NEW e \in Tables, Whole(d), e.listed = d.listed, e.slate = d.slate,
         \A j \in Id : /\ Here(d, j) => Here(e, j)
                       /\ e.art[j].service = d.art[j].service
                       /\ e.art[j].content = d.art[j].content
                       /\ e.art[j].status = "selected" => d.art[j].status = "selected"
  PROVE  Quiet(d, e)
<1>1. Lasting(d, e)
  BY DEF Lasting
<1>2. \A r \in e.listed : r.id \in Id /\ Here(d, r.id)
  BY TablesTypes DEF Whole
<1>3. \A i \in Id : \A u \in Says(e.art[i].content) : u \in Id /\ Here(d, u)
  BY TablesTypes DEF Whole
<1>4. Keyed(e.listed)
  BY DEF Whole
<1>5. Whole(e)
  BY <1>1, <1>2, <1>3, <1>4, WholeSlate DEF Lasting
<1>. QED
  BY <1>1, <1>5 DEF Quiet

\* A step that changes the index.
LEMMA IndexQuiet ==
  ASSUME NEW d, NEW e \in Tables, Whole(d), e.art = d.art, e.slate = d.slate,
         Keyed(e.listed), \A r \in e.listed : Here(d, r.id)
  PROVE  Quiet(d, e)
<1>1. Lasting(d, e) /\ \A i : Here(e, i) <=> Here(d, i)
  BY DEF Lasting, Here
<1>2. \A i \in Id : \A u \in Says(e.art[i].content) : Here(e, u)
  BY <1>1 DEF Whole
<1>3. Whole(e)
  BY <1>1, <1>2, WholeSlate
<1>. QED
  BY <1>1, <1>3 DEF Quiet

LEMMA ListedQuiet ==
  ASSUME NEW d, Whole(d), NEW i \in Id, Here(d, i), NEW p \in Priority
  PROVE  Quiet(d, Listed(d, i, p))
<1>. DEFINE e == Listed(d, i, p)
<1>. HIDE DEF e
<1>1. d \in Tables /\ Keyed(d.listed) /\ \A r \in d.listed : Here(d, r.id)
  BY DEF Whole
<1>2. /\ e \in Tables /\ e.art = d.art /\ e.slate = d.slate
      /\ e.listed = {r \in d.listed : ~(r.id = i /\ r.priority = p)}
                      \cup {[id |-> i, priority |-> p, pin |-> d.art[i].pin]}
  BY <1>1, ListedSet DEF e
<1>3. Keyed(e.listed)
  BY <1>1, <1>2 DEF Keyed
<1>4. \A r \in e.listed : Here(d, r.id)
  BY <1>1, <1>2
<1>. QED
  BY <1>2, <1>3, <1>4, IndexQuiet DEF e

LEMMA UnlistedQuiet ==
  ASSUME NEW d, Whole(d), NEW i, NEW p
  PROVE  Quiet(d, Unlisted(d, i, p))
<1>. DEFINE e == Unlisted(d, i, p)
<1>. HIDE DEF e
<1>1. d \in Tables /\ Keyed(d.listed) /\ \A r \in d.listed : Here(d, r.id)
  BY DEF Whole
<1>2. /\ e \in Tables /\ e.art = d.art /\ e.slate = d.slate
      /\ e.listed = {r \in d.listed : ~(r.id = i /\ r.priority = p)}
  BY <1>1, UnlistedSet DEF e
<1>3. Keyed(e.listed)
  BY <1>1, <1>2 DEF Keyed
<1>. QED
  BY <1>1, <1>2, <1>3, IndexQuiet DEF e

LEMMA StatusQuiet ==
  ASSUME NEW d, Whole(d), NEW i \in Id, NEW s \in Status \ {"absent", "selected"}
  PROVE  Quiet(d, SetStatus(d, i, s))
<1>. DEFINE e == SetStatus(d, i, s)
<1>. HIDE DEF e
<1>1. d \in Tables
  BY DEF Whole
<1>2. /\ e \in Tables /\ e.listed = d.listed /\ e.slate = d.slate
      /\ \A j \in Id : /\ e.art[j].status = IF j = i THEN s ELSE d.art[j].status
                       /\ e.art[j].service = d.art[j].service
                       /\ e.art[j].content = d.art[j].content
  BY <1>1, StatusSet DEF e
<1>3. \A j \in Id : Here(d, j) => Here(e, j)
  BY <1>2 DEF Here
<1>. QED
  BY <1>2, <1>3, ArtQuiet DEF e

\* mark_artifact_status to another status than selected.
LEMMA MarkCalls ==
  ASSUME NEW d, Whole(d), NEW i \in Id, NEW s \in {"composed", "discarded"}
  PROVE  /\ Calls(d, Mark(d, i, s))
         /\ Marked(d, Last(Mark(d, i, s)), i, s)
         /\ Synced(d) => Synced(Last(Mark(d, i, s)))
         /\ SamePins(d, Last(Mark(d, i, s)))
<1>. DEFINE a == SetStatus(d, i, s)
            b == Unlisted(a, i, d.art[i].priority)
<1>. HIDE DEF a, b
<1>0. s \in Status \ {"absent", "selected"} /\ s \in Status /\ d \in Tables
  BY DEF Status, Whole
<1>1. Quiet(d, a) /\ Whole(a)
  BY <1>0, StatusQuiet DEF a, Quiet
<1>2. Quiet(a, b)
  BY <1>1, UnlistedQuiet DEF b
<1>3. /\ a \in Tables /\ a.listed = d.listed /\ a.slate = d.slate
      /\ \A j \in Id : /\ a.art[j].status = IF j = i THEN s ELSE d.art[j].status
                       /\ a.art[j].priority = d.art[j].priority
                       /\ a.art[j].pin = d.art[j].pin
                       /\ a.art[j].content = d.art[j].content
  BY <1>0, StatusSet DEF a
<1>4. /\ b.art = a.art
      /\ b.listed = {r \in d.listed : ~(r.id = i /\ r.priority = d.art[i].priority)}
  BY <1>3, UnlistedSet DEF b
<1>5. /\ Marked(d, a, i, s) /\ Marked(d, b, i, s)
      /\ SamePins(d, a) /\ SamePins(d, b)
  BY <1>3, <1>4 DEF Marked, SamePins
<1>6. \A x \in Entry : x.id \in Id
  BY DEF Entry
<1>7. CASE d.art[i].status # "pending"
  <2>1. Mark(d, i, s) = <<a>>
    BY <1>7 DEF Mark, a
  <2>2. Calls(d, <<a>>) /\ Last(<<a>>) = a
    BY <1>1, CallsOne
  <2>3. Synced(d) => Synced(a)
    BY <1>3, <1>6, <1>7 DEF Synced
  <2>. QED
    BY <2>1, <2>2, <2>3, <1>5
<1>8. CASE d.art[i].status = "pending"
  <2>1. Mark(d, i, s) = <<a, b>>
    BY <1>8 DEF Mark, a, b
  <2>2. Calls(d, <<a, b>>) /\ Last(<<a, b>>) = b
    BY <1>1, <1>2, CallsTwo
  <2>3. Synced(d) => Synced(b)
    <3>1. SUFFICES ASSUME Synced(d), NEW x \in Entry
                   PROVE  x \in b.listed <=> /\ b.art[x.id].status = "pending"
                                             /\ x.priority = b.art[x.id].priority
                                             /\ x.pin = b.art[x.id].pin
      BY DEF Synced
    <3>2. x \in d.listed <=> /\ d.art[x.id].status = "pending"
                             /\ x.priority = d.art[x.id].priority
                             /\ x.pin = d.art[x.id].pin
      BY <3>1 DEF Synced
    <3>. QED
      BY <3>2, <1>3, <1>4, <1>6, <1>8
  <2>. QED
    BY <2>1, <2>2, <2>3, <1>5
<1>. QED
  BY <1>7, <1>8

\* revert_artifact_to_pending.
LEMMA RevertCalls ==
  ASSUME NEW d, Whole(d), NEW i \in Id, d.art[i].status = "selected"
  PROVE  /\ Calls(d, Revert(d, i))
         /\ Marked(d, Last(Revert(d, i)), i, "pending")
         /\ Synced(d) => Synced(Last(Revert(d, i)))
         /\ SamePins(d, Last(Revert(d, i)))
<1>. DEFINE a == SetStatus(d, i, "pending")
            b == Listed(a, i, d.art[i].priority)
<1>. HIDE DEF a, b
<1>0. "pending" \in Status \ {"absent", "selected"} /\ "pending" \in Status /\ d \in Tables
      /\ d.art[i].priority \in Priority
  BY TablesTypes DEF Status, Whole
<1>1. Quiet(d, a) /\ Whole(a)
  BY <1>0, StatusQuiet DEF a, Quiet
<1>3. /\ a \in Tables /\ a.listed = d.listed /\ a.slate = d.slate
      /\ \A j \in Id : /\ a.art[j].status = IF j = i THEN "pending" ELSE d.art[j].status
                       /\ a.art[j].priority = d.art[j].priority
                       /\ a.art[j].pin = d.art[j].pin
                       /\ a.art[j].content = d.art[j].content
  BY <1>0, StatusSet DEF a
<1>2. Quiet(a, b)
  BY <1>0, <1>1, <1>3, ListedQuiet DEF b, Here
<1>4. /\ b.art = a.art
      /\ b.listed = {r \in d.listed : ~(r.id = i /\ r.priority = d.art[i].priority)}
                      \cup {[id |-> i, priority |-> d.art[i].priority, pin |-> d.art[i].pin]}
  BY <1>0, <1>3, ListedSet DEF b
<1>5. Marked(d, b, i, "pending") /\ SamePins(d, b)
  BY <1>3, <1>4 DEF Marked, SamePins
<1>6. Revert(d, i) = <<a, b>>
  BY DEF Revert, a, b
<1>7. Calls(d, <<a, b>>) /\ Last(<<a, b>>) = b
  BY <1>1, <1>2, CallsTwo
<1>8. Synced(d) => Synced(b)
  <2>1. SUFFICES ASSUME Synced(d), NEW x \in Entry
                 PROVE  x \in b.listed <=> /\ b.art[x.id].status = "pending"
                                           /\ x.priority = b.art[x.id].priority
                                           /\ x.pin = b.art[x.id].pin
    BY DEF Synced
  <2>2. x \in d.listed <=> /\ d.art[x.id].status = "pending"
                           /\ x.priority = d.art[x.id].priority
                           /\ x.pin = d.art[x.id].pin
    BY <2>1 DEF Synced
  <2>3. x.id \in Id /\ x = [id |-> x.id, priority |-> x.priority, pin |-> x.pin]
    BY DEF Entry
  <2>4. CASE x.id = i
    <3>1. x \in b.listed <=> x = [id |-> i, priority |-> d.art[i].priority, pin |-> d.art[i].pin]
      BY <1>4, <2>2, <2>4
    <3>. QED
      BY <3>1, <2>3, <2>4, <1>3, <1>4
  <2>5. CASE x.id # i
    BY <2>2, <2>3, <2>5, <1>3, <1>4
  <2>. QED
    BY <2>4, <2>5
<1>. QED
  BY <1>5, <1>6, <1>7, <1>8

\* update_artifact_priority.
LEMMA ReprioritiseCalls ==
  ASSUME NEW d, Whole(d), NEW i \in Id, Here(d, i), NEW p \in Priority
  PROVE  /\ Calls(d, Reprioritise(d, i, p))
         /\ Unmoved(d, Last(Reprioritise(d, i, p)))
         /\ Synced(d) => Synced(Last(Reprioritise(d, i, p)))
         /\ SamePins(d, Last(Reprioritise(d, i, p)))
<1>. DEFINE a == SetPriority(d, i, p)
            b == Unlisted(a, i, d.art[i].priority)
            c == Listed(b, i, p)
<1>. HIDE DEF a, b, c
<1>0. d \in Tables
  BY DEF Whole
<1>1. /\ a \in Tables /\ a.listed = d.listed /\ a.slate = d.slate
      /\ \A j \in Id : /\ a.art[j].status = d.art[j].status
                       /\ a.art[j].service = d.art[j].service
                       /\ a.art[j].priority = IF j = i THEN p ELSE d.art[j].priority
                       /\ a.art[j].pin = d.art[j].pin
                       /\ a.art[j].content = d.art[j].content
  BY <1>0, PrioritySet DEF a
<1>2. Quiet(d, a) /\ Whole(a)
  <2>1. \A j \in Id : Here(d, j) => Here(a, j)
    BY <1>1 DEF Here
  <2>2. Quiet(d, a)
    BY <2>1, <1>1, ArtQuiet
  <2>. QED
    BY <2>2 DEF Quiet
<1>3. Quiet(a, b) /\ Whole(b)
  BY <1>2, UnlistedQuiet DEF b, Quiet
<1>4. /\ b \in Tables /\ b.art = a.art
      /\ b.listed = {r \in d.listed : ~(r.id = i /\ r.priority = d.art[i].priority)}
  BY <1>1, UnlistedSet DEF b
<1>5. Quiet(b, c)
  BY <1>1, <1>3, <1>4, ListedQuiet DEF c, Here
<1>6. /\ c.art = a.art
      /\ c.listed = {r \in b.listed : ~(r.id = i /\ r.priority = p)}
                      \cup {[id |-> i, priority |-> p, pin |-> d.art[i].pin]}
  BY <1>1, <1>4, ListedSet DEF c
<1>7. Unmoved(d, a) /\ Unmoved(d, c) /\ SamePins(d, a) /\ SamePins(d, c)
  BY <1>1, <1>6 DEF Unmoved, SamePins
<1>8. CASE d.art[i].status # "pending"
  <2>1. Reprioritise(d, i, p) = <<a>>
    BY <1>8 DEF Reprioritise, a
  <2>2. Calls(d, <<a>>) /\ Last(<<a>>) = a
    BY <1>2, CallsOne
  <2>3. Synced(d) => Synced(a)
    BY <1>1, <1>8 DEF Synced, Entry
  <2>. QED
    BY <2>1, <2>2, <2>3, <1>7
<1>9. CASE d.art[i].status = "pending"
  <2>1. Reprioritise(d, i, p) = <<a, b, c>>
    BY <1>9 DEF Reprioritise, a, b, c
  <2>2. Calls(d, <<a, b, c>>) /\ Last(<<a, b, c>>) = c
    BY <1>2, <1>3, <1>5, CallsThree
  <2>3. Synced(d) => Synced(c)
    <3>1. SUFFICES ASSUME Synced(d), NEW x \in Entry
                   PROVE  x \in c.listed <=> /\ c.art[x.id].status = "pending"
                                             /\ x.priority = c.art[x.id].priority
                                             /\ x.pin = c.art[x.id].pin
      BY DEF Synced
    <3>2. x \in d.listed <=> /\ d.art[x.id].status = "pending"
                             /\ x.priority = d.art[x.id].priority
                             /\ x.pin = d.art[x.id].pin
      BY <3>1 DEF Synced
    <3>3. x.id \in Id /\ x = [id |-> x.id, priority |-> x.priority, pin |-> x.pin]
      BY DEF Entry
    <3>4. CASE x.id = i
      <4>1. x \in c.listed <=> x = [id |-> i, priority |-> p, pin |-> d.art[i].pin]
        BY <1>4, <1>6, <3>2, <3>4
      <4>. QED
        BY <4>1, <3>3, <3>4, <1>1, <1>6, <1>9
    <3>5. CASE x.id # i
      BY <3>2, <3>3, <3>5, <1>1, <1>4, <1>6
    <3>. QED
      BY <3>4, <3>5
  <2>. QED
    BY <2>1, <2>2, <2>3, <1>7
<1>. QED
  BY <1>8, <1>9

\* pin_artifact_for_day.
LEMMA PinForCalls ==
  ASSUME NEW d, Whole(d), NEW i \in Id, d.art[i].status = "pending", NEW day \in Day
  PROVE  /\ Calls(d, PinFor(d, i, day))
         /\ Unmoved(d, Last(PinFor(d, i, day)))
         /\ Synced(d) => Synced(Last(PinFor(d, i, day)))
         /\ PinsMoved(d, Last(PinFor(d, i, day)), i, day)
<1>. DEFINE others == {r.id : r \in {r \in d.listed : r.pin = day /\ r.id # i}}
            a == [d EXCEPT !.art = [j \in Id |-> IF j \in others
                                                 THEN [@[j] EXCEPT !.pin = NoDay]
                                                 ELSE @[j]]]
            rows == {IF r.id \in others THEN [r EXCEPT !.pin = NoDay] ELSE r : r \in d.listed}
            b == [a EXCEPT !.listed =
                    {IF r.id \in others THEN [r EXCEPT !.pin = NoDay] ELSE r : r \in @}]
            c == SetPin(b, i, day)
            e == Listed(c, i, d.art[i].priority)
<1>0. PinFor(d, i, day) = <<a, b, c, e>>
  BY DEF PinFor
<1>. HIDE DEF others, a, b, c, e, rows
<1>1. d \in Tables /\ i \notin others /\ d.art[i].priority \in Priority
  BY TablesTypes DEF Whole, others
<1>2. /\ a \in Tables /\ a.listed = d.listed /\ a.slate = d.slate
      /\ \A j \in Id : /\ a.art[j].status = d.art[j].status
                       /\ a.art[j].service = d.art[j].service
                       /\ a.art[j].priority = d.art[j].priority
                       /\ a.art[j].pin = IF j \in others THEN NoDay ELSE d.art[j].pin
                       /\ a.art[j].content = d.art[j].content
  BY <1>1, PinsCleared DEF a
<1>3. Quiet(d, a) /\ Whole(a)
  <2>1. \A j \in Id : Here(d, j) => Here(a, j)
    BY <1>2 DEF Here
  <2>2. Quiet(d, a)
    BY <2>1, <1>2, ArtQuiet
  <2>. QED
    BY <2>2 DEF Quiet
<1>4. \A r \in d.listed : r \in Entry /\ [r EXCEPT !.pin = NoDay] \in Entry
  BY <1>1, TablesTypes DEF Entry
<1>5. rows \subseteq Entry
  BY <1>4 DEF rows
<1>6. b \in Tables /\ b.art = a.art /\ b.slate = a.slate /\ b.listed = rows
  BY <1>2, <1>5 DEF b, Tables, rows
<1>7. \A x \in rows : \E r \in d.listed :
        /\ x.id = r.id /\ x.priority = r.priority
        /\ x.pin = IF r.id \in others THEN NoDay ELSE r.pin
  <2>1. SUFFICES ASSUME NEW r \in d.listed,
                        NEW x, x = IF r.id \in others THEN [r EXCEPT !.pin = NoDay] ELSE r
                 PROVE  /\ x.id = r.id /\ x.priority = r.priority
                        /\ x.pin = IF r.id \in others THEN NoDay ELSE r.pin
    BY DEF rows
  <2>2. r \in Entry
    BY <1>4
  <2>. QED
    BY <2>1, <2>2 DEF Entry
<1>8. Quiet(a, b) /\ Whole(b)
  <2>1. Keyed(d.listed) /\ \A r \in d.listed : Here(d, r.id) /\ r.id \in Id
    BY <1>1, TablesTypes DEF Whole
  <2>2. Keyed(rows)
    <3>1. SUFFICES ASSUME NEW x \in rows, NEW y \in rows, x.id = y.id, x.priority = y.priority
                   PROVE  x = y
      BY DEF Keyed
    <3>2. PICK r \in d.listed : /\ x.id = r.id /\ x.priority = r.priority
                                /\ x.pin = IF r.id \in others THEN NoDay ELSE r.pin
      BY <1>7
    <3>3. PICK o \in d.listed : /\ y.id = o.id /\ y.priority = o.priority
                                /\ y.pin = IF o.id \in others THEN NoDay ELSE o.pin
      BY <1>7
    <3>4. r = o
      BY <2>1, <3>1, <3>2, <3>3 DEF Keyed
    <3>5. x.pin = y.pin
      BY <3>2, <3>3, <3>4
    <3>6. x \in Entry /\ y \in Entry
      BY <1>5
    <3>. QED
      BY <3>1, <3>5, <3>6 DEF Entry
  <2>3. \A x \in rows : Here(a, x.id)
    BY <1>7, <2>1, <1>2 DEF Here
  <2>4. Quiet(a, b)
    BY <1>3, <1>6, <2>2, <2>3, IndexQuiet
  <2>. QED
    BY <2>4 DEF Quiet
<1>9. /\ c \in Tables /\ c.listed = b.listed /\ c.slate = b.slate
      /\ \A j \in Id : /\ c.art[j].status = b.art[j].status
                       /\ c.art[j].service = b.art[j].service
                       /\ c.art[j].priority = b.art[j].priority
                       /\ c.art[j].pin = IF j = i THEN day ELSE b.art[j].pin
                       /\ c.art[j].content = b.art[j].content
  BY <1>6, PinSet DEF c
<1>10. Quiet(b, c) /\ Whole(c)
  <2>1. \A j \in Id : Here(b, j) => Here(c, j)
    BY <1>9 DEF Here
  <2>2. Quiet(b, c)
    BY <2>1, <1>8, <1>9, ArtQuiet
  <2>. QED
    BY <2>2 DEF Quiet
<1>11. Here(c, i)
  BY <1>2, <1>6, <1>9 DEF Here
<1>12. Quiet(c, e)
  BY <1>1, <1>10, <1>11, ListedQuiet DEF e
<1>13. /\ e.art = c.art
       /\ e.listed = {r \in c.listed : ~(r.id = i /\ r.priority = d.art[i].priority)}
                       \cup {[id |-> i, priority |-> d.art[i].priority, pin |-> day]}
  BY <1>1, <1>9, ListedSet DEF e
<1>14. Calls(d, <<a, b, c, e>>) /\ Last(<<a, b, c, e>>) = e
  BY <1>3, <1>8, <1>10, <1>12, CallsFour
<1>15. Unmoved(d, e)
  BY <1>2, <1>6, <1>9, <1>13 DEF Unmoved
<1>16. Synced(d) => Synced(e)
  <2>1. SUFFICES ASSUME Synced(d), NEW x \in Entry
                 PROVE  x \in e.listed <=> /\ e.art[x.id].status = "pending"
                                           /\ x.priority = e.art[x.id].priority
                                           /\ x.pin = e.art[x.id].pin
    BY DEF Synced
  <2>2. x.id \in Id /\ x = [id |-> x.id, priority |-> x.priority, pin |-> x.pin]
    BY DEF Entry
  <2>3. \A y \in Entry : y \in d.listed <=> /\ d.art[y.id].status = "pending"
                                            /\ y.priority = d.art[y.id].priority
                                            /\ y.pin = d.art[y.id].pin
    BY <2>1 DEF Synced
  <2>4. CASE x.id = i
    <3>1. x \in rows => x.priority = d.art[i].priority
      BY <1>4, <1>7, <2>3, <2>4
    <3>2. x \in e.listed <=> x = [id |-> i, priority |-> d.art[i].priority, pin |-> day]
      BY <3>1, <1>6, <1>9, <1>13, <2>4
    <3>. QED
      BY <3>2, <2>2, <2>4, <1>2, <1>6, <1>9, <1>13
  <2>5. CASE x.id # i /\ x.id \notin others
    <3>1. x \in rows => x \in d.listed
      <4>1. SUFFICES ASSUME x \in rows PROVE x \in d.listed
        OBVIOUS
      <4>2. PICK r \in d.listed : x = IF r.id \in others THEN [r EXCEPT !.pin = NoDay] ELSE r
        BY <4>1 DEF rows
      <4>3. r.id \notin others
        BY <4>2, <1>4, <2>5 DEF Entry
      <4>. QED
        BY <4>2, <4>3
    <3>2. x \in d.listed => x \in rows
      BY <2>5 DEF rows
    <3>3. x \in e.listed <=> x \in d.listed
      BY <3>1, <3>2, <1>6, <1>9, <1>13, <2>5
    <3>. QED
      BY <3>3, <2>2, <2>3, <2>5, <1>2, <1>6, <1>9, <1>13
  <2>6. CASE x.id # i /\ x.id \in others
    <3>1. PICK r \in d.listed : r.id = x.id
      BY <2>6 DEF others
    <3>2. r \in Entry /\ r = [id |-> x.id, priority |-> d.art[x.id].priority, pin |-> d.art[x.id].pin]
          /\ d.art[x.id].status = "pending"
      BY <3>1, <1>4, <2>3 DEF Entry
    <3>3. ASSUME x \in rows PROVE x.priority = d.art[x.id].priority /\ x.pin = NoDay
      <4>1. PICK y \in d.listed : /\ x.id = y.id /\ x.priority = y.priority
                                  /\ x.pin = IF y.id \in others THEN NoDay ELSE y.pin
        BY <3>3, <1>7
      <4>2. y \in Entry
        BY <1>4
      <4>3. y.priority = d.art[y.id].priority
        BY <4>2, <2>3
      <4>. QED
        BY <4>1, <4>3, <2>6
    <3>4. [r EXCEPT !.pin = NoDay] \in rows
      BY <3>1, <2>6 DEF rows
    <3>5. [r EXCEPT !.pin = NoDay]
            = [id |-> x.id, priority |-> d.art[x.id].priority, pin |-> NoDay]
      BY <3>2
    <3>6. x \in rows <=> x.priority = d.art[x.id].priority /\ x.pin = NoDay
      BY <3>3, <3>4, <3>5, <2>2
    <3>. QED
      BY <3>2, <3>6, <2>2, <2>6, <1>2, <1>6, <1>9, <1>13
  <2>. QED
    BY <2>4, <2>5, <2>6
<1>17. PinsMoved(d, e, i, day)
  <2>1. ASSUME NEW j \in others, Synced(d)
        PROVE  d.art[j].status = "pending" /\ d.art[j].pin = day
    BY <2>1, <1>4 DEF others, Synced
  <2>2. /\ e.art[i].pin = day
        /\ \A j \in Id \ {i} : e.art[j].pin = IF j \in others THEN NoDay ELSE d.art[j].pin
    BY <1>2, <1>6, <1>9, <1>13
  <2>. QED
    BY <2>1, <2>2 DEF PinsMoved
<1>. QED
  BY <1>0, <1>14, <1>15, <1>16, <1>17

\* A new artifact n, which takes over what the artifacts of old said, or what the
\* cap leaves of it.
Grown(d, e, n, old, update) ==
    /\ old \subseteq Id \ {n}
    /\ \A j \in Id \ {n} : /\ e.art[j].status = IF j \in old THEN "discarded" ELSE d.art[j].status
                           /\ e.art[j].content = d.art[j].content
    /\ e.art[n].status = "pending"
    /\ update \subseteq Says(e.art[n].content)
    /\ Says(e.art[n].content) \subseteq update \cup UNION {Says(d.art[j].content) : j \in old}
    /\ \A j \in old : Says(Capped(d.art[j].content)) \subseteq Says(e.art[n].content)

\* It takes over the pin of old, and no other pin moves.
Heir(d, e, n, old) ==
    /\ \A j \in Id \ {n} : e.art[j].pin = d.art[j].pin
    /\ \A j \in old : e.art[n].pin = d.art[j].pin

\* It supersedes what waited, and what else is given up for it.
Succeeds(d, e, n, also, update) ==
    \E old \in SUBSET Id :
        /\ Grown(d, e, n, old \cup also, update)
        /\ Synced(d) => /\ \A j \in old \cup also : d.art[j].status = "pending"
                        /\ Heir(d, e, n, old)

\* A text that tells of n and what there is.
Refers(d, n, C) == \A u \in Says(C) : u = n \/ Here(d, u)

\* What filing it comes to.
Filed(d, n, s, pin, C) ==
    /\ Calls(d, File(d, n, s, pin, C))
    /\ Grown(d, Last(File(d, n, s, pin, C)), n, {}, Says(C))
    /\ Last(File(d, n, s, pin, C)).art[n].content = C
    /\ Synced(d) => Synced(Last(File(d, n, s, pin, C)))
    /\ Heir(d, Last(File(d, n, s, pin, C)), n, {})
    /\ Last(File(d, n, s, pin, C)).art[n].pin = pin

LEMMA FileCalls ==
  ASSUME NEW d, Whole(d), NEW n \in Id, ~Here(d, n),
         NEW s \in Service \cup {NoService}, NEW pin \in Day \cup {NoDay},
         NEW C \in Seq(Id), Refers(d, n, C)
  PROVE  Filed(d, n, s, pin, C)
<1>. DEFINE a == Created(d, n, s, pin)
            b == Listed(a, n, 0)
            c == SetContent(b, n, C)
<1>0. File(d, n, s, pin, C) = <<a, b, c>>
  BY DEF File, Created, Blank
<1>1. d \in Tables /\ 0 \in Priority
  BY BoundAssumption DEF Whole, Priority
<1>2. /\ a \in Tables /\ a.listed = d.listed /\ a.slate = d.slate
      /\ \A j \in Id \ {n} : a.art[j] = d.art[j]
      /\ a.art[n].status = "pending" /\ a.art[n].service = s /\ a.art[n].priority = 0
      /\ a.art[n].pin = pin /\ a.art[n].content = <<>>
  <2>1. a = Created(d, n, s, pin)
    OBVIOUS
  <2>. HIDE DEF a
  <2>. QED
    BY <1>1, <2>1, RowSet
<1>. HIDE DEF a, b, c
<1>3. Lasting(d, a)
  BY <1>2 DEF Lasting, Here
<1>4. Quiet(d, a) /\ Whole(a)
  <2>1. \A r \in d.listed : r.id \in Id /\ Here(d, r.id)
    BY <1>1, TablesTypes DEF Whole
  <2>2. \A r \in a.listed : Here(a, r.id)
    BY <2>1, <1>2, <1>3 DEF Lasting
  <2>3. \A i \in Id : \A u \in Says(a.art[i].content) : Here(a, u)
    <3>1. \A i \in Id : \A u \in Says(d.art[i].content) : u \in Id /\ Here(d, u)
      BY <1>1, TablesTypes DEF Whole
    <3>2. \A i \in Id : \A u \in Says(a.art[i].content) : u \in Id /\ Here(d, u)
      BY <1>2, <3>1, SaysNone
    <3>. QED
      BY <3>2, <1>3 DEF Lasting
  <2>4. Keyed(a.listed)
    BY <1>2 DEF Whole
  <2>5. Whole(a)
    BY <2>2, <2>3, <2>4, <1>2, <1>3, WholeSlate
  <2>6. \A i \in Id : a.art[i].status = "selected" => d.art[i].status = "selected"
    BY <1>2
  <2>. QED
    BY <2>5, <2>6, <1>2, <1>3 DEF Quiet
<1>5. Quiet(a, b) /\ Whole(b)
  BY <1>1, <1>2, <1>4, ListedQuiet DEF b, Here, Quiet
<1>6. /\ b \in Tables /\ b.art = a.art /\ b.slate = a.slate
      /\ b.listed = {r \in d.listed : ~(r.id = n /\ r.priority = 0)}
                      \cup {[id |-> n, priority |-> 0, pin |-> pin]}
  BY <1>1, <1>2, ListedSet DEF b
<1>7. /\ c \in Tables /\ c.listed = b.listed /\ c.slate = b.slate
      /\ \A j \in Id : /\ c.art[j].status = b.art[j].status
                       /\ c.art[j].service = b.art[j].service
                       /\ c.art[j].priority = b.art[j].priority
                       /\ c.art[j].pin = b.art[j].pin
                       /\ c.art[j].content = IF j = n THEN C ELSE b.art[j].content
  BY <1>6, ContentSet DEF c
<1>8. Quiet(b, c)
  <2>1. \A j \in Id : Here(b, j) <=> Here(c, j)
    BY <1>7 DEF Here
  <2>2. Lasting(b, c)
    BY <2>1, <1>7 DEF Lasting
  <2>3. \A r \in b.listed : r.id \in Id /\ Here(b, r.id)
    BY <1>5, TablesTypes DEF Whole
  <2>4. \A r \in c.listed : Here(c, r.id)
    BY <2>1, <2>3, <1>7
  <2>5. \A i \in Id : \A u \in Says(b.art[i].content) : u \in Id /\ Here(b, u)
    BY <1>5, TablesTypes DEF Whole
  <2>6. \A u \in Says(C) : u \in Id /\ Here(b, u)
    BY <1>2, <1>3, <1>6, SaysIds DEF Refers, Lasting, Here
  <2>7. \A i \in Id : \A u \in Says(c.art[i].content) : u \in Id /\ Here(b, u)
    BY <2>5, <2>6, <1>7
  <2>8. \A i \in Id : \A u \in Says(c.art[i].content) : Here(c, u)
    BY <2>1, <2>7
  <2>9. Keyed(c.listed)
    BY <1>5, <1>7 DEF Whole
  <2>10. Whole(c)
    BY <2>2, <2>4, <2>8, <2>9, <1>5, <1>7, WholeSlate
  <2>11. \A i \in Id : c.art[i].status = "selected" => b.art[i].status = "selected"
    BY <1>7
  <2>. QED
    BY <2>2, <2>10, <2>11, <1>7 DEF Quiet
<1>9. Calls(d, <<a, b, c>>) /\ Last(<<a, b, c>>) = c
  BY <1>4, <1>5, <1>8, CallsThree
<1>10. /\ Grown(d, c, n, {}, Says(C)) /\ Heir(d, c, n, {}) /\ c.art[n].pin = pin
       /\ c.art[n].content = C
  BY <1>2, <1>6, <1>7 DEF Grown, Heir
<1>11. Synced(d) => Synced(c)
  <2>1. SUFFICES ASSUME Synced(d), NEW x \in Entry
                 PROVE  x \in c.listed <=> /\ c.art[x.id].status = "pending"
                                           /\ x.priority = c.art[x.id].priority
                                           /\ x.pin = c.art[x.id].pin
    BY DEF Synced
  <2>2. x \in d.listed <=> /\ d.art[x.id].status = "pending"
                           /\ x.priority = d.art[x.id].priority
                           /\ x.pin = d.art[x.id].pin
    BY <2>1 DEF Synced
  <2>3. x.id \in Id /\ x = [id |-> x.id, priority |-> x.priority, pin |-> x.pin]
    BY DEF Entry
  <2>4. CASE x.id = n
    <3>1. x \notin d.listed
      BY <2>2, <2>4 DEF Here
    <3>2. x \in c.listed <=> x = [id |-> n, priority |-> 0, pin |-> pin]
      BY <3>1, <1>6, <1>7
    <3>. QED
      BY <3>2, <2>3, <2>4, <1>2, <1>6, <1>7
  <2>5. CASE x.id # n
    BY <2>2, <2>3, <2>5, <1>2, <1>6, <1>7
  <2>. QED
    BY <2>4, <2>5
<1>. QED
  BY <1>0, <1>9, <1>10, <1>11 DEF Filed

\* insert_artifact.
LEMMA InsertCalls ==
  ASSUME NEW d, Whole(d), NEW n \in Id, ~Here(d, n), NEW s \in Service \cup {NoService},
         NEW C \in Seq(Id), \A u \in Says(C) : u = n \/ Here(d, u)
  PROVE  /\ Calls(d, Insert(d, n, s, C))
         /\ Succeeds(d, Last(Insert(d, n, s, C)), n, {}, Says(C))
         /\ Synced(d) => Synced(Last(Insert(d, n, s, C)))
<1>. DEFINE same == {r \in d.listed : d.art[r.id].service = s}
            o == First(same)
            a == Unlisted(d, o.id, o.priority)
            b == SetStatus(a, o.id, "discarded")
            D == Capped(d.art[o.id].content) \o C
            filed == File(b, n, s, o.pin, D)
<1>1. CASE s = NoService \/ same = {}
  <2>1. Insert(d, n, s, C) = File(d, n, s, NoDay, C)
    BY <1>1 DEF Insert
  <2>2. NoDay \in Day \cup {NoDay}
    OBVIOUS
  <2>3. /\ Calls(d, File(d, n, s, NoDay, C))
        /\ Grown(d, Last(File(d, n, s, NoDay, C)), n, {}, Says(C))
        /\ Synced(d) => Synced(Last(File(d, n, s, NoDay, C)))
        /\ Heir(d, Last(File(d, n, s, NoDay, C)), n, {})
    BY <2>2, FileCalls DEF Refers, Filed
  <2>4. Succeeds(d, Last(File(d, n, s, NoDay, C)), n, {}, Says(C))
    <3>1. {} \cup {} = {} /\ {} \in SUBSET Id
      OBVIOUS
    <3>. QED
      BY <2>3, <3>1 DEF Succeeds
  <2>. QED
    BY <2>1, <2>3, <2>4
<1>2. CASE ~(s = NoService \/ same = {})
  <2>1. Insert(d, n, s, C) = <<a, b>> \o filed
    BY <1>2 DEF Insert
  <2>2. same \in SUBSET Entry /\ same # {} /\ d \in Tables
    BY <1>2, TablesTypes DEF Whole
  <2>3. o \in same
    BY <2>2, FirstOf
  <2>. HIDE DEF o
  <2>4. /\ o \in d.listed /\ o.id \in Id /\ Here(d, o.id) /\ o.pin \in Day \cup {NoDay}
        /\ o \in Entry /\ o.priority \in Priority
    BY <2>2, <2>3, TablesTypes DEF Whole, Entry
  <2>5. o.id # n
    BY <2>4
  <2>6. Quiet(d, a) /\ Whole(a)
    BY UnlistedQuiet DEF Quiet
  <2>7. a \in Tables /\ a.art = d.art
        /\ a.listed = {r \in d.listed : ~(r.id = o.id /\ r.priority = o.priority)}
    BY <2>2, UnlistedSet
  <2>8. "discarded" \in Status /\ "discarded" \in Status \ {"absent", "selected"}
    BY DEF Status
  <2>. HIDE DEF a
  <2>9. Quiet(a, b) /\ Whole(b)
    BY <2>4, <2>6, <2>8, StatusQuiet DEF Quiet
  <2>10. /\ b \in Tables /\ b.listed = a.listed
         /\ \A j \in Id : /\ b.art[j].status = IF j = o.id THEN "discarded" ELSE a.art[j].status
                          /\ b.art[j].priority = a.art[j].priority
                          /\ b.art[j].pin = a.art[j].pin
                          /\ b.art[j].content = a.art[j].content
    <3>1. a \in Tables /\ o.id \in Id /\ "discarded" \in Status
      BY <2>4, <2>7, <2>8
    <3>2. b = SetStatus(a, o.id, "discarded")
      OBVIOUS
    <3>. HIDE DEF b
    <3>. QED
      BY <3>1, <3>2, StatusSet
  <2>. HIDE DEF b
  <2>11. ~Here(b, n)
    BY <2>5, <2>7, <2>10 DEF Here
  <2>12. /\ D \in Seq(Id) /\ Says(C) \subseteq Says(D)
         /\ Says(Capped(d.art[o.id].content)) \subseteq Says(D)
         /\ Says(D) \subseteq Says(C) \cup Says(d.art[o.id].content)
    <3>1. d.art[o.id].content \in Seq(Id)
      BY <2>2, <2>4, TablesTypes
    <3>2. /\ Capped(d.art[o.id].content) \in Seq(Id)
          /\ Says(Capped(d.art[o.id].content)) \subseteq Says(d.art[o.id].content)
      BY <3>1, CapLeaves
    <3>3. D \in Seq(Id) /\ Says(D) = Says(Capped(d.art[o.id].content)) \cup Says(C)
      BY <3>2, SaysMore
    <3>. HIDE DEF D
    <3>. QED
      BY <3>2, <3>3
  <2>. HIDE DEF D
  <2>12a. \A u \in Says(D) : u = n \/ Here(b, u)
    <3>1. \A u \in Says(d.art[o.id].content) : u \in Id /\ Here(d, u)
      BY <2>2, <2>4, TablesTypes DEF Whole
    <3>2. \A u \in Id : Here(d, u) => Here(b, u)
      BY <2>7, <2>10 DEF Here
    <3>3. \A u \in Says(C) : u \in Id /\ (u = n \/ Here(d, u))
      BY SaysIds
    <3>. QED
      BY <3>1, <3>2, <3>3, <2>12
  <2>13. /\ Calls(b, filed)
         /\ Grown(b, Last(filed), n, {}, Says(D)) /\ Last(filed).art[n].content = D
         /\ Synced(b) => Synced(Last(filed))
         /\ Heir(b, Last(filed), n, {}) /\ Last(filed).art[n].pin = o.pin
    <3>1. Whole(b) /\ ~Here(b, n) /\ o.pin \in Day \cup {NoDay} /\ D \in Seq(Id)
      BY <2>4, <2>9, <2>11, <2>12
    <3>. DEFINE p == o.pin
    <3>2. Whole(b) /\ ~Here(b, n) /\ p \in Day \cup {NoDay} /\ D \in Seq(Id)
      BY <3>1
    <3>3. Refers(b, n, D)
      BY <2>12a DEF Refers
    <3>. HIDE DEF p
    <3>4. Filed(b, n, s, p, D)
      BY <3>2, <3>3, FileCalls
    <3>. QED
      BY <3>4 DEF p, Filed
  <2>. HIDE DEF filed
  <2>14. Calls(d, <<a, b>>) /\ Last(<<a, b>>) = b
    BY <2>6, <2>9, CallsTwo
  <2>15. Calls(d, <<a, b>> \o filed) /\ Last(<<a, b>> \o filed) = Last(filed)
    BY <2>13, <2>14, CallsMore
  <2>16. Grown(d, Last(filed), n, {o.id}, Says(C))
    <3>1. {o.id} \subseteq Id \ {n}
      BY <2>4, <2>5
    <3>2. UNION {Says(d.art[j].content) : j \in {o.id}} = Says(d.art[o.id].content)
      OBVIOUS
    <3>3. \A j \in Id \ {n} :
             /\ Last(filed).art[j].status = IF j \in {o.id} THEN "discarded" ELSE d.art[j].status
             /\ Last(filed).art[j].content = d.art[j].content
      BY <2>7, <2>10, <2>13 DEF Grown
    <3>4. Last(filed).art[n].status = "pending"
      BY <2>13 DEF Grown
    <3>. QED
      BY <3>1, <3>2, <3>3, <3>4, <2>12, <2>13 DEF Grown
  <2>17. Synced(d) => \A j \in {o.id} : d.art[j].status = "pending"
    BY <2>4 DEF Synced
  <2>18. Synced(d) => Synced(b)
    <3>1. SUFFICES ASSUME Synced(d), NEW x \in Entry
                   PROVE  x \in b.listed <=> /\ b.art[x.id].status = "pending"
                                             /\ x.priority = b.art[x.id].priority
                                             /\ x.pin = b.art[x.id].pin
      BY DEF Synced
    <3>2. \A y \in Entry : y \in d.listed <=> /\ d.art[y.id].status = "pending"
                                              /\ y.priority = d.art[y.id].priority
                                              /\ y.pin = d.art[y.id].pin
      BY <3>1 DEF Synced
    <3>3. o.priority = d.art[o.id].priority
      BY <3>2, <2>4
    <3>4. x.id \in Id
      BY DEF Entry
    <3>. QED
      BY <3>2, <3>3, <3>4, <2>7, <2>10
  <2>19. Synced(d) => Heir(d, Last(filed), n, {o.id})
    <3>1. Synced(d) => o.pin = d.art[o.id].pin
      BY <2>4 DEF Synced
    <3>. QED
      BY <3>1, <2>7, <2>10, <2>13 DEF Heir
  <2>20. Succeeds(d, Last(filed), n, {}, Says(C))
    <3>1. {o.id} \cup {} = {o.id} /\ {o.id} \in SUBSET Id
      BY <2>4
    <3>. QED
      BY <3>1, <2>16, <2>17, <2>19 DEF Succeeds
  <2>. QED
    BY <2>1, <2>13, <2>15, <2>18, <2>20
<1>. QED
  BY <1>1, <1>2

\* The call of a crawl, with a text of one update.
LEMMA CrawlCalls ==
  ASSUME NEW d, Whole(d), NEW n \in Id, ~Here(d, n), NEW s \in Service \cup {NoService}
  PROVE  /\ Calls(d, Insert(d, n, s, <<n>>))
         /\ Succeeds(d, Last(Insert(d, n, s, <<n>>)), n, {}, {n})
         /\ Synced(d) => Synced(Last(Insert(d, n, s, <<n>>)))
<1>. DEFINE C == <<n>>
<1>1. C \in Seq(Id) /\ Says(C) = {n}
  BY SaysOne
<1>. HIDE DEF C
<1>2. \A u \in Says(C) : u = n \/ Here(d, u)
  BY <1>1
<1>3. /\ Calls(d, Insert(d, n, s, C))
      /\ Succeeds(d, Last(Insert(d, n, s, C)), n, {}, Says(C))
      /\ Synced(d) => Synced(Last(Insert(d, n, s, C)))
  BY <1>1, <1>2, InsertCalls
<1>. QED
  BY <1>1, <1>3 DEF C

-----------------------------------------------------------------------------
(* The slate.                                                              *)

Apart(d, p, o) ==
    /\ p.slot # o.slot
    /\ ~(p.lane = "human" /\ o.lane = "human")
    /\ d.art[p.id].service = d.art[o.id].service => d.art[p.id].service = NoService

Seated(d) == \A i \in Id : d.art[i].status = "selected" => \E r \in d.slate : r.id = i

Distinct(d) ==
    \A r \in d.slate, o \in d.slate :
        r # o => r.id # o.id /\ (r.day = o.day => Apart(d, r, o))

Tidy(d) == Seated(d) /\ Distinct(d)

LEMMA QuietTidy ==
  ASSUME NEW d, NEW e, Whole(d), Tidy(d), Quiet(d, e)
  PROVE  Tidy(e)
<1>1. \A r \in d.slate : r.id \in Id /\ Here(d, r.id)
  BY TablesTypes DEF Whole
<1>2. \A r \in d.slate : e.art[r.id].service = d.art[r.id].service
  BY <1>1 DEF Quiet, Lasting
<1>3. Seated(e)
  BY DEF Quiet, Tidy, Seated
<1>4. Distinct(e)
  BY <1>2 DEF Quiet, Tidy, Distinct, Apart
<1>. QED
  BY <1>3, <1>4 DEF Tidy

\* A step of the slate alone.
LEMMA SlateWhole ==
  ASSUME NEW d, Whole(d), NEW e \in Tables, e.art = d.art, e.listed = d.listed,
         \A r \in e.slate : Here(d, r.id)
  PROVE  Whole(e) /\ Lasting(d, e)
<1>1. \A i : Here(e, i) <=> Here(d, i)
  BY DEF Here
<1>. QED
  BY <1>1 DEF Whole, Lasting

\* An artifact marked selected.
LEMMA SelectedWhole ==
  ASSUME NEW d, Whole(d), NEW i \in Id, NEW e, e = SetStatus(d, i, "selected")
  PROVE  Whole(e) /\ Lasting(d, e)
<1>1. d \in Tables /\ "selected" \in Status
  BY DEF Whole, Status
<1>2. /\ e \in Tables /\ e.listed = d.listed /\ e.slate = d.slate
      /\ \A j \in Id : /\ e.art[j].status = IF j = i THEN "selected" ELSE d.art[j].status
                       /\ e.art[j].service = d.art[j].service
                       /\ e.art[j].content = d.art[j].content
  BY <1>1, StatusSet
<1>3. Lasting(d, e)
  BY <1>2 DEF Lasting, Here
<1>4. \A r \in d.listed : r.id \in Id /\ Here(d, r.id)
  BY <1>1, TablesTypes DEF Whole
<1>5. \A r \in e.listed : Here(e, r.id)
  BY <1>2, <1>3, <1>4 DEF Lasting
<1>6. \A j \in Id : \A u \in Says(d.art[j].content) : u \in Id /\ Here(d, u)
  BY <1>1, TablesTypes DEF Whole
<1>7. \A j \in Id : \A u \in Says(e.art[j].content) : Here(e, u)
  BY <1>2, <1>3, <1>6 DEF Lasting
<1>8. Keyed(e.listed)
  BY <1>2 DEF Whole
<1>. QED
  BY <1>2, <1>3, <1>5, <1>7, <1>8, WholeSlate

RowOf(p, day) == [day |-> day, slot |-> p.slot, id |-> p.id, lane |-> p.lane]

\* What a pick needs to be seated.
Fits(d, p, day) ==
    /\ d.art[p.id].status = "pending"
    /\ \A r \in SlateOf(d, day) : r.slot # p.slot /\ (r.id # p.id => Apart(d, p, r))

\* _insert_slot.
LEMMA InsertSlotCalls ==
  ASSUME NEW d, Whole(d), NEW p \in Pick, Here(d, p.id), NEW day \in Day,
         NEW steps, steps = InsertSlot(d, p, day)
  PROVE  /\ steps \in Seq(Tables) /\ steps # <<>>
         /\ \A e \in Range(steps) : /\ Whole(e) /\ Lasting(d, e)
                                    /\ Tidy(d) /\ Fits(d, p, day) => Tidy(e)
         /\ Marked(d, Last(steps), p.id, "selected")
         /\ SlateOf(Last(steps), day) =
              {r \in SlateOf(d, day) : r.id # p.id /\ r.slot # p.slot} \cup {RowOf(p, day)}
         /\ Synced(d) => Synced(Last(steps))
         /\ SamePins(d, Last(steps))
         /\ \A r \in Last(steps).slate : r = RowOf(p, day) \/ (r \in d.slate /\ r.id # p.id)
<1>. DEFINE row == RowOf(p, day)
            a == Cleared(d, RowsOf(d, p.id))
            b == [a EXCEPT !.slate = {r \in @ : ~(r.day = day /\ r.slot = p.slot)}
                    \cup {[day |-> day, slot |-> p.slot, id |-> p.id, lane |-> p.lane]}]
            c == SetStatus(b, p.id, "selected")
            e == Unlisted(c, p.id, d.art[p.id].priority)
<1>0. d \in Tables /\ p.id \in Id /\ p.slot \in Slot /\ p.lane \in Lane
  BY DEF Whole, Pick
<1>1. row \in Row /\ row.day = day /\ row.id = p.id /\ row.slot = p.slot /\ row.lane = p.lane
  BY <1>0 DEF Row, RowOf
<1>2. /\ a \in Tables /\ a.art = d.art /\ a.listed = d.listed
      /\ a.slate = {r \in d.slate : r.id # p.id}
  BY <1>0, ClearedSet DEF RowsOf
<1>3. a.slate \subseteq Row
  BY <1>2, TablesTypes
<1>. HIDE DEF a
<1>4. /\ b \in Tables /\ b.art = d.art /\ b.listed = d.listed
      /\ b.slate = {r \in a.slate : ~(r.day = day /\ r.slot = p.slot)} \cup {row}
  BY <1>1, <1>2, <1>3 DEF Tables, RowOf
<1>. HIDE DEF b
<1>5. Whole(a) /\ Lasting(d, a)
  <2>1. \A r \in a.slate : Here(d, r.id)
    BY <1>2 DEF Whole
  <2>. QED
    BY <2>1, <1>2, SlateWhole
<1>6. Whole(b) /\ Lasting(d, b)
  <2>1. \A r \in b.slate : Here(d, r.id)
    BY <1>1, <1>2, <1>4 DEF Whole
  <2>. QED
    BY <2>1, <1>4, SlateWhole
<1>7. Whole(c) /\ Lasting(d, c)
  BY <1>0, <1>6, SelectedWhole, LastingOn
<1>8. /\ c \in Tables /\ c.listed = d.listed /\ c.slate = b.slate
      /\ \A j \in Id : /\ c.art[j].status = IF j = p.id THEN "selected" ELSE d.art[j].status
                       /\ c.art[j].service = d.art[j].service
                       /\ c.art[j].priority = d.art[j].priority
                       /\ c.art[j].pin = d.art[j].pin
                       /\ c.art[j].content = d.art[j].content
  <2>1. "selected" \in Status
    BY DEF Status
  <2>. QED
    BY <2>1, <1>0, <1>4, StatusSet
<1>. HIDE DEF c
<1>9. Quiet(c, e)
  BY <1>7, UnlistedQuiet
<1>10. /\ e \in Tables /\ e.art = c.art /\ e.slate = c.slate
       /\ e.listed = {r \in d.listed : ~(r.id = p.id /\ r.priority = d.art[p.id].priority)}
  BY <1>8, UnlistedSet
<1>11. Whole(e) /\ Lasting(d, e)
  BY <1>7, <1>9, LastingOn DEF Quiet
<1>. HIDE DEF e
<1>12. ASSUME Tidy(d), Fits(d, p, day)
       PROVE  Tidy(a) /\ Tidy(b) /\ Tidy(c) /\ Tidy(e)
  <2>1. d.art[p.id].status = "pending" /\ \A r \in d.slate : r.day = day => r.slot # p.slot
    BY <1>12 DEF Fits, SlateOf
  <2>2. a.slate \subseteq d.slate /\ \A r \in d.slate : r.id # p.id => r \in a.slate
    BY <1>2
  <2>3. Seated(a)
    BY <1>2, <1>12, <2>1, <2>2 DEF Tidy, Seated
  <2>4. Distinct(a)
    BY <1>2, <1>12, <2>2 DEF Tidy, Distinct, Apart
  <2>5. b.slate = a.slate \cup {row}
    BY <1>4, <2>1, <2>2
  <2>6. Seated(b)
    BY <2>3, <2>5, <1>2, <1>4 DEF Seated
  <2>7. \A r \in a.slate : r.id # p.id /\ (r.day = day => Apart(d, p, r))
    BY <1>2, <1>12 DEF Fits, SlateOf
  <2>8. \A r \in a.slate : r.id # row.id /\ (r.day = row.day => Apart(b, r, row) /\ Apart(b, row, r))
    BY <2>7, <1>1, <1>4 DEF Apart
  <2>9. Distinct(b)
    <3>1. \A r \in a.slate, o \in a.slate : Apart(a, r, o) => Apart(b, r, o)
      BY <1>2, <1>4 DEF Apart
    <3>. QED
      BY <3>1, <2>4, <2>5, <2>8 DEF Distinct
  <2>10. Seated(c)
    <3>1. SUFFICES ASSUME NEW i \in Id, c.art[i].status = "selected"
                   PROVE  \E r \in c.slate : r.id = i
      BY DEF Seated
    <3>2. CASE i = p.id
      BY <3>2, <1>1, <1>8, <2>5
    <3>3. CASE i # p.id
      BY <3>1, <3>3, <1>4, <1>8, <2>6 DEF Seated
    <3>. QED
      BY <3>2, <3>3
  <2>11. Distinct(c)
    <3>1. \A r \in b.slate : r.id \in Id
      BY <1>4, TablesTypes
    <3>2. \A r \in b.slate, o \in b.slate : Apart(b, r, o) => Apart(c, r, o)
      BY <3>1, <1>4, <1>8 DEF Apart
    <3>. QED
      BY <3>2, <2>9, <1>8 DEF Distinct
  <2>12. Tidy(e)
    BY <2>10, <2>11, <1>7, <1>9, QuietTidy DEF Tidy
  <2>. QED
    BY <2>3, <2>4, <2>6, <2>9, <2>10, <2>11, <2>12 DEF Tidy
<1>13. /\ Marked(d, c, p.id, "selected") /\ Marked(d, e, p.id, "selected")
       /\ SamePins(d, c) /\ SamePins(d, e)
  BY <1>8, <1>10 DEF Marked, SamePins
<1>14. SlateOf(b, day) = {r \in SlateOf(d, day) : r.id # p.id /\ r.slot # p.slot} \cup {row}
  BY <1>1, <1>2, <1>4 DEF SlateOf
<1>15. SlateOf(c, day) = SlateOf(b, day) /\ SlateOf(e, day) = SlateOf(b, day)
  BY <1>8, <1>10 DEF SlateOf
<1>20. \A r \in c.slate \cup e.slate : r = row \/ (r \in d.slate /\ r.id # p.id)
  BY <1>2, <1>4, <1>8, <1>10
<1>. DEFINE seats == <<a, b>>
<1>16. seats \in Seq(Tables) /\ seats # <<>> /\ Range(seats) = {a, b}
  BY <1>2, <1>4, TwoStatements
<1>17. \A x \in Entry : x.id \in Id
  BY DEF Entry
<1>18. CASE d.art[p.id].status # "pending"
  <2>. DEFINE marks == <<c>>
  <2>1. steps = seats \o marks
    BY <1>4, <1>18 DEF InsertSlot, Mark, a, b, c
  <2>2. marks \in Seq(Tables) /\ marks # <<>> /\ Last(marks) = c /\ Range(marks) = {c}
    BY <1>8, OneStatement
  <2>. HIDE DEF seats, marks
  <2>3. steps \in Seq(Tables) /\ steps # <<>> /\ Last(steps) = c /\ Range(steps) = {a, b, c}
    BY <2>1, <2>2, <1>16, MoreStatements
  <2>4. Synced(d) => Synced(c)
    BY <1>8, <1>17, <1>18 DEF Synced
  <2>. QED
    BY <2>3, <2>4, <1>5, <1>6, <1>7, <1>12, <1>13, <1>14, <1>15, <1>20
<1>19. CASE d.art[p.id].status = "pending"
  <2>. DEFINE marks == <<c, e>>
  <2>1. steps = seats \o marks
    BY <1>4, <1>19 DEF InsertSlot, Mark, a, b, c, e
  <2>2. /\ marks \in Seq(Tables) /\ marks # <<>>
        /\ Last(marks) = e /\ Range(marks) = {c, e}
    BY <1>8, <1>10, TwoStatements
  <2>. HIDE DEF seats, marks
  <2>3. steps \in Seq(Tables) /\ steps # <<>> /\ Last(steps) = e /\ Range(steps) = {a, b, c, e}
    BY <2>1, <2>2, <1>16, MoreStatements
  <2>4. Synced(d) => Synced(e)
    <3>1. SUFFICES ASSUME Synced(d), NEW x \in Entry
                   PROVE  x \in e.listed <=> /\ e.art[x.id].status = "pending"
                                             /\ x.priority = e.art[x.id].priority
                                             /\ x.pin = e.art[x.id].pin
      BY DEF Synced
    <3>2. x \in d.listed <=> /\ d.art[x.id].status = "pending"
                             /\ x.priority = d.art[x.id].priority
                             /\ x.pin = d.art[x.id].pin
      BY <3>1 DEF Synced
    <3>. QED
      BY <3>2, <1>8, <1>10, <1>17, <1>19
  <2>. QED
    BY <2>3, <2>4, <1>5, <1>6, <1>7, <1>11, <1>12, <1>13, <1>14, <1>15, <1>20
<1>. QED
  BY <1>18, <1>19

-----------------------------------------------------------------------------
(* The selection.                                                          *)

LEMMA EntryFinite == IsFiniteSet(Entry)
<1>. DEFINE Pins  == Day \cup {NoDay}
            Keys  == Id \X Priority
            Cells == Keys \X Pins
            f == [x \in Cells |-> [id |-> x[1][1], priority |-> x[1][2], pin |-> x[2]]]
<1>1. IsFiniteSet(Id) /\ IsFiniteSet(Priority)
  BY BoundAssumption, FS_Interval DEF Id, Priority
<1>2. IsFiniteSet(Pins)
  <2>1. IsFiniteSet(Day)
    BY BoundAssumption, FS_Interval DEF Day
  <2>. QED
    BY <2>1, FS_AddElement
<1>3. IsFiniteSet(Keys)
  BY <1>1, FS_Product
<1>4. IsFiniteSet(Cells)
  <2>. HIDE DEF Keys, Pins
  <2>. QED
    BY <1>2, <1>3, FS_Product
<1>5. f \in [Cells -> Entry]
  BY DEF Entry
<1>6. ASSUME NEW e \in Entry PROVE \E x \in Cells : f[x] = e
  <2>1. <<<<e.id, e.priority>>, e.pin>> \in Cells
    BY DEF Entry
  <2>2. f[<<<<e.id, e.priority>>, e.pin>>] = e
    BY <2>1 DEF Entry
  <2>. QED
    BY <2>1, <2>2
<1>7. f \in Surjection(Cells, Entry)
  BY <1>5, <1>6 DEF Surjection
<1>. QED
  BY <1>4, <1>7, FS_Surjection

LEMMA RanksRise ==
  ASSUME NEW S \in SUBSET Entry, NEW a \in S, NEW b \in S, Ahead(a, b)
  PROVE  Cardinality({o \in S : Ahead(o, a)}) < Cardinality({o \in S : Ahead(o, b)})
<1>. DEFINE A == {o \in S : Ahead(o, a)}
            B == {o \in S : Ahead(o, b)}
<1>1. \A o \in S : o.priority \in Int /\ o.id \in Int
  BY BoundAssumption DEF Entry, Priority, Id
<1>2. A \subseteq B /\ a \in B /\ a \notin A
  BY <1>1 DEF Ahead
<1>3. IsFiniteSet(B)
  BY EntryFinite, FS_Subset
<1>. HIDE DEF A, B
<1>4. Cardinality(A) <= Cardinality(B) /\ Cardinality(A) # Cardinality(B)
  BY <1>2, <1>3, FS_Subset
<1>5. Cardinality(A) \in Nat /\ Cardinality(B) \in Nat
  BY <1>2, <1>3, FS_Subset, FS_CardinalityType
<1>6. Cardinality(A) < Cardinality(B)
  BY <1>4, <1>5
<1>. QED
  BY <1>6 DEF A, B

LEMMA RanksDiffer ==
  ASSUME NEW S \in SUBSET Entry, Keyed(S), NEW a \in S, NEW b \in S, a # b
  PROVE  Cardinality({o \in S : Ahead(o, a)}) # Cardinality({o \in S : Ahead(o, b)})
<1>1. /\ a.priority \in Int /\ a.id \in Int /\ b.priority \in Int /\ b.id \in Int
  BY BoundAssumption DEF Entry, Priority, Id
<1>2. ~(a.id = b.id /\ a.priority = b.priority)
  BY DEF Keyed
<1>3. Ahead(a, b) \/ Ahead(b, a)
  BY <1>1, <1>2 DEF Ahead
<1>. DEFINE m == Cardinality({o \in S : Ahead(o, a)})
            n == Cardinality({o \in S : Ahead(o, b)})
<1>4. m < n \/ n < m
  BY <1>3, RanksRise
<1>5. m \in Nat /\ n \in Nat
  BY EntryFinite, FS_Subset, FS_CardinalityType
<1>. HIDE DEF m, n
<1>6. m # n
  BY <1>4, <1>5
<1>. QED
  BY <1>6 DEF m, n

LEMMA BestFew ==
  ASSUME NEW S \in SUBSET Entry, NEW n \in Nat, NEW r \in Best(S, n)
  PROVE  Cardinality({o \in Best(S, n) : Ahead(o, r)}) \in 0..(n - 1)
<1>. DEFINE A == {o \in S : Ahead(o, r)}
            B == {o \in Best(S, n) : Ahead(o, r)}
<1>1. Cardinality(A) < n /\ Best(S, n) \subseteq S
  BY DEF Best
<1>2. IsFiniteSet(A) /\ B \subseteq A
  BY <1>1, EntryFinite, FS_Subset
<1>. HIDE DEF A, B
<1>3. IsFiniteSet(B) /\ Cardinality(B) <= Cardinality(A)
  BY <1>2, FS_Subset
<1>4. Cardinality(A) \in Nat /\ Cardinality(B) \in Nat
  BY <1>2, <1>3, FS_CardinalityType
<1>5. Cardinality(B) \in 0..(n - 1)
  BY <1>1, <1>3, <1>4
<1>. QED
  BY <1>5 DEF B

LEMMA BestOne ==
  ASSUME NEW S \in SUBSET Entry, Keyed(S)
  PROVE  Best(S, 1) = {} \/ \E a \in S : Best(S, 1) = {a}
<1>1. ASSUME NEW a \in Best(S, 1), NEW b \in Best(S, 1), a # b PROVE FALSE
  <2>. DEFINE m == Cardinality({o \in S : Ahead(o, a)})
              n == Cardinality({o \in S : Ahead(o, b)})
  <2>1. m < 1 /\ n < 1 /\ a \in S /\ b \in S
    BY DEF Best
  <2>2. m # n
    BY <1>1, <2>1, RanksDiffer
  <2>3. m \in Nat /\ n \in Nat
    BY EntryFinite, FS_Subset, FS_CardinalityType
  <2>. HIDE DEF m, n
  <2>. QED
    BY <2>1, <2>2, <2>3
<1>2. Best(S, 1) \subseteq S
  BY DEF Best
<1>. QED
  BY <1>1, <1>2

\* The plan of a day: picks of what is there that no two can clash over.
LEMMA PlanPicks ==
  ASSUME NEW d, Whole(d), NEW day
  PROVE  /\ Plan(d, day) \subseteq Pick
         /\ \A p \in Plan(d, day) : Here(d, p.id)
         /\ \A p \in Plan(d, day), o \in Plan(d, day) : p # o => Apart(d, p, o)
<1>. DEFINE H == HumanPick(d, day)
            h == Cardinality(H)
            n == SlotsPerDay - h
            P == PlatformPicks(d, H, n)
            rank(r) == Cardinality({o \in P : Ahead(o, r)})
            top(r)  == [slot |-> 0, id |-> r.id, lane |-> "human"]
            fill(r) == [slot |-> h + rank(r), id |-> r.id, lane |-> "platform"]
<1>1. d.listed \in SUBSET Entry /\ Keyed(d.listed) /\ \A r \in d.listed : Here(d, r.id)
  BY TablesTypes DEF Whole
<1>2. H \subseteq d.listed /\ (H = {} \/ \E a : H = {a})
  <2>. DEFINE pinned == {r \in d.listed : r.pin = day}
  <2>1. pinned \in SUBSET Entry /\ Keyed(pinned) /\ H = Best(pinned, 1)
    BY <1>1 DEF Keyed, HumanPick
  <2>2. H = {} \/ \E a \in pinned : H = {a}
    BY <2>1, BestOne
  <2>. QED
    BY <2>2
<1>3. h \in {0, 1} /\ (H # {} => h = 1)
  BY <1>2, FS_EmptySet, FS_Singleton
<1>4. n \in Nat /\ h + n = SlotsPerDay
  BY <1>3, SlotAssumption
<1>5. PICK X \in SUBSET Eligible(d, H) : P = Best(X, n)
  BY DEF PlatformPicks
<1>6. Plan(d, day) = {top(r) : r \in H} \cup {fill(r) : r \in P}
  BY DEF Plan
<1>. HIDE DEF H, h, n, P
<1>7. X \in SUBSET Entry /\ P \subseteq X /\ X \subseteq d.listed
  BY <1>1, <1>5 DEF Eligible, Free, Best
<1>8. \A r \in P : rank(r) \in 0..(n - 1)
  BY <1>4, <1>5, <1>7, BestFew
<1>9. \A r \in P, o \in P : r # o => rank(r) # rank(o)
  <2>1. P \in SUBSET Entry /\ Keyed(P)
    BY <1>1, <1>7 DEF Keyed
  <2>. QED
    BY <2>1, RanksDiffer
<1>10. \A r \in P, a \in H : r.id # a.id
         /\ (d.art[r.id].service = d.art[a.id].service => d.art[r.id].service = NoService)
  BY <1>5, <1>7 DEF Eligible, Free
<1>11. \A r \in P, o \in P : r # o /\ d.art[r.id].service = d.art[o.id].service
          => d.art[r.id].service = NoService
  <2>1. SUFFICES ASSUME NEW r \in P, NEW o \in P, r # o,
                        d.art[r.id].service = d.art[o.id].service
                 PROVE  d.art[r.id].service = NoService
    OBVIOUS
  <2>2. r \in Eligible(d, H) /\ o \in Eligible(d, H)
    BY <1>7
  <2>3. r \in Free(d, H) /\ o \in Free(d, H)
    BY <2>2 DEF Eligible
  <2>4. r \in d.listed /\ o \in d.listed
    BY <1>7
  <2>5. /\ r.priority \in Int /\ r.id \in Int /\ o.priority \in Int /\ o.id \in Int
    BY <1>1, <2>4, BoundAssumption DEF Entry, Priority, Id
  <2>6. ~(r.id = o.id /\ r.priority = o.priority)
    BY <1>1, <2>1, <2>4 DEF Keyed
  <2>7. Ahead(r, o) \/ Ahead(o, r)
    BY <2>5, <2>6 DEF Ahead
  <2>. QED
    BY <2>1, <2>2, <2>3, <2>7 DEF Eligible
<1>. HIDE DEF rank
<1>12. ASSUME NEW r \in H PROVE top(r) \in Pick /\ Here(d, top(r).id)
  <2>1. r \in Entry /\ Here(d, r.id)
    BY <1>1, <1>2
  <2>2. 0 \in Slot
    BY SlotAssumption DEF Slot
  <2>. QED
    BY <2>1, <2>2 DEF Pick, Entry, Lane
<1>13. ASSUME NEW r \in P PROVE fill(r) \in Pick /\ Here(d, fill(r).id)
  <2>1. r \in Entry /\ Here(d, r.id)
    BY <1>1, <1>7
  <2>2. h + rank(r) \in Slot
    BY <1>3, <1>4, <1>8, SlotAssumption DEF Slot
  <2>. QED
    BY <2>1, <2>2 DEF Pick, Entry, Lane
<1>14. ASSUME NEW r \in H, NEW o \in P
       PROVE  Apart(d, top(r), fill(o)) /\ Apart(d, fill(o), top(r))
  <2>1. h = 1 /\ rank(o) \in 0..(n - 1)
    BY <1>3, <1>8
  <2>2. 0 # h + rank(o)
    BY <2>1, <1>4
  <2>. QED
    BY <2>2, <1>10 DEF Apart
<1>15. ASSUME NEW r \in P, NEW o \in P, r # o PROVE Apart(d, fill(r), fill(o))
  <2>1. h + rank(r) # h + rank(o)
    BY <1>3, <1>4, <1>8, <1>9, <1>15
  <2>. QED
    BY <2>1, <1>11, <1>15 DEF Apart
<1>16. ASSUME NEW p \in Plan(d, day), NEW o \in Plan(d, day), p # o PROVE Apart(d, p, o)
  <2>1. (\E r \in H : p = top(r)) \/ (\E r \in P : p = fill(r))
    BY <1>6
  <2>2. (\E r \in H : o = top(r)) \/ (\E r \in P : o = fill(r))
    BY <1>6
  <2>. HIDE DEF top, fill
  <2>3. CASE \E r \in H : p = top(r)
    BY <2>2, <2>3, <1>2, <1>14, <1>16
  <2>4. CASE \E r \in P : p = fill(r)
    BY <2>2, <2>4, <1>14, <1>15, <1>16
  <2>. QED
    BY <2>1, <2>3, <2>4
<1>. QED
  BY <1>6, <1>12, <1>13, <1>16

\* A delete of slate rows.
LEMMA ClearedCalls ==
  ASSUME NEW d, Whole(d), NEW rows, NEW e, e = Cleared(d, rows)
  PROVE  /\ e \in Tables /\ Whole(e) /\ Lasting(d, e) /\ Unmoved(d, e)
         /\ Synced(d) => Synced(e)
         /\ SamePins(d, e) /\ e.slate = d.slate \ rows
         /\ Tidy(d) /\ (\A r \in d.slate \cap rows : d.art[r.id].status # "selected") => Tidy(e)
<1>1. d \in Tables
  BY DEF Whole
<1>2. e \in Tables /\ e.art = d.art /\ e.listed = d.listed /\ e.slate = d.slate \ rows
  BY <1>1, ClearedSet
<1>3. \A r \in e.slate : Here(d, r.id)
  BY <1>2 DEF Whole
<1>4. Whole(e) /\ Lasting(d, e)
  BY <1>2, <1>3, SlateWhole
<1>5. ASSUME Tidy(d), \A r \in d.slate \cap rows : d.art[r.id].status # "selected"
      PROVE  Tidy(e)
  <2>1. Seated(e)
    BY <1>2, <1>5 DEF Tidy, Seated
  <2>2. Distinct(e)
    BY <1>2, <1>5 DEF Tidy, Distinct, Apart
  <2>. QED
    BY <2>1, <2>2 DEF Tidy
<1>. QED
  BY <1>2, <1>4, <1>5 DEF Unmoved, Synced, SamePins

LEMMA OneCleared ==
  ASSUME NEW d, Whole(d), NEW rows, NEW steps, steps = <<Cleared(d, rows)>>
  PROVE  /\ steps \in Seq(Tables) /\ steps # <<>> /\ Last(steps) = Cleared(d, rows)
         /\ \A e \in Range(steps) :
               /\ e = Cleared(d, rows) /\ Whole(e) /\ Lasting(d, e)
               /\ Tidy(d) /\ (\A r \in d.slate \cap rows : d.art[r.id].status # "selected")
                    => Tidy(e)
<1>. DEFINE e == Cleared(d, rows)
<1>1. e \in Tables /\ Whole(e) /\ Lasting(d, e)
      /\ (Tidy(d) /\ (\A r \in d.slate \cap rows : d.art[r.id].status # "selected") => Tidy(e))
  BY ClearedCalls
<1>. HIDE DEF e
<1>2. steps = <<e>>
  BY DEF e
<1>3. steps \in Seq(Tables) /\ steps # <<>> /\ Last(steps) = e /\ Range(steps) = {e}
  BY <1>1, <1>2, OneStatement
<1>. QED
  BY <1>1, <1>3 DEF e

\* One row of reclaim_stale_selected_artifacts.
LEMMA CarryForwardCalls ==
  ASSUME Whole(db), NEW r, r.id \in Id, db.art[r.id].status = "selected",
         NEW t, OpenDays(t) # {}, Boosted(r.id) \in Priority,
         NEW steps, steps = CarryForward(t, r)
  PROVE  /\ steps \in Seq(Tables) /\ steps # <<>>
         /\ \A e \in Range(steps) : /\ Whole(e) /\ Lasting(db, e)
                                    /\ Tidy(db) => Tidy(e)
         /\ Marked(db, Last(steps), r.id, "pending")
         /\ Synced(db) => Synced(Last(steps))
         /\ Last(steps).slate = db.slate \ {r}
         /\ IF r.lane = "human" THEN PinsMoved(db, Last(steps), r.id, NextOpenDay(t))
            ELSE SamePins(db, Last(steps))
<1>. DEFINE back  == Revert(db, r.id)
            d     == Last(back)
            moved == IF r.lane = "human" THEN PinFor(d, r.id, NextOpenDay(t))
                     ELSE Reprioritise(d, r.id, Boosted(r.id))
            m     == Last(moved)
            e     == Cleared(m, {r})
            chain == back \o moved
<1>0. steps = chain \o <<e>>
  BY DEF CarryForward
<1>1. /\ Calls(db, back) /\ Marked(db, d, r.id, "pending")
      /\ Synced(db) => Synced(d)
      /\ SamePins(db, d)
  BY RevertCalls
<1>. HIDE DEF back
<1>2. Quiet(db, d) /\ Whole(d)
  BY <1>1, CallsLast DEF Quiet
<1>. HIDE DEF d
<1>3. d.art[r.id].status = "pending" /\ Here(d, r.id)
  BY <1>1 DEF Marked, Here
<1>4. /\ Calls(d, moved) /\ Unmoved(d, m) /\ (Synced(d) => Synced(m))
      /\ IF r.lane = "human" THEN PinsMoved(d, m, r.id, NextOpenDay(t)) ELSE SamePins(d, m)
  <2>1. CASE r.lane = "human"
    <3>1. NextOpenDay(t) \in Day
      BY NextOpenDayOf DEF OpenDays
    <3>2. /\ Calls(d, PinFor(d, r.id, NextOpenDay(t)))
          /\ Unmoved(d, Last(PinFor(d, r.id, NextOpenDay(t))))
          /\ Synced(d) => Synced(Last(PinFor(d, r.id, NextOpenDay(t))))
          /\ PinsMoved(d, Last(PinFor(d, r.id, NextOpenDay(t))), r.id, NextOpenDay(t))
      BY <1>2, <1>3, <3>1, PinForCalls
    <3>. QED
      BY <2>1, <3>2
  <2>2. CASE r.lane # "human"
    <3>1. /\ Calls(d, Reprioritise(d, r.id, Boosted(r.id)))
          /\ Unmoved(d, Last(Reprioritise(d, r.id, Boosted(r.id))))
          /\ Synced(d) => Synced(Last(Reprioritise(d, r.id, Boosted(r.id))))
          /\ SamePins(d, Last(Reprioritise(d, r.id, Boosted(r.id))))
      BY <1>2, <1>3, ReprioritiseCalls
    <3>. QED
      BY <2>2, <3>1
  <2>. QED
    BY <2>1, <2>2
<1>. HIDE DEF moved
<1>5. Calls(db, chain) /\ Last(chain) = m
  BY <1>1, <1>4, CallsMore DEF d
<1>6. Quiet(db, m) /\ Whole(m)
  BY <1>5, CallsLast DEF Quiet
<1>. HIDE DEF m
<1>7. /\ e \in Tables /\ Whole(e) /\ Lasting(m, e) /\ Unmoved(m, e)
      /\ Synced(m) => Synced(e)
      /\ SamePins(m, e) /\ e.slate = m.slate \ {r}
      /\ Tidy(m) /\ (\A o \in m.slate \cap {r} : m.art[o.id].status # "selected") => Tidy(e)
  BY <1>6, ClearedCalls
<1>. HIDE DEF e
<1>8. m.art[r.id].status = "pending"
  BY <1>3, <1>4 DEF Unmoved
<1>9. Lasting(db, e)
  BY <1>6, <1>7, LastingOn DEF Quiet
<1>10. Tidy(db) => Tidy(e)
  BY <1>6, <1>7, <1>8, QuietTidy
<1>11. chain \in Seq(Tables) /\ chain # <<>> /\ \A x \in Range(chain) : Quiet(db, x)
  BY <1>5 DEF Calls
<1>12. <<e>> \in Seq(Tables) /\ <<e>> # <<>> /\ Last(<<e>>) = e /\ Range(<<e>>) = {e}
  BY <1>7, OneStatement
<1>. DEFINE fin == <<e>>
<1>. HIDE DEF chain, fin
<1>13. fin \in Seq(Tables) /\ fin # <<>> /\ Last(fin) = e /\ Range(fin) = {e} /\ steps = chain \o fin
  BY <1>0, <1>12 DEF fin
<1>14. /\ steps \in Seq(Tables) /\ steps # <<>> /\ Last(steps) = e
       /\ Range(steps) = Range(chain) \cup {e}
  BY <1>11, <1>13, MoreStatements
<1>15. \A x \in Range(chain) : Whole(x) /\ Lasting(db, x) /\ (Tidy(db) => Tidy(x))
  BY <1>11, QuietTidy DEF Quiet
<1>16. Marked(db, e, r.id, "pending")
  BY <1>1, <1>4, <1>7 DEF Marked, Unmoved
<1>17. IF r.lane = "human" THEN PinsMoved(db, e, r.id, NextOpenDay(t)) ELSE SamePins(db, e)
  <2>1. CASE r.lane = "human"
    <3>1. PinsMoved(d, m, r.id, NextOpenDay(t))
      BY <1>4, <2>1
    <3>2. \A j \in Id \ {r.id} : d.art[j].status = db.art[j].status
      BY <1>1 DEF Marked
    <3>3. PinsMoved(db, e, r.id, NextOpenDay(t))
      BY <3>1, <3>2, <1>1, <1>7 DEF PinsMoved, SamePins
    <3>. QED
      BY <2>1, <3>3
  <2>2. CASE r.lane # "human"
    <3>1. SamePins(db, e)
      BY <2>2, <1>1, <1>4, <1>7 DEF SamePins
    <3>. QED
      BY <2>2, <3>1
  <2>. QED
    BY <2>1, <2>2
<1>18. e.slate = db.slate \ {r}
  BY <1>6, <1>7 DEF Quiet
<1>. QED
  BY <1>1, <1>4, <1>7, <1>9, <1>10, <1>14, <1>15, <1>16, <1>17, <1>18

-----------------------------------------------------------------------------
(* What a task has read stays true enough to act on.                       *)

Known(d, p, j) ==
    /\ \A r \in j.rows : Here(d, r.id)
    /\ \A r \in j.seen : Here(d, r.id)
    /\ \A r \in j.plan : Here(d, r.id)
    /\ \A i \in j.ids : Here(d, i)
    /\ p \in {"weigh", "compose", "dead"} => j.id \in Id /\ Here(d, j.id)
    /\ p \in {"drain", "reclaim"} => j.rows # {}
    /\ p = "merge" => j.ids # {}
    /\ p = "place" => j.plan # {}

\* The rest of a selection can still be seated, next to what it has seated.
PlanSound(d, j) ==
    /\ \A p \in j.plan, o \in j.plan : p # o => Apart(d, p, o)
    /\ \A p \in j.plan, r \in j.seen : r.slot # p.slot /\ (r.id # p.id => Apart(d, p, r))

Planned(d, p, j) ==
    /\ p = "clear" => j.seen = {}
    /\ p = "place" => PlanSound(d, j)

\* The inductive invariant behind TypeOK and SlatesAgree.
Room ==
    /\ TypeOK
    /\ Whole(db)
    /\ \A t \in Task : Known(db, pc[t], job[t])
    /\ ~stale => Tidy(db) /\ \A t \in Task : Planned(db, pc[t], job[t])

Moves(t, p, j) ==
    /\ p \in PC /\ pc' = [pc EXCEPT ![t] = p]
    /\ j \in Job /\ job' = [job EXCEPT ![t] = j]
    /\ Whole(db') /\ Lasting(db, db') /\ Known(db', p, j)
    /\ ~stale' => Tidy(db') /\ Planned(db', p, j)

\* What every step of a task comes to.
Settled(t) ==
    /\ \E p \in PC, j \in Job : Moves(t, p, j)
    /\ failures' \in 0..MaxFailures
    /\ stale' \in BOOLEAN /\ (stale => stale')

LEMMA JobTypes ==
  ASSUME NEW j \in Job
  PROVE  /\ j.day \in Day /\ j.then \in {"idle", "drain"} /\ j.rows \subseteq Row
         /\ j.plan \subseteq Pick /\ j.id \in Id \cup {0} /\ j.seen \subseteq Row
         /\ j.service \in Service \cup {NoService} /\ j.ids \subseteq Id
         /\ j.claimed \subseteq Day
         /\ \A r \in j.rows \cup j.seen : r.id \in Id
         /\ \A r \in j.plan : r.id \in Id
BY DEF Job, Row, Pick

LEMMA NoJobKnown ==
  /\ NoJob \in Job
  /\ \A d : Known(d, "idle", NoJob) /\ Planned(d, "idle", NoJob)
BY BoundAssumption DEF NoJob, Job, Day, Known, Planned

LEMMA KnownLasts ==
  ASSUME NEW d, NEW e, Lasting(d, e), NEW p, NEW j \in Job, Known(d, p, j)
  PROVE  /\ Known(e, p, j)
         /\ Planned(d, p, j) => Planned(e, p, j)
<1>1. \A i \in Id : Here(d, i) => Here(e, i) /\ e.art[i].service = d.art[i].service
  BY DEF Lasting
<1>2. Known(e, p, j)
  BY <1>1, JobTypes DEF Known
<1>3. \A r \in j.plan \cup j.seen : e.art[r.id].service = d.art[r.id].service
  BY <1>1, JobTypes DEF Known
<1>4. Planned(d, p, j) => Planned(e, p, j)
  BY <1>3 DEF Planned, PlanSound, Apart
<1>. QED
  BY <1>2, <1>4

LEMMA StaleSettles ==
  ASSUME Room, NEW what, what \in BOOLEAN, StaleIf(what)
  PROVE  stale' \in BOOLEAN /\ (stale => stale') /\ (what => stale')
BY DEF Room, TypeOK, StaleIf

\* A task's calls, whole or broken off.
LEMMA MakesMoves ==
  ASSUME Room, NEW t \in Task, NEW steps, NEW next \in PC, NEW task \in Job,
         Makes(t, steps, next, task),
         stale' \in BOOLEAN, stale => stale',
         steps \in Seq(Tables), steps # <<>>,
         \A e \in Range(steps) : Whole(e) /\ Lasting(db, e) /\ (~stale' => Tidy(e)),
         next # "idle" => /\ Known(Last(steps), next, task)
                          /\ ~stale' => Planned(Last(steps), next, task)
  PROVE  Settled(t)
<1>1. "idle" \in PC /\ failures \in 0..MaxFailures
  BY DEF PC, Room, TypeOK
<1>2. Last(steps) \in Range(steps)
  BY LastInRange
<1>3. CASE db' = Last(steps) /\ Goto(t, next, task) /\ UNCHANGED failures
  <2>1. Whole(db') /\ Lasting(db, db') /\ (~stale' => Tidy(db'))
    BY <1>2, <1>3
  <2>2. CASE next = "idle"
    <3>1. pc' = [pc EXCEPT ![t] = "idle"] /\ job' = [job EXCEPT ![t] = NoJob]
      BY <1>3, <2>2 DEF Goto
    <3>2. Moves(t, "idle", NoJob)
      BY <1>1, <2>1, <3>1, NoJobKnown DEF Moves
    <3>. QED
      BY <1>1, <1>3, <3>2, NoJobKnown DEF Settled
  <2>3. CASE next # "idle"
    <3>1. pc' = [pc EXCEPT ![t] = next] /\ job' = [job EXCEPT ![t] = task]
      BY <1>3, <2>3 DEF Goto
    <3>2. Moves(t, next, task)
      BY <1>3, <2>1, <2>3, <3>1 DEF Moves
    <3>. QED
      BY <1>1, <1>3, <3>2 DEF Settled
  <2>. QED
    BY <2>2, <2>3
<1>4. CASE db' \in {db} \cup Range(steps) /\ Dies(t)
  <2>1. Whole(db') /\ Lasting(db, db') /\ (~stale' => Tidy(db'))
    BY <1>4, LastingSelf DEF Room
  <2>2. pc' = [pc EXCEPT ![t] = "idle"] /\ job' = [job EXCEPT ![t] = NoJob]
    BY <1>4 DEF Dies, Goto
  <2>3. Moves(t, "idle", NoJob)
    BY <1>1, <2>1, <2>2, NoJobKnown DEF Moves
  <2>4. failures' \in 0..MaxFailures
    BY <1>1, <1>4, BoundAssumption DEF Dies
  <2>. QED
    BY <1>1, <2>3, <2>4, NoJobKnown DEF Settled
<1>. QED
  BY <1>3, <1>4 DEF Makes

LEMMA QuietMoves ==
  ASSUME Room, NEW t \in Task, NEW steps, NEW next \in PC \ {"clear", "place"},
         NEW task \in Job, Makes(t, steps, next, task),
         stale' \in BOOLEAN, stale => stale', Calls(db, steps),
         next # "idle" => Known(db, next, task)
  PROVE  Settled(t)
<1>1. \A e \in Range(steps) : Quiet(db, e)
  BY DEF Calls
<1>2. \A e \in Range(steps) : Whole(e) /\ Lasting(db, e) /\ (~stale' => Tidy(e))
  BY <1>1, QuietTidy DEF Room, Quiet
<1>3. steps \in Seq(Tables) /\ steps # <<>>
  BY DEF Calls
<1>4. next # "idle" => /\ Known(Last(steps), next, task)
                       /\ ~stale' => Planned(Last(steps), next, task)
  BY <1>2, <1>3, LastInRange, KnownLasts DEF Planned
<1>. QED
  BY <1>2, <1>3, <1>4, MakesMoves

LEMMA ReadsMoves ==
  ASSUME Room, NEW t \in Task, NEW next \in PC, NEW task \in Job, Reads(t, next, task),
         stale' \in BOOLEAN, stale => stale',
         next # "idle" => Known(db, next, task) /\ (~stale' => Planned(db, next, task))
  PROVE  Settled(t)
<1>1. "idle" \in PC /\ failures \in 0..MaxFailures
  BY DEF PC, Room, TypeOK
<1>2. db' = db /\ failures' = failures /\ Goto(t, next, task)
  BY DEF Reads
<1>3. Whole(db') /\ Lasting(db, db') /\ (~stale' => Tidy(db'))
  BY <1>2, LastingSelf DEF Room
<1>4. CASE next = "idle"
  <2>1. pc' = [pc EXCEPT ![t] = "idle"] /\ job' = [job EXCEPT ![t] = NoJob]
    BY <1>2, <1>4 DEF Goto
  <2>2. Moves(t, "idle", NoJob)
    BY <1>1, <1>3, <2>1, NoJobKnown DEF Moves
  <2>. QED
    BY <1>1, <1>2, <2>2, NoJobKnown DEF Settled
<1>5. CASE next # "idle"
  <2>1. pc' = [pc EXCEPT ![t] = next] /\ job' = [job EXCEPT ![t] = task]
    BY <1>2, <1>5 DEF Goto
  <2>2. Moves(t, next, task)
    BY <1>2, <1>3, <1>5, <2>1 DEF Moves
  <2>. QED
    BY <1>1, <1>2, <2>2 DEF Settled
<1>. QED
  BY <1>4, <1>5

LEMMA BeginsMoves ==
  ASSUME Room, NEW t \in Task, NEW next \in PC, NEW task \in Job, Begins(t, next, task),
         next # "idle" => Known(db, next, task) /\ (~stale => Planned(db, next, task))
  PROVE  Settled(t)
<1>1. stale' = stale /\ stale \in BOOLEAN /\ Reads(t, next, task)
  BY DEF Begins, Room, TypeOK
<1>. QED
  BY <1>1, ReadsMoves

-----------------------------------------------------------------------------
(* One action at a time.                                                   *)

LEMMA RoomFacts ==
  ASSUME Room, NEW t \in Task
  PROVE  /\ db \in Tables /\ Whole(db) /\ stale \in BOOLEAN
         /\ pc[t] \in PC /\ job[t] \in Job /\ Known(db, pc[t], job[t])
         /\ ~stale => Tidy(db) /\ Planned(db, pc[t], job[t])
         /\ \A r \in job[t].rows \cup job[t].seen : r.id \in Id /\ r.slot \in Nat /\ Here(db, r.id)
         /\ \A r \in job[t].plan : r.id \in Id /\ r.slot \in Nat /\ Here(db, r.id)
         /\ \A i \in job[t].ids : i \in Id /\ Here(db, i)
<1>1. /\ db \in Tables /\ Whole(db) /\ stale \in BOOLEAN
      /\ pc[t] \in PC /\ job[t] \in Job /\ Known(db, pc[t], job[t])
      /\ ~stale => Tidy(db) /\ Planned(db, pc[t], job[t])
  BY DEF Room, TypeOK
<1>2. \A r \in job[t].rows \cup job[t].seen : r \in Row
  BY <1>1, JobTypes
<1>3. \A r \in job[t].plan : r \in Pick
  BY <1>1, JobTypes
<1>4. \A n \in Slot : n \in Nat
  BY SlotAssumption DEF Slot
<1>5. \A r \in job[t].rows \cup job[t].seen : r.id \in Id /\ r.slot \in Nat
  BY <1>2, <1>4 DEF Row
<1>6. \A r \in job[t].plan : r.id \in Id /\ r.slot \in Nat
  BY <1>3, <1>4 DEF Pick
<1>. QED
  BY <1>1, <1>5, <1>6, JobTypes DEF Known

LEMMA SlateHere ==
  ASSUME Whole(db)
  PROVE  \A r \in db.slate : r \in Row /\ r.id \in Id /\ Here(db, r.id)
BY TablesTypes DEF Whole

LEMMA CrawlSettles ==
  ASSUME Room, NEW t \in Task, Crawl(t)
  PROVE  Settled(t)
<1>1. PICK n \in Id, s \in Service \cup {NoService} :
        IsNext(n) /\ Makes(t, Insert(db, n, s, <<n>>), "idle", NoJob)
  BY DEF Crawl
<1>2. Whole(db) /\ n \in Nat
  BY BoundAssumption DEF Room, Id
<1>3. ~Here(db, n)
  BY <1>1, <1>2 DEF IsNext, Here
<1>4. Calls(db, Insert(db, n, s, <<n>>))
  BY <1>2, <1>3, SaysOne, InsertCalls
<1>5. stale' = stale /\ stale \in BOOLEAN /\ "idle" \in PC \ {"clear", "place"}
  BY DEF Crawl, Room, TypeOK, PC
<1>. QED
  BY <1>1, <1>4, <1>5, NoJobKnown, QuietMoves

LEMMA StartSelectSettles ==
  ASSUME Room, NEW t \in Task, StartSelect(t)
  PROVE  Settled(t)
<1>. DEFINE task == [NoJob EXCEPT !.day = today]
<1>1. Begins(t, "clear", task)
  BY DEF StartSelect
<1>2. today \in Day
  BY BoundAssumption DEF Room, TypeOK, Day
<1>3. task \in Job /\ task.rows = {} /\ task.seen = {} /\ task.plan = {} /\ task.ids = {}
  BY <1>2, NoJobKnown DEF NoJob, Job
<1>. HIDE DEF task
<1>4. Known(db, "clear", task) /\ Planned(db, "clear", task) /\ "clear" \in PC
  BY <1>3 DEF Known, Planned, PC
<1>. QED
  BY <1>1, <1>3, <1>4, BeginsMoves

LEMMA ClearSettles ==
  ASSUME Room, NEW t \in Task, Clear(t)
  PROVE  Settled(t)
<1>. DEFINE day == job[t].day
            rows == SlateOf(db, day)
            plan == Plan(db, day)
            steps == <<Cleared(db, rows)>>
            next == IF plan = {} THEN "idle" ELSE "place"
            task == [job[t] EXCEPT !.plan = plan, !.seen = {}]
<1>1. pc[t] = "clear" /\ Makes(t, steps, next, task) /\ StaleIf(SlateMoved(t))
  BY DEF Clear
<1>2. SlateMoved(t) \in BOOLEAN
  BY DEF SlateMoved
<1>3. stale' \in BOOLEAN /\ (stale => stale') /\ (SlateMoved(t) => stale')
  BY <1>1, <1>2, StaleSettles
<1>4. Whole(db) /\ job[t] \in Job /\ (~stale => Tidy(db) /\ job[t].seen = {})
      /\ Known(db, pc[t], job[t])
  BY <1>1, RoomFacts DEF Planned
<1>5. ~stale' => rows = {}
  BY <1>3, <1>4 DEF SlateMoved
<1>6. /\ steps \in Seq(Tables) /\ steps # <<>> /\ Last(steps) = Cleared(db, rows)
      /\ \A e \in Range(steps) :
            /\ e = Cleared(db, rows) /\ Whole(e) /\ Lasting(db, e)
            /\ Tidy(db) /\ (\A r \in db.slate \cap rows : db.art[r.id].status # "selected")
                 => Tidy(e)
  BY <1>4, OneCleared
<1>7. \A e \in Range(steps) : Whole(e) /\ Lasting(db, e) /\ (~stale' => Tidy(e))
  BY <1>3, <1>4, <1>5, <1>6
<1>8. /\ plan \subseteq Pick /\ \A p \in plan : Here(db, p.id)
      /\ \A p \in plan, o \in plan : p # o => Apart(db, p, o)
  BY <1>4, PlanPicks
<1>. HIDE DEF plan, steps
<1>9. task \in Job /\ task.plan = plan /\ task.seen = {} /\ task.rows = job[t].rows
      /\ task.ids = job[t].ids
  BY <1>4, <1>8 DEF Job
<1>. HIDE DEF task
<1>10. plan # {} => Known(db, "place", task) /\ Planned(db, "place", task)
  BY <1>4, <1>8, <1>9 DEF Known, Planned, PlanSound
<1>11. Lasting(db, Last(steps))
  BY <1>6, LastInRange
<1>12. plan # {} => Known(Last(steps), "place", task) /\ Planned(Last(steps), "place", task)
  BY <1>9, <1>10, <1>11, KnownLasts
<1>13. next \in PC
  BY DEF PC
<1>. QED
  BY <1>1, <1>3, <1>6, <1>7, <1>9, <1>12, <1>13, MakesMoves

LEMMA PlaceSettles ==
  ASSUME Room, NEW t \in Task, Place(t)
  PROVE  Settled(t)
<1>. DEFINE p == FirstRow(job[t].plan)
            day == job[t].day
            rest == job[t].plan \ {p}
            steps == InsertSlot(db, p, day)
            last == Last(steps)
            seen == SlateOf(last, day)
            what == SlateMoved(t) \/ PickMoved(p, day)
            further == [job[t] EXCEPT !.plan = rest, !.seen = seen]
<1>1. /\ pc[t] = "place" /\ StaleIf(what)
      /\ IF rest # {} THEN Makes(t, steps, "place", further)
         ELSE Makes(t, steps, Then(t, last), Slate(t, last))
  BY DEF Place
<1>2. what \in BOOLEAN
  BY DEF SlateMoved, PickMoved
<1>3. stale' \in BOOLEAN /\ (stale => stale') /\ (what => stale')
  BY <1>1, <1>2, StaleSettles
<1>4. /\ Whole(db) /\ job[t] \in Job /\ Known(db, pc[t], job[t])
      /\ ~stale => Tidy(db) /\ PlanSound(db, job[t])
      /\ \A r \in job[t].plan : r.id \in Id /\ r.slot \in Nat /\ Here(db, r.id)
  BY <1>1, RoomFacts DEF Planned
<1>5. p \in job[t].plan /\ p \in Pick /\ Here(db, p.id) /\ day \in Day
  <2>1. job[t].plan # {}
    BY <1>1, <1>4 DEF Known
  <2>2. p \in job[t].plan
    BY <2>1, <1>4, FirstRowOf
  <2>. QED
    BY <2>2, <1>4, JobTypes
<1>. HIDE DEF p, steps, last
<1>6. /\ steps \in Seq(Tables) /\ steps # <<>>
      /\ \A e \in Range(steps) : /\ Whole(e) /\ Lasting(db, e)
                                 /\ Tidy(db) /\ Fits(db, p, day) => Tidy(e)
      /\ seen = {r \in SlateOf(db, day) : r.id # p.id /\ r.slot # p.slot} \cup {RowOf(p, day)}
  BY <1>4, <1>5, InsertSlotCalls DEF steps, last
<1>7. ~stale' => /\ SlateOf(db, day) = job[t].seen /\ Fits(db, p, day)
                 /\ Tidy(db) /\ PlanSound(db, job[t])
  <2>1. ~stale' => SlateOf(db, day) = job[t].seen /\ db.art[p.id].status = "pending"
                   /\ Tidy(db) /\ PlanSound(db, job[t])
    BY <1>3, <1>4 DEF SlateMoved, PickMoved
  <2>. QED
    BY <2>1, <1>5 DEF Fits, PlanSound
<1>8. \A e \in Range(steps) : Whole(e) /\ Lasting(db, e) /\ (~stale' => Tidy(e))
  BY <1>6, <1>7
<1>9. last \in Range(steps) /\ last \in Tables /\ Whole(last) /\ Lasting(db, last)
  BY <1>6, LastInRange DEF last
<1>10. seen \subseteq Row /\ \A r \in seen : Here(last, r.id)
  BY <1>9, TablesTypes DEF SlateOf, Whole
<1>. HIDE DEF seen
<1>11. CASE rest # {}
  <2>1. /\ further \in Job /\ further.plan = rest /\ further.seen = seen
        /\ further.rows = job[t].rows /\ further.ids = job[t].ids
    <3>1. rest \subseteq Pick
      BY <1>4, JobTypes
    <3>. QED
      BY <3>1, <1>4, <1>10 DEF Job
  <2>. HIDE DEF further
  <2>2. Known(last, "place", further)
    <3>1. Known(last, "place", job[t])
      BY <1>1, <1>4, <1>9, KnownLasts
    <3>. QED
      BY <3>1, <2>1, <1>10, <1>11 DEF Known
  <2>3. ~stale' => PlanSound(db, further)
    <3>1. SUFFICES ASSUME ~stale' PROVE PlanSound(db, further)
      OBVIOUS
    <3>2. \A q \in rest, o \in rest : q # o => Apart(db, q, o)
      BY <3>1, <1>7 DEF PlanSound
    <3>3. ASSUME NEW q \in rest, NEW r \in seen
          PROVE  r.slot # q.slot /\ (r.id # q.id => Apart(db, q, r))
      <4>1. CASE r \in job[t].seen
        BY <4>1, <3>1, <1>7 DEF PlanSound
      <4>2. CASE r \notin job[t].seen
        <5>1. r = RowOf(p, day)
          BY <4>2, <3>1, <1>6, <1>7
        <5>2. r.slot = p.slot /\ r.id = p.id /\ r.lane = p.lane
          BY <5>1 DEF RowOf
        <5>3. Apart(db, q, p)
          BY <3>1, <1>5, <1>7 DEF PlanSound
        <5>. QED
          BY <5>2, <5>3 DEF Apart
      <4>. QED
        BY <4>1, <4>2
    <3>. QED
      BY <3>2, <3>3, <2>1 DEF PlanSound
  <2>4. Planned(db, "place", further) => Planned(last, "place", further)
    <3>1. \A r \in further.plan \cup further.seen : last.art[r.id].service = db.art[r.id].service
      <4>1. \A r \in rest : r.id \in Id /\ Here(db, r.id)
        BY <1>4
      <4>2. \A r \in seen : r.id \in Id /\ Here(db, r.id)
        <5>1. \A r \in SlateOf(db, day) : r.id \in Id /\ Here(db, r.id)
          BY <1>4, SlateHere DEF SlateOf
        <5>2. RowOf(p, day).id = p.id /\ p.id \in Id
          BY <1>4, <1>5 DEF RowOf
        <5>. QED
          BY <5>1, <5>2, <1>5, <1>6
      <4>. QED
        BY <4>1, <4>2, <2>1, <1>9 DEF Lasting
    <3>. QED
      BY <3>1 DEF Planned, PlanSound, Apart
  <2>5. ~stale' => Planned(last, "place", further)
    BY <2>3, <2>4 DEF Planned
  <2>6. "place" \in PC
    BY DEF PC
  <2>. QED
    BY <2>1, <2>2, <2>5, <2>6, <1>1, <1>3, <1>6, <1>8, <1>11, MakesMoves DEF last
<1>12. CASE rest = {}
  <2>. DEFINE next == Then(t, last)
              task == Slate(t, last)
  <2>1. SlateOf(last, day) \subseteq Row /\ \A r \in SlateOf(last, day) : Here(last, r.id)
    BY <1>10 DEF seen
  <2>2. /\ task \in Job /\ task.plan = {} /\ task.seen = {} /\ task.rows = SlateOf(last, day)
        /\ task.ids = job[t].ids
    BY <2>1, <1>4 DEF Slate, Job
  <2>3. next \in {"idle", "drain"} /\ (next = "drain" => SlateOf(last, day) # {}) /\ next \in PC
    BY DEF Then, PC
  <2>. HIDE DEF task, next
  <2>4. next # "idle" => Known(last, next, task)
    <3>1. Known(last, "place", job[t])
      BY <1>1, <1>4, <1>9, KnownLasts
    <3>. QED
      BY <3>1, <2>1, <2>2, <2>3 DEF Known
  <2>5. Planned(last, next, task)
    BY <2>3 DEF Planned
  <2>6. Makes(t, steps, next, task)
    BY <1>1, <1>12 DEF next, task
  <2>. QED
    BY <2>2, <2>3, <2>4, <2>5, <2>6, <1>3, <1>6, <1>8, MakesMoves DEF last
<1>. QED
  BY <1>11, <1>12

LEMMA SlateOfHere ==
  ASSUME Room, NEW day
  PROVE  SlateOf(db, day) \subseteq Row /\ \A r \in SlateOf(db, day) : r.id \in Id /\ Here(db, r.id)
BY SlateHere DEF SlateOf, Room

LEMMA StartRedoSettles ==
  ASSUME Room, NEW t \in Task, StartRedo(t)
  PROVE  Settled(t)
<1>1. PICK day \in {today, today + 1} \cap 0..LastDay :
        Begins(t, "reset", [NoJob EXCEPT !.day = day, !.rows = SlateOf(db, day),
                                         !.seen = SlateOf(db, day)])
  BY DEF StartRedo
<1>. DEFINE rows == SlateOf(db, day)
            task == [NoJob EXCEPT !.day = day, !.rows = rows, !.seen = rows]
<1>2. Begins(t, "reset", task)
  BY <1>1
<1>3. rows \subseteq Row /\ \A r \in rows : Here(db, r.id)
  BY SlateOfHere
<1>4. day \in Day
  BY BoundAssumption DEF Day
<1>. HIDE DEF rows
<1>5. task \in Job /\ task.rows = rows /\ task.seen = rows /\ task.plan = {} /\ task.ids = {}
  BY <1>3, <1>4, NoJobKnown DEF NoJob, Job
<1>. HIDE DEF task
<1>6. Known(db, "reset", task) /\ Planned(db, "reset", task) /\ "reset" \in PC
  BY <1>3, <1>5 DEF Known, Planned, PC
<1>. QED
  BY <1>2, <1>5, <1>6, BeginsMoves

LEMMA ResetRowSettles ==
  ASSUME Room, NEW t \in Task, ResetRow(t)
  PROVE  Settled(t)
<1>. DEFINE r == FirstRow(job[t].rows)
            rest == [job[t] EXCEPT !.rows = @ \ {r}]
            what == db.art[r.id].status = "selected" /\ r \notin db.slate
<1>1. /\ pc[t] = "reset" /\ job[t].rows # {} /\ StaleIf(what)
      /\ IF db.art[r.id].status = "selected"
         THEN Makes(t, Revert(db, r.id), "reset", rest)
         ELSE Reads(t, "reset", rest)
  BY DEF ResetRow
<1>2. stale' \in BOOLEAN /\ (stale => stale')
  BY <1>1, StaleSettles
<1>3. /\ Whole(db) /\ job[t] \in Job /\ Known(db, pc[t], job[t])
      /\ \A o \in job[t].rows : o.id \in Id /\ o.slot \in Nat
  BY RoomFacts
<1>4. r \in job[t].rows /\ r.id \in Id
  BY <1>1, <1>3, FirstRowOf
<1>. HIDE DEF r
<1>5. /\ rest \in Job /\ rest.rows = job[t].rows \ {r} /\ rest.seen = job[t].seen
      /\ rest.plan = job[t].plan /\ rest.ids = job[t].ids
  BY <1>3 DEF Job
<1>. HIDE DEF rest
<1>6. Known(db, "reset", rest) /\ Planned(db, "reset", rest)
  BY <1>3, <1>5 DEF Known, Planned
<1>7. "reset" \in PC \ {"clear", "place"}
  BY DEF PC
<1>8. CASE db.art[r.id].status = "selected"
  <2>1. Calls(db, Revert(db, r.id))
    BY <1>3, <1>4, <1>8, RevertCalls
  <2>. QED
    BY <2>1, <1>1, <1>2, <1>5, <1>6, <1>7, <1>8, QuietMoves
<1>9. CASE db.art[r.id].status # "selected"
  BY <1>1, <1>2, <1>5, <1>6, <1>7, <1>9, ReadsMoves
<1>. QED
  BY <1>8, <1>9

LEMMA ResetDaySettles ==
  ASSUME Room, NEW t \in Task, ResetDay(t)
  PROVE  Settled(t)
<1>. DEFINE rows == SlateOf(db, job[t].day)
            steps == <<Cleared(db, rows)>>
            task == [job[t] EXCEPT !.seen = {}]
            what == SlateMoved(t) \/ \E r \in job[t].seen : db.art[r.id].status = "selected"
<1>1. Makes(t, steps, "clear", task) /\ StaleIf(what)
  BY DEF ResetDay
<1>2. what \in BOOLEAN
  BY DEF SlateMoved
<1>3. stale' \in BOOLEAN /\ (stale => stale') /\ (what => stale')
  BY <1>1, <1>2, StaleSettles
<1>4. /\ Whole(db) /\ job[t] \in Job /\ Known(db, pc[t], job[t]) /\ pc[t] = "reset"
      /\ ~stale => Tidy(db)
  BY RoomFacts DEF ResetDay
<1>5. ~stale' => Tidy(db) /\ \A r \in db.slate \cap rows : db.art[r.id].status # "selected"
  BY <1>3, <1>4 DEF SlateMoved
<1>6. /\ steps \in Seq(Tables) /\ steps # <<>> /\ Last(steps) = Cleared(db, rows)
      /\ \A e \in Range(steps) :
            /\ e = Cleared(db, rows) /\ Whole(e) /\ Lasting(db, e)
            /\ Tidy(db) /\ (\A r \in db.slate \cap rows : db.art[r.id].status # "selected")
                 => Tidy(e)
  BY <1>4, OneCleared
<1>. HIDE DEF rows, steps, what
<1>7. /\ task \in Job /\ task.rows = job[t].rows /\ task.seen = {} /\ task.plan = job[t].plan
      /\ task.ids = job[t].ids
  BY <1>4 DEF Job
<1>. HIDE DEF task
<1>8. Known(db, "clear", task) /\ Planned(db, "clear", task) /\ "clear" \in PC
  BY <1>4, <1>7 DEF Known, Planned, PC
<1>9. Lasting(db, Last(steps))
  BY <1>6, LastInRange
<1>10. Known(Last(steps), "clear", task) /\ Planned(Last(steps), "clear", task)
  BY <1>7, <1>8, <1>9, KnownLasts
<1>11. \A e \in Range(steps) : Whole(e) /\ Lasting(db, e) /\ (~stale' => Tidy(e))
  BY <1>5, <1>6
<1>. QED
  BY <1>1, <1>3, <1>6, <1>7, <1>8, <1>10, <1>11, MakesMoves

LEMMA PinForTomorrowSettles ==
  ASSUME Room, NEW t \in Task, PinForTomorrow(t)
  PROVE  Settled(t)
<1>1. PICK i \in Id : /\ db.art[i].status = "pending"
                      /\ Makes(t, PinFor(db, i, today + 1), "idle", NoJob)
  BY DEF PinForTomorrow
<1>2. today + 1 \in Day /\ Whole(db)
  BY BoundAssumption DEF PinForTomorrow, Room, TypeOK, Day
<1>3. Calls(db, PinFor(db, i, today + 1))
  BY <1>1, <1>2, PinForCalls
<1>4. stale' = stale /\ stale \in BOOLEAN /\ "idle" \in PC \ {"clear", "place"}
  BY DEF PinForTomorrow, Room, TypeOK, PC
<1>. QED
  BY <1>1, <1>3, <1>4, NoJobKnown, QuietMoves

LEMMA StartDrainSettles ==
  ASSUME Room, NEW t \in Task, StartDrain(t)
  PROVE  Settled(t)
<1>. DEFINE slate == SlateOf(db, today)
            task == [NoJob EXCEPT !.day = today, !.then = "drain", !.rows = slate]
            next == IF slate = {} THEN "clear" ELSE "drain"
<1>1. Begins(t, next, task)
  BY DEF StartDrain
<1>2. slate \subseteq Row /\ \A r \in slate : Here(db, r.id)
  BY SlateOfHere
<1>3. today \in Day
  BY BoundAssumption DEF Room, TypeOK, Day
<1>. HIDE DEF slate
<1>4. task \in Job /\ task.rows = slate /\ task.seen = {} /\ task.plan = {} /\ task.ids = {}
  BY <1>2, <1>3, NoJobKnown DEF NoJob, Job
<1>. HIDE DEF task
<1>5. Known(db, next, task) /\ Planned(db, next, task) /\ next \in PC
  BY <1>2, <1>4 DEF Known, Planned, PC
<1>. QED
  BY <1>1, <1>4, <1>5, BeginsMoves

LEMMA DrainNextSettles ==
  ASSUME Room, NEW t \in Task, DrainNext(t)
  PROVE  Settled(t)
<1>. DEFINE r == FirstRow(job[t].rows)
            rest == job[t].rows \ {r}
            task == [job[t] EXCEPT !.rows = rest,
                                   !.id = IF db.art[r.id].status = "selected" THEN r.id ELSE 0]
            next == IF db.art[r.id].status = "selected" THEN "weigh"
                    ELSE IF rest = {} THEN "idle" ELSE "drain"
<1>1. pc[t] = "drain" /\ Reads(t, next, task) /\ stale' = stale
  BY DEF DrainNext
<1>2. /\ job[t] \in Job /\ Known(db, pc[t], job[t]) /\ stale \in BOOLEAN
      /\ \A o \in job[t].rows : o.id \in Id /\ o.slot \in Nat
  BY RoomFacts
<1>3. r \in job[t].rows /\ r.id \in Id
  <2>1. job[t].rows # {}
    BY <1>1, <1>2 DEF Known
  <2>. QED
    BY <2>1, <1>2, FirstRowOf
<1>. HIDE DEF r
<1>4. /\ task \in Job /\ task.rows = rest /\ task.seen = job[t].seen
      /\ task.plan = job[t].plan /\ task.ids = job[t].ids
      /\ next = "weigh" => task.id = r.id
  BY <1>2, <1>3 DEF Job
<1>5. next \in {"weigh", "idle", "drain"} /\ (next = "drain" => rest # {}) /\ next \in PC
  BY DEF PC
<1>. HIDE DEF task, next
<1>6. next # "idle" => Known(db, next, task) /\ Planned(db, next, task)
  BY <1>2, <1>3, <1>4, <1>5 DEF Known, Planned
<1>. QED
  BY <1>1, <1>2, <1>4, <1>5, <1>6, ReadsMoves

LEMMA DrainEndsSettles ==
  ASSUME Room, NEW t \in Task, DrainEnds(t)
  PROVE  Settled(t)
<1>1. Reads(t, "idle", NoJob) /\ stale' = stale /\ stale \in BOOLEAN /\ "idle" \in PC
  BY DEF DrainEnds, Room, TypeOK, PC
<1>. QED
  BY <1>1, NoJobKnown, ReadsMoves

LEMMA ComposeNowSettles ==
  ASSUME Room, NEW t \in Task, ComposeNow(t)
  PROVE  Settled(t)
<1>1. PICK i \in Id : Live(i) /\ Begins(t, "weigh", [NoJob EXCEPT !.id = i])
  BY DEF ComposeNow
<1>. DEFINE task == [NoJob EXCEPT !.id = i]
<1>2. task \in Job /\ task.rows = {} /\ task.seen = {} /\ task.plan = {} /\ task.ids = {}
      /\ task.id = i
  BY NoJobKnown DEF NoJob, Job
<1>3. Begins(t, "weigh", task) /\ Here(db, i)
  BY <1>1 DEF Live, Here
<1>. HIDE DEF task
<1>4. Known(db, "weigh", task) /\ Planned(db, "weigh", task) /\ "weigh" \in PC
  BY <1>2, <1>3 DEF Known, Planned, PC
<1>. QED
  BY <1>2, <1>3, <1>4, BeginsMoves

\* What a drain goes on to.
LEMMA OnwardKnown ==
  ASSUME Room, NEW t \in Task
  PROVE  /\ Onward(t) \in PC \ {"clear", "place"} /\ Rest(t) \in Job
         /\ Known(db, Onward(t), Rest(t)) /\ Planned(db, Onward(t), Rest(t))
<1>1. job[t] \in Job /\ Known(db, pc[t], job[t])
  BY RoomFacts
<1>2. /\ Rest(t) \in Job /\ Rest(t).rows = job[t].rows /\ Rest(t).seen = job[t].seen
      /\ Rest(t).plan = job[t].plan /\ Rest(t).ids = job[t].ids
  BY <1>1 DEF Rest, Job
<1>3. Onward(t) \in {"idle", "drain"} /\ (Onward(t) = "drain" => job[t].rows # {})
  BY DEF Onward
<1>4. Onward(t) \in PC \ {"clear", "place"}
  BY <1>3 DEF PC
<1>. QED
  BY <1>1, <1>2, <1>3, <1>4 DEF Known, Planned

LEMMA DropsSettles ==
  ASSUME Room, NEW t \in Task, pc[t] \in {"weigh", "compose"}, Drops(t)
  PROVE  Settled(t)
<1>1. Whole(db) /\ job[t].id \in Id
  BY RoomFacts DEF Known
<1>2. Calls(db, Mark(db, job[t].id, "discarded"))
  BY <1>1, MarkCalls
<1>3. Live(job[t].id) \in BOOLEAN
  BY DEF Live
<1>4. stale' \in BOOLEAN /\ (stale => stale')
  BY <1>3, StaleSettles DEF Drops
<1>. QED
  BY <1>2, <1>4, OnwardKnown, QuietMoves DEF Drops

LEMMA LeavesSettles ==
  ASSUME Room, NEW t \in Task, Leaves(t)
  PROVE  Settled(t)
<1>1. Reads(t, Onward(t), Rest(t)) /\ stale' = stale /\ stale \in BOOLEAN
  BY DEF Leaves, Room, TypeOK
<1>. QED
  BY <1>1, OnwardKnown, ReadsMoves

LEMMA ComposeSettles ==
  ASSUME Room, NEW t \in Task, Compose(t)
  PROVE  Settled(t)
<1>1. Reads(t, "compose", job[t]) /\ StaleIf(~Live(job[t].id)) /\ pc[t] = "weigh"
  BY DEF Compose
<1>2. stale' \in BOOLEAN /\ (stale => stale')
  BY <1>1, StaleSettles DEF Live
<1>3. Known(db, "compose", job[t]) /\ Planned(db, "compose", job[t]) /\ job[t] \in Job
  BY <1>1, RoomFacts DEF Known, Planned
<1>4. "compose" \in PC
  BY DEF PC
<1>. QED
  BY <1>1, <1>2, <1>3, <1>4, ReadsMoves

LEMMA ResolveSettles ==
  ASSUME Room, NEW t \in Task, Resolve(t)
  PROVE  Settled(t)
<1>1. /\ pc[t] = "compose"
      /\ Makes(t, Mark(db, job[t].id, "composed"), Onward(t), Rest(t))
      /\ StaleIf(db.art[job[t].id].status = "discarded")
  BY DEF Resolve
<1>2. Whole(db) /\ job[t].id \in Id
  BY <1>1, RoomFacts DEF Known
<1>3. Calls(db, Mark(db, job[t].id, "composed"))
  BY <1>2, MarkCalls
<1>4. stale' \in BOOLEAN /\ (stale => stale')
  BY <1>1, StaleSettles
<1>. QED
  BY <1>1, <1>3, <1>4, OnwardKnown, QuietMoves

LEMMA StartReclaimSettles ==
  ASSUME Room, NEW t \in Task, StartReclaim(t)
  PROVE  Settled(t)
<1>. DEFINE claimed == {r.pin : r \in db.listed} \ {NoDay}
            task == [NoJob EXCEPT !.day = today, !.rows = LeftOver, !.claimed = claimed]
<1>1. Begins(t, "reclaim", task) /\ LeftOver # {}
  BY DEF StartReclaim
<1>2. Whole(db) /\ db \in Tables /\ today \in Day
  BY BoundAssumption DEF Room, TypeOK, Day
<1>3. LeftOver \subseteq Row /\ \A r \in LeftOver : Here(db, r.id)
  BY <1>2, SlateHere DEF LeftOver
<1>4. claimed \subseteq Day
  BY <1>2, TablesTypes DEF Entry
<1>. HIDE DEF claimed
<1>5. task \in Job /\ task.rows = LeftOver /\ task.seen = {} /\ task.plan = {} /\ task.ids = {}
  BY <1>2, <1>3, <1>4, NoJobKnown DEF NoJob, Job
<1>. HIDE DEF task
<1>6. Known(db, "reclaim", task) /\ Planned(db, "reclaim", task) /\ "reclaim" \in PC
  BY <1>1, <1>3, <1>5 DEF Known, Planned, PC
<1>. QED
  BY <1>1, <1>5, <1>6, BeginsMoves

LEMMA ReclaimRowSettles ==
  ASSUME Room, NEW t \in Task, ReclaimRow(t)
  PROVE  Settled(t)
<1>. DEFINE rest(r) == job[t].rows \ {r}
            next(r) == IF rest(r) = {} THEN "idle" ELSE "reclaim"
            claimed(r) == IF r.lane = "human" THEN job[t].claimed \cup {NextOpenDay(t)}
                          ELSE job[t].claimed
            task(r) == [job[t] EXCEPT !.rows = rest(r), !.claimed = claimed(r)]
            what(r) == db.art[r.id].status = "selected" /\
                       (\/ r \notin db.slate
                        \/ r.lane = "human" /\ \E e \in db.listed : e.pin = NextOpenDay(t))
<1>1. PICK r \in job[t].rows :
        /\ pc[t] = "reclaim" /\ OpenDays(t) # {} /\ Boosted(r.id) \in Priority
        /\ IF db.art[r.id].status = "selected"
           THEN Makes(t, CarryForward(t, r), next(r), task(r))
           ELSE Reads(t, next(r), task(r))
        /\ StaleIf(what(r))
  BY DEF ReclaimRow
<1>2. stale' \in BOOLEAN /\ (stale => stale')
  BY <1>1, StaleSettles
<1>3. /\ Whole(db) /\ job[t] \in Job /\ Known(db, pc[t], job[t]) /\ r.id \in Id
      /\ ~stale => Tidy(db)
  BY RoomFacts
<1>4. claimed(r) \subseteq Day
  BY <1>1, <1>3, JobTypes, NextOpenDayOf DEF OpenDays
<1>. HIDE DEF claimed
<1>5. /\ task(r) \in Job /\ task(r).rows = rest(r) /\ task(r).seen = job[t].seen
      /\ task(r).plan = job[t].plan /\ task(r).ids = job[t].ids
  BY <1>3, <1>4, JobTypes DEF Job
<1>6. /\ next(r) \in {"idle", "reclaim"} /\ next(r) \in PC
      /\ next(r) = "reclaim" => rest(r) # {}
  BY DEF PC
<1>. HIDE DEF task, next
<1>7. Known(db, next(r), task(r)) /\ \A d : Planned(d, next(r), task(r))
  BY <1>3, <1>5, <1>6 DEF Known, Planned
<1>8. CASE db.art[r.id].status = "selected"
  <2>. DEFINE steps == CarryForward(t, r)
  <2>1. /\ steps \in Seq(Tables) /\ steps # <<>>
        /\ \A e \in Range(steps) : Whole(e) /\ Lasting(db, e) /\ (Tidy(db) => Tidy(e))
    BY <1>1, <1>3, <1>8, CarryForwardCalls
  <2>. HIDE DEF steps
  <2>2. \A e \in Range(steps) : Whole(e) /\ Lasting(db, e) /\ (~stale' => Tidy(e))
    BY <1>2, <1>3, <2>1
  <2>3. Known(Last(steps), next(r), task(r))
    BY <2>1, <1>5, <1>7, LastInRange, KnownLasts
  <2>4. Makes(t, steps, next(r), task(r))
    BY <1>1, <1>8 DEF steps
  <2>. QED
    BY <2>1, <2>2, <2>3, <2>4, <1>2, <1>5, <1>6, <1>7, MakesMoves
<1>9. CASE db.art[r.id].status # "selected"
  BY <1>1, <1>2, <1>5, <1>6, <1>7, <1>9, ReadsMoves
<1>. QED
  BY <1>8, <1>9

LEMMA SweepSettles ==
  ASSUME Room, NEW t \in Task, Sweep(t)
  PROVE  Settled(t)
<1>1. PICK i \in Id, p \in 0..MaxPriority :
        Live(i) /\ Makes(t, Reprioritise(db, i, p), "idle", NoJob)
  BY DEF Sweep
<1>2. Whole(db) /\ Here(db, i) /\ p \in Priority
  BY <1>1, BoundAssumption DEF Room, Live, Here, Priority
<1>3. Calls(db, Reprioritise(db, i, p))
  BY <1>2, ReprioritiseCalls
<1>4. stale' = stale /\ stale \in BOOLEAN /\ "idle" \in PC \ {"clear", "place"}
  BY DEF Sweep, Room, TypeOK, PC
<1>. QED
  BY <1>1, <1>3, <1>4, NoJobKnown, QuietMoves

LEMMA ProbeSettles ==
  ASSUME Room, NEW t \in Task, Probe(t)
  PROVE  Settled(t)
<1>1. PICK r \in db.listed : Begins(t, "dead", [NoJob EXCEPT !.id = r.id])
  BY DEF Probe
<1>. DEFINE task == [NoJob EXCEPT !.id = r.id]
<1>2. r.id \in Id /\ Here(db, r.id)
  BY RoomFacts, TablesTypes DEF Whole, Entry
<1>3. task \in Job /\ task.rows = {} /\ task.seen = {} /\ task.plan = {} /\ task.ids = {}
      /\ task.id = r.id /\ Begins(t, "dead", task)
  BY <1>1, <1>2, NoJobKnown DEF NoJob, Job
<1>. HIDE DEF task
<1>4. Known(db, "dead", task) /\ Planned(db, "dead", task) /\ "dead" \in PC
  BY <1>2, <1>3 DEF Known, Planned, PC
<1>. QED
  BY <1>3, <1>4, BeginsMoves

LEMMA DiscardDeadSettles ==
  ASSUME Room, NEW t \in Task, DiscardDead(t)
  PROVE  Settled(t)
<1>1. /\ pc[t] = "dead" /\ Makes(t, Mark(db, job[t].id, "discarded"), "idle", NoJob)
      /\ StaleIf(db.art[job[t].id].status # "pending")
  BY DEF DiscardDead
<1>2. Whole(db) /\ job[t].id \in Id
  BY <1>1, RoomFacts DEF Known
<1>3. Calls(db, Mark(db, job[t].id, "discarded"))
  BY <1>2, MarkCalls
<1>4. stale' \in BOOLEAN /\ (stale => stale') /\ "idle" \in PC \ {"clear", "place"}
  BY <1>1, StaleSettles DEF PC
<1>. QED
  BY <1>1, <1>3, <1>4, NoJobKnown, QuietMoves

LEMMA StartMergeSettles ==
  ASSUME Room, NEW t \in Task, StartMerge(t)
  PROVE  Settled(t)
<1>. DEFINE all(s) == {r.id : r \in {r \in db.listed : db.art[r.id].service = s}}
            rest(s) == all(s) \ {Oldest(all(s))}
            job_(s) == [NoJob EXCEPT !.service = s, !.ids = rest(s)]
<1>1. PICK s \in Service : Cardinality(all(s)) > 1 /\ Begins(t, "merge", job_(s))
  BY DEF StartMerge
<1>2. all(s) \in SUBSET Id /\ \A i \in all(s) : Here(db, i)
  BY RoomFacts, TablesTypes DEF Whole, Entry
<1>. HIDE DEF all
<1>3. rest(s) # {}
  <2>1. all(s) # {}
    BY <1>1, FS_EmptySet
  <2>2. all(s) # {Oldest(all(s))}
    BY <1>1, FS_Singleton
  <2>. QED
    BY <2>1, <2>2
<1>4. rest(s) \in SUBSET Id /\ \A i \in rest(s) : Here(db, i)
  BY <1>2
<1>. HIDE DEF rest
<1>5. /\ job_(s) \in Job /\ job_(s).rows = {} /\ job_(s).seen = {} /\ job_(s).plan = {}
      /\ job_(s).ids = rest(s)
  BY <1>4, NoJobKnown DEF NoJob, Job
<1>. HIDE DEF job_
<1>6. Known(db, "merge", job_(s)) /\ Planned(db, "merge", job_(s)) /\ "merge" \in PC
  BY <1>3, <1>4, <1>5 DEF Known, Planned, PC
<1>. QED
  BY <1>1, <1>5, <1>6, BeginsMoves

\* A marked artifact and what a merge files for it.
LEMMA MergeGrown ==
  ASSUME NEW d, NEW a, NEW e, NEW i \in Id, NEW n \in Id, i # n, Marked(d, a, i, "discarded"),
         d.art[i].content \in Seq(Id), NEW old,
         NEW update, update = Says(d.art[i].content), Grown(a, e, n, old, update),
         d.art[i].status = "pending", \A j \in old : a.art[j].status = "pending"
  PROVE  /\ Grown(d, e, n, old \cup {i}, {})
         /\ \A j \in old \cup {i} : d.art[j].status = "pending"
<1>1. \A j \in Id : /\ a.art[j].status = IF j = i THEN "discarded" ELSE d.art[j].status
                    /\ a.art[j].content = d.art[j].content
  BY DEF Marked
<1>2. /\ old \subseteq Id \ {n}
      /\ \A j \in Id \ {n} :
            /\ e.art[j].status = IF j \in old THEN "discarded" ELSE a.art[j].status
            /\ e.art[j].content = a.art[j].content
      /\ e.art[n].status = "pending"
      /\ update \subseteq Says(e.art[n].content)
      /\ Says(e.art[n].content) \subseteq update \cup UNION {Says(a.art[j].content) : j \in old}
      /\ \A j \in old : Says(Capped(a.art[j].content)) \subseteq Says(e.art[n].content)
  BY DEF Grown
<1>3. \A j \in old \cup {i} : d.art[j].status = "pending"
  BY <1>1, <1>2
<1>4. \A j \in old : a.art[j].content = d.art[j].content
  BY <1>1, <1>2
<1>5. Says(e.art[n].content) \subseteq {} \cup UNION {Says(d.art[j].content) : j \in old \cup {i}}
  <2>1. SUFFICES ASSUME NEW u \in Says(e.art[n].content)
                 PROVE  \E j \in old \cup {i} : u \in Says(d.art[j].content)
    OBVIOUS
  <2>2. CASE u \in update
    BY <2>2
  <2>3. CASE u \notin update
    <3>1. PICK j \in old : u \in Says(a.art[j].content)
      BY <2>1, <2>3, <1>2
    <3>. QED
      BY <3>1, <1>4
  <2>. QED
    BY <2>2, <2>3
<1>6. \A j \in old \cup {i} : Says(Capped(d.art[j].content)) \subseteq Says(e.art[n].content)
  <2>1. Says(Capped(d.art[i].content)) \subseteq update
    BY CapLeaves
  <2>. QED
    BY <2>1, <1>2, <1>4
<1>7. /\ old \cup {i} \subseteq Id \ {n}
      /\ \A j \in Id \ {n} :
            /\ e.art[j].status = IF j \in old \cup {i} THEN "discarded" ELSE d.art[j].status
            /\ e.art[j].content = d.art[j].content
  BY <1>1, <1>2
<1>8. {} \subseteq Says(e.art[n].content)
  OBVIOUS
<1>. QED
  BY <1>2, <1>3, <1>5, <1>6, <1>7, <1>8 DEF Grown

\* A merge's call: the duplicate goes, and a new artifact takes what it says.
LEMMA MergeCalls ==
  ASSUME NEW d, Whole(d), NEW i \in Id, Here(d, i), NEW n \in Id, ~Here(d, n),
         NEW s \in Service \cup {NoService}, NEW steps,
         steps = Mark(d, i, "discarded")
                   \o Insert(Last(Mark(d, i, "discarded")), n, s, d.art[i].content)
  PROVE  /\ Calls(d, steps)
         /\ Synced(d) => Synced(Last(steps))
         /\ Synced(d) /\ d.art[i].status = "pending" => Succeeds(d, Last(steps), n, {i}, {})
<1>. DEFINE marks == Mark(d, i, "discarded")
            a == Last(marks)
            C == d.art[i].content
            more == Insert(a, n, s, C)
<1>0. steps = marks \o more
  OBVIOUS
<1>1. /\ Calls(d, marks) /\ Marked(d, a, i, "discarded") /\ (Synced(d) => Synced(a))
      /\ SamePins(d, a)
  BY MarkCalls
<1>. HIDE DEF marks
<1>2. Whole(a) /\ Lasting(d, a)
  BY <1>1, CallsLast DEF Quiet
<1>3. C \in Seq(Id) /\ \A u \in Says(C) : u \in Id /\ Here(d, u)
  BY TablesTypes DEF Whole
<1>4. C \in Seq(Id) /\ \A u \in Says(C) : u = n \/ Here(a, u)
  BY <1>2, <1>3 DEF Lasting
<1>5. ~Here(a, n)
  BY <1>1 DEF Here, Marked
<1>. HIDE DEF C
<1>6. /\ Calls(a, more) /\ Succeeds(a, Last(more), n, {}, Says(C))
      /\ Synced(a) => Synced(Last(more))
  BY <1>2, <1>4, <1>5, InsertCalls
<1>. HIDE DEF more
<1>7. Calls(d, marks \o more) /\ Last(marks \o more) = Last(more)
  BY <1>1, <1>6, CallsMore
<1>8. Calls(d, steps) /\ Last(steps) = Last(more)
  BY <1>0, <1>7, Zenon
<1>. HIDE DEF a
<1>9. ASSUME Synced(d), d.art[i].status = "pending" PROVE Succeeds(d, Last(more), n, {i}, {})
  <2>0. PICK old \in SUBSET Id : /\ Grown(a, Last(more), n, old \cup {}, Says(C))
                                 /\ \A j \in old \cup {} : a.art[j].status = "pending"
                                 /\ Heir(a, Last(more), n, old)
    BY <1>1, <1>6, <1>9 DEF Succeeds
  <2>1. Grown(a, Last(more), n, old, Says(C)) /\ \A j \in old : a.art[j].status = "pending"
    <3>1. old \cup {} = old
      OBVIOUS
    <3>. QED
      BY <2>0, <3>1
  <2>2. i # n
    OBVIOUS
  <2>3. /\ Says(C) = Says(d.art[i].content) /\ d.art[i].content \in Seq(Id)
        /\ Marked(d, a, i, "discarded")
    BY <1>1, <1>3 DEF C
  <2>4. /\ Grown(d, Last(more), n, old \cup {i}, {})
        /\ \A j \in old \cup {i} : d.art[j].status = "pending"
    <3>1. d.art[i].status = "pending" /\ \A j \in old : a.art[j].status = "pending"
      BY <2>1, <1>9
    <3>2. Grown(d, Last(more), n, old \cup {i}, {})
      BY <2>1, <2>2, <2>3, <3>1, MergeGrown, Zenon
    <3>3. \A j \in old \cup {i} : d.art[j].status = "pending"
      BY <2>3, <3>1 DEF Marked
    <3>. QED
      BY <3>2, <3>3
  <2>5. Heir(d, Last(more), n, old)
    <3>1. old \subseteq Id \ {n}
      BY <2>1 DEF Grown
    <3>. QED
      BY <3>1, <2>0, <1>1 DEF Heir, SamePins
  <2>. QED
    BY <2>4, <2>5 DEF Succeeds
<1>. QED
  BY <1>1, <1>6, <1>8, <1>9

LEMMA MergeOneSettles ==
  ASSUME Room, NEW t \in Task, MergeOne(t)
  PROVE  Settled(t)
<1>. DEFINE i == Oldest(job[t].ids)
            rest == job[t].ids \ {i}
            steps(n) == Mark(db, i, "discarded")
                          \o Insert(Last(Mark(db, i, "discarded")), n, job[t].service,
                                    db.art[i].content)
            next == IF rest = {} THEN "idle" ELSE "merge"
            task == [job[t] EXCEPT !.ids = rest]
<1>1. /\ pc[t] = "merge" /\ StaleIf(db.art[i].status # "pending")
      /\ \E n \in Id : IsNext(n) /\ Makes(t, steps(n), next, task)
  BY DEF MergeOne
<1>2. PICK n \in Id : IsNext(n) /\ Makes(t, steps(n), next, task)
  BY <1>1
<1>3. stale' \in BOOLEAN /\ (stale => stale')
  BY <1>1, StaleSettles
<1>4. /\ Whole(db) /\ job[t] \in Job /\ Known(db, pc[t], job[t])
      /\ \A j \in job[t].ids : j \in Id /\ Here(db, j)
  BY RoomFacts
<1>5. i \in job[t].ids
  BY <1>1, <1>4, OldestOf DEF Known
<1>6. ~Here(db, n)
  BY <1>2, BoundAssumption DEF IsNext, Here, Id
<1>7. job[t].service \in Service \cup {NoService}
  BY <1>4, JobTypes
<1>8. Calls(db, steps(n))
  BY <1>4, <1>5, <1>6, <1>7, MergeCalls
<1>. HIDE DEF i, steps
<1>9. /\ task \in Job /\ task.rows = job[t].rows /\ task.seen = job[t].seen
      /\ task.plan = job[t].plan /\ task.ids = rest
  BY <1>4 DEF Job
<1>10. next \in {"idle", "merge"} /\ next \in PC \ {"clear", "place"} /\ (next = "merge" => rest # {})
  BY DEF PC
<1>. HIDE DEF task, next
<1>11. next # "idle" => Known(db, next, task)
  BY <1>4, <1>9, <1>10 DEF Known
<1>. QED
  BY <1>2, <1>3, <1>8, <1>9, <1>10, <1>11, QuietMoves

-----------------------------------------------------------------------------
(* Every step.                                                             *)

LEMMA StepSettles ==
  ASSUME Room, NEW t \in Task, Step(t)
  PROVE  Settled(t)
<1>1. CASE GateDrops(t) \/ ComposeDrops(t)
  BY <1>1, DropsSettles DEF GateDrops, ComposeDrops
<1>2. CASE Crawl(t) \/ StartSelect(t) \/ Clear(t) \/ Place(t)
  BY <1>2, CrawlSettles, StartSelectSettles, ClearSettles, PlaceSettles
<1>3. CASE StartRedo(t) \/ ResetRow(t) \/ ResetDay(t) \/ PinForTomorrow(t)
  BY <1>3, StartRedoSettles, ResetRowSettles, ResetDaySettles, PinForTomorrowSettles
<1>4. CASE StartDrain(t) \/ DrainNext(t) \/ DrainEnds(t) \/ ComposeNow(t)
  BY <1>4, StartDrainSettles, DrainNextSettles, DrainEndsSettles, ComposeNowSettles
<1>5. CASE Leaves(t) \/ Compose(t) \/ Resolve(t) \/ StartReclaim(t) \/ ReclaimRow(t)
  BY <1>5, LeavesSettles, ComposeSettles, ResolveSettles, StartReclaimSettles, ReclaimRowSettles
<1>6. CASE Sweep(t) \/ Probe(t) \/ DiscardDead(t) \/ StartMerge(t) \/ MergeOne(t)
  BY <1>6, SweepSettles, ProbeSettles, DiscardDeadSettles, StartMergeSettles, MergeOneSettles
<1>. QED
  BY <1>1, <1>2, <1>3, <1>4, <1>5, <1>6, Zenon DEF Step

\* What the tasks tell, drop and cover.
LEMMA StepTypes ==
  ASSUME Room, NEW t \in Task, Step(t)
  PROVE  today' = today /\ covered' \subseteq Service /\ told' \in [Id -> 0..2] /\ dropped' \subseteq Id
<1>1. /\ covered \subseteq Service /\ told \in [Id -> 0..2] /\ dropped \subseteq Id
      /\ \A i \in Id : /\ Says(db.art[i].content) \subseteq Id
                       /\ db.art[i].service \in Service \cup {NoService}
  BY TablesTypes DEF Room, TypeOK
<1>2. ASSUME pc[t] \in {"weigh", "compose", "dead"} PROVE job[t].id \in Id
  BY <1>2, RoomFacts DEF Known
<1>3. CASE Resolve(t)
  <2>. DEFINE a == db.art[job[t].id]
  <2>1. /\ pc[t] = "compose" /\ today' = today /\ dropped' = dropped
        /\ told' = [u \in Id |-> IF u \in Says(a.content) /\ told[u] < 2 THEN told[u] + 1 ELSE told[u]]
        /\ covered' \in {covered, (covered \cup {a.service}) \ {NoService}}
    BY <1>3 DEF Resolve
  <2>2. a.service \in Service \cup {NoService}
    BY <2>1, <1>1, <1>2
  <2>. HIDE DEF a
  <2>3. covered' \subseteq Service
    BY <2>1, <2>2, <1>1
  <2>4. \A u \in Id : (IF u \in Says(a.content) /\ told[u] < 2 THEN told[u] + 1 ELSE told[u]) \in 0..2
    BY <1>1
  <2>. QED
    BY <2>1, <2>3, <2>4, <1>1
<1>4. CASE GateDrops(t) \/ ComposeDrops(t) \/ DiscardDead(t)
  <2>1. /\ pc[t] \in {"weigh", "compose", "dead"} /\ today' = today /\ covered' = covered /\ told' = told
        /\ dropped' = dropped \cup Says(db.art[job[t].id].content)
    BY <1>4 DEF GateDrops, ComposeDrops, Drops, DiscardDead
  <2>. QED
    BY <2>1, <1>1, <1>2
<1>5. CASE ~(Resolve(t) \/ GateDrops(t) \/ ComposeDrops(t) \/ DiscardDead(t))
  <2>1. UNCHANGED <<today, covered, told, dropped>>
    <3>1. CASE Crawl(t) \/ StartSelect(t) \/ Clear(t) \/ Place(t)
      BY <3>1 DEF Crawl, StartSelect, Clear, Place, Begins
    <3>2. CASE StartRedo(t) \/ ResetRow(t) \/ ResetDay(t) \/ PinForTomorrow(t)
      BY <3>2 DEF StartRedo, ResetRow, ResetDay, PinForTomorrow, Begins
    <3>3. CASE StartDrain(t) \/ DrainNext(t) \/ DrainEnds(t) \/ ComposeNow(t)
      BY <3>3 DEF StartDrain, DrainNext, DrainEnds, ComposeNow, Begins
    <3>4. CASE Leaves(t) \/ Compose(t) \/ StartReclaim(t) \/ ReclaimRow(t)
      BY <3>4 DEF Leaves, Compose, StartReclaim, ReclaimRow, Begins
    <3>5. CASE Sweep(t) \/ Probe(t) \/ StartMerge(t) \/ MergeOne(t)
      BY <3>5 DEF Sweep, Probe, StartMerge, MergeOne, Begins
    <3>. QED
      BY <3>1, <3>2, <3>3, <3>4, <3>5, <1>5, Zenon DEF Step
  <2>. QED
    BY <2>1, <1>1
<1>. QED
  BY <1>3, <1>4, <1>5

LEMMA InitRoom == Init => Room
<1>. SUFFICES ASSUME Init PROVE Room
  OBVIOUS
<1>. DEFINE a == [status |-> "absent", service |-> NoService,
                  priority |-> 0, pin |-> NoDay, content |-> <<>>]
<1>1. a \in Artifact
  BY SaysNone, BoundAssumption DEF Artifact, Status, Priority
<1>. HIDE DEF a
<1>2. db = [art |-> [i \in Id |-> a], listed |-> {}, slate |-> {}]
  BY DEF Init, a
<1>3. db \in Tables /\ db.listed = {} /\ db.slate = {} /\ \A i \in Id : db.art[i] = a
  BY <1>1, <1>2 DEF Tables
<1>4. \A i \in Id : Says(db.art[i].content) = {} /\ db.art[i].status = "absent"
  BY <1>3, SaysNone DEF a
<1>5. Whole(db) /\ Tidy(db)
  BY <1>3, <1>4 DEF Whole, Keyed, Tidy, Seated, Distinct
<1>6. \A t \in Task : pc[t] = "idle" /\ job[t] = NoJob
  BY DEF Init
<1>7. \A t \in Task : Known(db, pc[t], job[t]) /\ Planned(db, pc[t], job[t])
  BY <1>6, NoJobKnown
<1>8. TypeOK
  <2>1. pc \in [Task -> PC] /\ job \in [Task -> Job]
    BY NoJobKnown DEF Init, PC
  <2>2. told \in [Id -> 0..2]
    BY DEF Init
  <2>3. dropped \subseteq Id /\ stale \in BOOLEAN
    BY DEF Init
  <2>4. today \in 0..LastDay /\ failures \in 0..MaxFailures /\ covered \subseteq Service
    BY ServiceAssumption, BoundAssumption DEF Init
  <2>. QED
    BY <2>1, <2>2, <2>3, <2>4, <1>3 DEF TypeOK
<1>. QED
  BY <1>5, <1>7, <1>8 DEF Room

LEMMA StepRoom ==
  ASSUME Room, NEW t \in Task, Step(t)
  PROVE  Room'
<1>1. Settled(t)
  BY StepSettles
<1>2. today' = today /\ covered' \subseteq Service /\ told' \in [Id -> 0..2] /\ dropped' \subseteq Id
  BY StepTypes
<1>3. PICK p \in PC, j \in Job : Moves(t, p, j)
  BY <1>1 DEF Settled
<1>4. /\ pc' = [pc EXCEPT ![t] = p] /\ job' = [job EXCEPT ![t] = j]
      /\ Whole(db') /\ Lasting(db, db') /\ Known(db', p, j)
      /\ ~stale' => Tidy(db') /\ Planned(db', p, j)
  BY <1>3 DEF Moves
<1>5. pc \in [Task -> PC] /\ job \in [Task -> Job]
  BY DEF Room, TypeOK
<1>6. pc' \in [Task -> PC] /\ job' \in [Task -> Job]
  BY <1>4, <1>5
<1>7. failures' \in 0..MaxFailures /\ stale' \in BOOLEAN /\ (stale => stale')
  BY <1>1 DEF Settled
<1>8. TypeOK'
  BY <1>2, <1>4, <1>6, <1>7 DEF TypeOK, Room, Whole
<1>9. ASSUME NEW u \in Task
      PROVE  Known(db', pc'[u], job'[u]) /\ (~stale' => Planned(db', pc'[u], job'[u]))
  <2>1. CASE u = t
    BY <2>1, <1>4, <1>5
  <2>2. CASE u # t
    <3>1. pc'[u] = pc[u] /\ job'[u] = job[u]
      BY <2>2, <1>4, <1>5
    <3>2. job[u] \in Job /\ Known(db, pc[u], job[u]) /\ (~stale => Planned(db, pc[u], job[u]))
      BY RoomFacts
    <3>3. /\ Known(db', pc[u], job[u])
          /\ Planned(db, pc[u], job[u]) => Planned(db', pc[u], job[u])
      BY <3>2, <1>4, KnownLasts
    <3>. QED
      BY <3>1, <3>2, <3>3, <1>7
  <2>. QED
    BY <2>1, <2>2
<1>. QED
  BY <1>4, <1>8, <1>9 DEF Room

LEMMA TickRoom ==
  ASSUME Room, Tick
  PROVE  Room'
<1>1. today' \in 0..LastDay
  BY BoundAssumption DEF Tick, Room, TypeOK
<1>2. UNCHANGED <<db, pc, job, covered, told, dropped, failures, stale>>
  BY DEF Tick
<1>. QED
  BY <1>1, <1>2 DEF Room, TypeOK

LEMMA RoomKept == Room /\ [Next]_vars => Room'
<1>. SUFFICES ASSUME Room, [Next]_vars PROVE Room'
  OBVIOUS
<1>1. CASE Tick
  BY <1>1, TickRoom
<1>2. CASE \E t \in Task : Step(t)
  BY <1>2, StepRoom
<1>3. CASE UNCHANGED vars
  BY <1>3 DEF vars, Room, TypeOK
<1>. QED
  BY <1>1, <1>2, <1>3 DEF Next

LEMMA RoomHolds == Spec => []Room
<1>. QED
  BY InitRoom, RoomKept, PTL DEF Spec

\* The tables and what the tasks keep of them have their types.
THEOREM RoomTyped == Spec => []TypeOK
<1>1. Room => TypeOK
  BY DEF Room
<1>. QED
  BY <1>1, RoomHolds, PTL

\* Statuses and slates agree, at any number of tasks, whichever call fails: the
\* rest of a selection fits next to what it has seated, because a slate that is no
\* longer as the task left it makes the task's next step stale.
THEOREM SlatesAlwaysAgree == Spec => []SlatesAgree
<1>1. Room => SlatesAgree
  <2>. SUFFICES ASSUME Room PROVE SlatesAgree
    OBVIOUS
  <2>1. NoneStranded
    BY DEF Room, Tidy, Seated, NoneStranded, RowsOf
  <2>2. SlateSound
    BY DEF Room, Tidy, Distinct, Apart, SlateSound
  <2>. QED
    BY <2>1, <2>2 DEF SlatesAgree
<1>. QED
  BY <1>1, RoomHolds, PTL

-----------------------------------------------------------------------------
(* What holds while every call works and no task is stale.                 *)

Alive(d, i) == d.art[i].status \in {"pending", "selected", "composed"}

\* An update is in one artifact that is not discarded.
Sole(d) ==
    \A i \in Id, j \in Id :
        i # j /\ Alive(d, i) /\ Alive(d, j) => Says(d.art[i].content) \cap Says(d.art[j].content) = {}

\* The cap has taken u from a text that was superseded.
CutFrom(d, i, u) == d.art[i].status = "discarded" /\ u \in BeyondCap(d.art[i].content)

Kept(d, drop) ==
    \A u \in Id : \/ u \in drop
                  \/ \A i \in Id : u \notin Says(d.art[i].content)
                  \/ \E i \in Id : u \in Says(d.art[i].content) /\ Alive(d, i)
                  \/ \E i \in Id : CutFrom(d, i, u)

\* What has been told is in the artifact it was told of.
ToldBy(d, tell) ==
    \A u \in Id :
        /\ tell[u] <= 1
        /\ tell[u] # 0 => \E i \in Id : d.art[i].status = "composed" /\ u \in Says(d.art[i].content)

\* What is being composed is in one task's hands, and has not been composed.
Locked ==
    \A t \in Task : pc[t] = "compose" =>
        /\ db.art[job[t].id].status # "composed"
        /\ \A u \in Task : u # t /\ pc[u] = "compose" => job[u].id # job[t].id

\* The inductive invariant behind IndexFollows, UpdatesKept and ToldOnce.
Exact == Synced(db) /\ Sole(db) /\ Kept(db, dropped) /\ ToldBy(db, told) /\ Locked

LEMMA UnmovedKeeps ==
  ASSUME NEW d, NEW e, Unmoved(d, e), NEW drop, NEW tell,
         Sole(d), Kept(d, drop), ToldBy(d, tell)
  PROVE  Sole(e) /\ Kept(e, drop) /\ ToldBy(e, tell)
<1>1. \A i \in Id : /\ e.art[i].status = d.art[i].status /\ e.art[i].content = d.art[i].content
                    /\ Alive(e, i) <=> Alive(d, i)
  BY DEF Unmoved, Alive
<1>2. Sole(e)
  BY <1>1 DEF Sole
<1>3. Kept(e, drop)
  <2>1. \A i \in Id, u \in Id : CutFrom(e, i, u) <=> CutFrom(d, i, u)
    BY <1>1 DEF CutFrom
  <2>. QED
    BY <2>1, <1>1 DEF Kept
<1>4. ToldBy(e, tell)
  BY <1>1 DEF ToldBy
<1>. QED
  BY <1>2, <1>3, <1>4

\* A status moves, between waiting and selected or out of them.
LEMMA MarkedKeeps ==
  ASSUME NEW d, NEW e, NEW i \in Id, d.art[i].status \in {"pending", "selected"},
         NEW s, Marked(d, e, i, s), NEW drop, NEW tell,
         Sole(d), Kept(d, drop), ToldBy(d, tell)
  PROVE  /\ Sole(e) /\ ToldBy(e, tell)
         /\ s \in {"pending", "selected", "composed"} => Kept(e, drop)
         /\ Kept(e, drop \cup Says(d.art[i].content))
         /\ s # "composed" => \A j \in Id : e.art[j].status = "composed" => d.art[j].status = "composed"
<1>1. \A j \in Id : /\ e.art[j].status = IF j = i THEN s ELSE d.art[j].status
                    /\ e.art[j].content = d.art[j].content
  BY DEF Marked
<1>2. Alive(d, i) /\ \A j \in Id : Alive(e, j) => Alive(d, j)
  BY <1>1 DEF Alive
<1>3. Sole(e)
  BY <1>1, <1>2 DEF Sole
<1>4. \A j \in Id : d.art[j].status = "composed" => e.art[j].status = "composed"
  BY <1>1
<1>5. ToldBy(e, tell)
  BY <1>1, <1>4 DEF ToldBy
<1>6. \A j \in Id : Alive(d, j) /\ j # i => Alive(e, j)
  BY <1>1 DEF Alive
<1>6a. \A j \in Id, u \in Id : CutFrom(d, j, u) => CutFrom(e, j, u)
  BY <1>1 DEF CutFrom
<1>7. ASSUME s \in {"pending", "selected", "composed"} PROVE Kept(e, drop)
  <2>1. Alive(e, i)
    BY <1>1, <1>7 DEF Alive
  <2>2. \A j \in Id : Alive(d, j) => Alive(e, j)
    BY <2>1, <1>6
  <2>3. \A j \in Id : Says(e.art[j].content) = Says(d.art[j].content)
    BY <1>1
  <2>. QED
    BY <2>2, <2>3, <1>6a DEF Kept
<1>8. Kept(e, drop \cup Says(d.art[i].content))
  <2>1. SUFFICES ASSUME NEW u \in Id, u \notin drop \cup Says(d.art[i].content),
                        ~\A j \in Id : u \notin Says(e.art[j].content),
                        ~\E j \in Id : CutFrom(e, j, u)
                 PROVE  \E j \in Id : u \in Says(e.art[j].content) /\ Alive(e, j)
    BY Zenon DEF Kept
  <2>2. ~\A j \in Id : u \notin Says(d.art[j].content)
    BY <2>1, <1>1
  <2>3. PICK j \in Id : u \in Says(d.art[j].content) /\ Alive(d, j)
    BY <2>1, <2>2, <1>6a DEF Kept
  <2>. QED
    BY <2>1, <2>3, <1>1, <1>6
<1>9. s # "composed" => \A j \in Id : e.art[j].status = "composed" => d.art[j].status = "composed"
  BY <1>1
<1>. QED
  BY <1>3, <1>5, <1>7, <1>8, <1>9

\* A new artifact takes over from what waited.
LEMMA GrownKeeps ==
  ASSUME NEW d, Whole(d), NEW n \in Id, ~Here(d, n), NEW e, NEW old,
         NEW update \in SUBSET {n}, Grown(d, e, n, old, update),
         \A j \in old : d.art[j].status = "pending",
         NEW drop, NEW tell, Sole(d), Kept(d, drop), ToldBy(d, tell), drop \subseteq Id
  PROVE  /\ Sole(e) /\ Kept(e, drop) /\ ToldBy(e, tell)
         /\ \A j \in Id : e.art[j].status = "composed" => d.art[j].status = "composed"
<1>1. /\ old \subseteq Id \ {n}
      /\ \A j \in Id \ {n} :
            /\ e.art[j].status = IF j \in old THEN "discarded" ELSE d.art[j].status
            /\ e.art[j].content = d.art[j].content
      /\ e.art[n].status = "pending"
      /\ Says(e.art[n].content) \subseteq update \cup UNION {Says(d.art[j].content) : j \in old}
      /\ \A j \in old : Says(Capped(d.art[j].content)) \subseteq Says(e.art[n].content)
  BY DEF Grown
<1>2. \A j \in Id : n \notin Says(d.art[j].content)
  BY DEF Whole
<1>3. \A j \in Id \ {n} : /\ Alive(e, j) <=> Alive(d, j) /\ j \notin old
                          /\ d.art[j].status = "composed" => e.art[j].status = "composed"
                          /\ e.art[j].status = "composed" => d.art[j].status = "composed"
  BY <1>1 DEF Alive
<1>4. Alive(e, n) /\ \A j \in old : Alive(d, j)
  BY <1>1 DEF Alive
<1>5. Sole(e)
  <2>1. ASSUME NEW j \in Id \ {n}, Alive(e, j)
        PROVE  Says(e.art[n].content) \cap Says(e.art[j].content) = {}
    <3>1. Alive(d, j) /\ j \notin old /\ e.art[j].content = d.art[j].content
      BY <2>1, <1>1, <1>3
    <3>2. \A k \in old : Says(d.art[k].content) \cap Says(d.art[j].content) = {}
      BY <3>1, <1>1, <1>4 DEF Sole
    <3>3. update \cap Says(d.art[j].content) = {}
      BY <1>2
    <3>. QED
      BY <3>1, <3>2, <3>3, <1>1
  <2>2. ASSUME NEW i \in Id \ {n}, NEW j \in Id \ {n}, i # j, Alive(e, i), Alive(e, j)
        PROVE  Says(e.art[i].content) \cap Says(e.art[j].content) = {}
    BY <2>2, <1>1, <1>3 DEF Sole
  <2>3. SUFFICES ASSUME NEW i \in Id, NEW j \in Id, i # j, Alive(e, i), Alive(e, j)
                 PROVE  Says(e.art[i].content) \cap Says(e.art[j].content) = {}
    BY DEF Sole
  <2>4. CASE i = n
    BY <2>4, <2>3, <2>1
  <2>5. CASE j = n
    BY <2>5, <2>3, <2>1
  <2>. QED
    BY <2>2, <2>3, <2>4, <2>5
<1>6. Kept(e, drop)
  <2>1. SUFFICES ASSUME NEW u \in Id, u \notin drop, NEW j \in Id, u \in Says(e.art[j].content)
                 PROVE  \/ \E k \in Id : u \in Says(e.art[k].content) /\ Alive(e, k)
                        \/ \E k \in Id : CutFrom(e, k, u)
    BY Zenon DEF Kept
  <2>2. CASE j = n
    BY <2>1, <2>2, <1>4
  <2>3. CASE j # n
    <3>1. u \in Says(d.art[j].content)
      BY <2>1, <2>3, <1>1
    <3>2. \/ \E k \in Id : u \in Says(d.art[k].content) /\ Alive(d, k)
          \/ \E k \in Id : CutFrom(d, k, u)
      BY <2>1, <3>1 DEF Kept
    <3>3. CASE \E k \in Id : CutFrom(d, k, u)
      <4>1. PICK k \in Id : CutFrom(d, k, u)
        BY <3>3
      <4>2. k # n
        BY <4>1 DEF CutFrom, Here
      <4>3. CutFrom(e, k, u)
        BY <4>1, <4>2, <1>1 DEF CutFrom
      <4>. QED
        BY <4>3
    <3>4. ASSUME NEW k \in Id, u \in Says(d.art[k].content), Alive(d, k)
          PROVE  \/ \E m \in Id : u \in Says(e.art[m].content) /\ Alive(e, m)
                 \/ \E m \in Id : CutFrom(e, m, u)
      <4>1. k # n
        BY <3>4 DEF Alive, Here
      <4>2. CASE k \notin old
        BY <3>4, <4>1, <4>2, <1>1, <1>3
      <4>3. CASE k \in old /\ u \in BeyondCap(d.art[k].content)
        <5>1. CutFrom(e, k, u)
          BY <4>1, <4>3, <1>1 DEF CutFrom
        <5>. QED
          BY <5>1
      <4>4. CASE k \in old /\ u \notin BeyondCap(d.art[k].content)
        <5>1. d.art[k].content \in Seq(Id)
          BY TablesTypes DEF Whole
        <5>2. u \in Says(Capped(d.art[k].content))
          BY <5>1, <3>4, <4>4, CapLeaves
        <5>. QED
          BY <5>2, <4>4, <1>1, <1>4
      <4>. QED
        BY <4>2, <4>3, <4>4
    <3>. QED
      BY <3>2, <3>3, <3>4
  <2>. QED
    BY <2>2, <2>3
<1>7. ToldBy(e, tell)
  <2>1. \A j \in Id : d.art[j].status = "composed" => j # n
    BY DEF Here
  <2>. QED
    BY <2>1, <1>1, <1>3 DEF ToldBy
<1>. QED
  BY <1>1, <1>3, <1>5, <1>6, <1>7

\* Nothing has failed, and no task is stale.
AllWell == Room /\ Exact /\ failures' = 0 /\ ~stale /\ ~stale'

\* What a step of t comes to then, if t is not about to compose.
Works(t) ==
    /\ Synced(db') /\ Sole(db') /\ Kept(db', dropped') /\ ToldBy(db', told')
    /\ pc'[t] # "compose"
    /\ \A j \in Id : db'.art[j].status = "composed" => db.art[j].status = "composed"

\* A call that does not fail is made whole.
LEMMA MakesWhole ==
  ASSUME Room, failures' = 0, NEW t \in Task, NEW steps, NEW next, NEW task,
         Makes(t, steps, next, task)
  PROVE  db' = Last(steps) /\ pc'[t] = next
<1>1. pc \in [Task -> PC] /\ failures \in 0..MaxFailures
  BY DEF Room, TypeOK
<1>2. ~Dies(t)
  BY <1>1, BoundAssumption DEF Dies
<1>3. db' = Last(steps) /\ Goto(t, next, task)
  BY <1>2 DEF Makes
<1>. QED
  BY <1>1, <1>3 DEF Goto

LEMMA ReadsWhole ==
  ASSUME Room, NEW t \in Task, NEW next, NEW task, Reads(t, next, task)
  PROVE  db' = db /\ pc'[t] = next
BY DEF Reads, Goto, Room, TypeOK

LEMMA NotStale ==
  ASSUME Room, ~stale', NEW what \in BOOLEAN, StaleIf(what)
  PROVE  ~what
BY StaleSettles

LEMMA WellUnmoved ==
  ASSUME AllWell, NEW t \in Task, Unmoved(db, db'), Synced(db'),
         told' = told, dropped' = dropped, pc'[t] # "compose"
  PROVE  Works(t)
<1>1. Sole(db) /\ Kept(db, dropped) /\ ToldBy(db, told)
  BY DEF AllWell, Exact
<1>2. Sole(db') /\ Kept(db', dropped) /\ ToldBy(db', told)
  BY <1>1, UnmovedKeeps
<1>. QED
  BY <1>2 DEF Works, Unmoved

LEMMA WellMarked ==
  ASSUME AllWell, NEW t \in Task, NEW i \in Id, db.art[i].status \in {"pending", "selected"},
         NEW s \in {"pending", "selected"}, Marked(db, db', i, s), Synced(db'),
         told' = told, dropped' = dropped, pc'[t] # "compose"
  PROVE  Works(t)
<1>1. Sole(db) /\ Kept(db, dropped) /\ ToldBy(db, told)
  BY DEF AllWell, Exact
<1>2. /\ Sole(db') /\ Kept(db', dropped) /\ ToldBy(db', told)
      /\ \A j \in Id : db'.art[j].status = "composed" => db.art[j].status = "composed"
  BY <1>1, MarkedKeeps
<1>. QED
  BY <1>2 DEF Works

LEMMA WellDropped ==
  ASSUME AllWell, NEW t \in Task, NEW i \in Id, db.art[i].status \in {"pending", "selected"},
         Marked(db, db', i, "discarded"), Synced(db'), told' = told,
         dropped' = dropped \cup Says(db.art[i].content), pc'[t] # "compose"
  PROVE  Works(t)
<1>1. Sole(db) /\ Kept(db, dropped) /\ ToldBy(db, told)
  BY DEF AllWell, Exact
<1>2. /\ Sole(db') /\ Kept(db', dropped \cup Says(db.art[i].content)) /\ ToldBy(db', told)
      /\ "discarded" # "composed" =>
            \A j \in Id : db'.art[j].status = "composed" => db.art[j].status = "composed"
  BY <1>1, MarkedKeeps, Zenon
<1>. QED
  BY <1>2 DEF Works

LEMMA WellGrown ==
  ASSUME AllWell, NEW t \in Task, NEW n \in Id, ~Here(db, n), NEW old,
         NEW update \in SUBSET {n}, Grown(db, db', n, old, update),
         \A j \in old : db.art[j].status = "pending", Synced(db'),
         told' = told, dropped' = dropped, pc'[t] # "compose"
  PROVE  Works(t)
<1>1. Sole(db) /\ Kept(db, dropped) /\ ToldBy(db, told) /\ Whole(db) /\ dropped \subseteq Id
  BY DEF AllWell, Exact, Room, TypeOK
<1>2. /\ Sole(db') /\ Kept(db', dropped) /\ ToldBy(db', told)
      /\ \A j \in Id : db'.art[j].status = "composed" => db.art[j].status = "composed"
  BY <1>1, GrownKeeps
<1>. QED
  BY <1>2 DEF Works

\* A step that only reads.
LEMMA WellRead ==
  ASSUME AllWell, NEW t \in Task, NEW next, NEW task, Reads(t, next, task), next # "compose",
         told' = told, dropped' = dropped
  PROVE  Works(t)
<1>1. db' = db /\ pc'[t] = next
  BY ReadsWhole DEF AllWell
<1>2. Unmoved(db, db') /\ Synced(db')
  BY <1>1 DEF Unmoved, AllWell, Exact
<1>. QED
  BY <1>1, <1>2, WellUnmoved

LEMMA ReadersWell ==
  ASSUME AllWell, NEW t \in Task,
         \/ StartSelect(t) \/ StartRedo(t) \/ StartDrain(t) \/ DrainNext(t) \/ DrainEnds(t)
         \/ ComposeNow(t) \/ Leaves(t) \/ StartReclaim(t) \/ Probe(t) \/ StartMerge(t)
  PROVE  Works(t)
<1>1. ASSUME NEW next, NEW task, Begins(t, next, task), next # "compose"
      PROVE  Works(t)
  BY <1>1, WellRead DEF Begins
<1>2. CASE StartSelect(t) \/ StartRedo(t) \/ StartDrain(t) \/ ComposeNow(t)
  BY <1>1, <1>2 DEF StartSelect, StartRedo, StartDrain, ComposeNow
<1>3. CASE StartReclaim(t) \/ Probe(t) \/ StartMerge(t)
  BY <1>1, <1>3 DEF StartReclaim, Probe, StartMerge
<1>4. CASE DrainNext(t)
  <2>1. ASSUME NEW next, NEW task, Reads(t, next, task), next # "compose" PROVE Works(t)
    BY <2>1, <1>4, WellRead DEF DrainNext
  <2>. QED
    BY <2>1, <1>4 DEF DrainNext
<1>5. CASE DrainEnds(t)
  BY <1>5, WellRead DEF DrainEnds
<1>6. CASE Leaves(t)
  <2>1. Onward(t) # "compose"
    BY DEF Onward
  <2>. QED
    BY <2>1, <1>6, WellRead DEF Leaves
<1>. QED
  BY <1>2, <1>3, <1>4, <1>5, <1>6

LEMMA CrawlWell ==
  ASSUME AllWell, NEW t \in Task, Crawl(t)
  PROVE  Works(t)
<1>1. PICK n \in Id, s \in Service \cup {NoService} :
        IsNext(n) /\ Makes(t, Insert(db, n, s, <<n>>), "idle", NoJob)
  BY DEF Crawl
<1>2. Room /\ Whole(db) /\ failures' = 0 /\ Synced(db)
  BY DEF AllWell, Room, Exact
<1>3. ~Here(db, n)
  BY <1>1, BoundAssumption DEF IsNext, Here, Id
<1>4. db' = Last(Insert(db, n, s, <<n>>)) /\ pc'[t] = "idle"
  BY <1>1, <1>2, MakesWhole
<1>5. Succeeds(db, db', n, {}, {n}) /\ Synced(db')
  BY <1>2, <1>3, <1>4, CrawlCalls
<1>6. PICK old \in SUBSET Id : /\ Grown(db, db', n, old \cup {}, {n})
                               /\ \A j \in old \cup {} : db.art[j].status = "pending"
  BY <1>2, <1>5 DEF Succeeds
<1>7. told' = told /\ dropped' = dropped
  BY DEF Crawl
<1>. QED
  BY <1>3, <1>4, <1>5, <1>6, <1>7, WellGrown

LEMMA ClearWell ==
  ASSUME AllWell, NEW t \in Task, Clear(t) \/ ResetDay(t)
  PROVE  Works(t)
<1>1. Room /\ Whole(db) /\ failures' = 0 /\ Synced(db)
  BY DEF AllWell, Room, Exact
<1>. DEFINE cleared == Cleared(db, SlateOf(db, job[t].day))
            next == IF Clear(t) THEN IF Plan(db, job[t].day) = {} THEN "idle" ELSE "place"
                    ELSE "clear"
<1>2. \E task : Makes(t, <<cleared>>, next, task)
  BY DEF Clear, ResetDay
<1>3. next # "compose" /\ told' = told /\ dropped' = dropped
  BY DEF Clear, ResetDay
<1>. HIDE DEF next
<1>4. db' = Last(<<cleared>>) /\ pc'[t] = next
  BY <1>1, <1>2, MakesWhole
<1>5. Unmoved(db, cleared) /\ Synced(cleared) /\ cleared \in Tables
  BY <1>1, ClearedCalls
<1>. HIDE DEF cleared
<1>6. db' = cleared
  BY <1>4, <1>5, OneStatement
<1>. QED
  BY <1>3, <1>4, <1>5, <1>6, WellUnmoved

LEMMA PlaceWell ==
  ASSUME AllWell, NEW t \in Task, Place(t)
  PROVE  Works(t)
<1>. DEFINE p == FirstRow(job[t].plan)
            day == job[t].day
            rest == job[t].plan \ {p}
            steps == InsertSlot(db, p, day)
            seen == SlateOf(Last(steps), day)
            what == SlateMoved(t) \/ PickMoved(p, day)
            next == IF rest # {} THEN "place" ELSE Then(t, Last(steps))
            task == IF rest # {} THEN [job[t] EXCEPT !.plan = rest, !.seen = seen]
                    ELSE Slate(t, Last(steps))
<1>1. Room /\ Whole(db) /\ failures' = 0 /\ Synced(db) /\ ~stale'
  BY DEF AllWell, Room, Exact
<1>2. /\ pc[t] = "place" /\ StaleIf(what) /\ Makes(t, steps, next, task)
      /\ told' = told /\ dropped' = dropped
  BY DEF Place
<1>3. db.art[p.id].status = "pending"
  <2>1. what \in BOOLEAN
    BY DEF SlateMoved, PickMoved
  <2>2. ~what
    BY <1>1, <1>2, <2>1, NotStale
  <2>. QED
    BY <2>2 DEF PickMoved
<1>4. p \in Pick /\ Here(db, p.id) /\ day \in Day
  <2>1. /\ job[t] \in Job /\ job[t].plan # {}
        /\ \A r \in job[t].plan : r.slot \in Nat /\ Here(db, r.id)
    BY <1>1, <1>2, RoomFacts DEF Known
  <2>2. p \in job[t].plan
    BY <2>1, FirstRowOf
  <2>. QED
    BY <2>1, <2>2, JobTypes
<1>5. next # "compose"
  BY DEF Then
<1>. HIDE DEF next, task, p, day
<1>6. db' = Last(steps) /\ pc'[t] = next
  BY <1>1, <1>2, MakesWhole
<1>7. Marked(db, db', p.id, "selected") /\ Synced(db')
  BY <1>1, <1>4, <1>6, InsertSlotCalls
<1>8. p.id \in Id
  BY <1>4 DEF Pick
<1>. QED
  BY <1>2, <1>3, <1>5, <1>6, <1>7, <1>8, WellMarked

LEMMA ResetRowWell ==
  ASSUME AllWell, NEW t \in Task, ResetRow(t)
  PROVE  Works(t)
<1>. DEFINE r == FirstRow(job[t].rows)
            rest == [job[t] EXCEPT !.rows = @ \ {r}]
<1>1. Room /\ Whole(db) /\ failures' = 0 /\ Synced(db)
  BY DEF AllWell, Room, Exact
<1>2. /\ job[t].rows # {} /\ told' = told /\ dropped' = dropped
      /\ IF db.art[r.id].status = "selected"
         THEN Makes(t, Revert(db, r.id), "reset", rest)
         ELSE Reads(t, "reset", rest)
  BY DEF ResetRow
<1>3. r.id \in Id
  <2>1. \A o \in job[t].rows : o.id \in Id /\ o.slot \in Nat
    BY <1>1, RoomFacts
  <2>. QED
    BY <2>1, <1>2, FirstRowOf
<1>. HIDE DEF r, rest
<1>4. CASE db.art[r.id].status = "selected"
  <2>1. db' = Last(Revert(db, r.id)) /\ pc'[t] = "reset"
    BY <1>1, <1>2, <1>4, MakesWhole
  <2>2. Marked(db, db', r.id, "pending") /\ Synced(db')
    BY <2>1, <1>1, <1>3, <1>4, RevertCalls
  <2>. QED
    BY <2>1, <2>2, <1>2, <1>3, <1>4, WellMarked
<1>5. CASE db.art[r.id].status # "selected"
  BY <1>2, <1>5, WellRead
<1>. QED
  BY <1>4, <1>5

LEMMA PinForTomorrowWell ==
  ASSUME AllWell, NEW t \in Task, PinForTomorrow(t)
  PROVE  Works(t)
<1>1. PICK i \in Id : /\ db.art[i].status = "pending"
                      /\ Makes(t, PinFor(db, i, today + 1), "idle", NoJob)
  BY DEF PinForTomorrow
<1>2. Room /\ Whole(db) /\ failures' = 0 /\ Synced(db)
  BY DEF AllWell, Room, Exact
<1>3. today + 1 \in Day
  BY <1>2, BoundAssumption DEF PinForTomorrow, Room, TypeOK, Day
<1>4. db' = Last(PinFor(db, i, today + 1)) /\ pc'[t] = "idle"
  BY <1>1, <1>2, MakesWhole
<1>5. Unmoved(db, db') /\ Synced(db')
  BY <1>1, <1>2, <1>3, <1>4, PinForCalls
<1>6. told' = told /\ dropped' = dropped
  BY DEF PinForTomorrow
<1>. QED
  BY <1>4, <1>5, <1>6, WellUnmoved

LEMMA SweepWell ==
  ASSUME AllWell, NEW t \in Task, Sweep(t)
  PROVE  Works(t)
<1>1. PICK i \in Id, p \in 0..MaxPriority :
        Live(i) /\ Makes(t, Reprioritise(db, i, p), "idle", NoJob)
  BY DEF Sweep
<1>2. Room /\ Whole(db) /\ failures' = 0 /\ Synced(db) /\ Here(db, i) /\ p \in Priority
  BY <1>1, BoundAssumption DEF AllWell, Room, Exact, Live, Here, Priority
<1>3. db' = Last(Reprioritise(db, i, p)) /\ pc'[t] = "idle"
  BY <1>1, <1>2, MakesWhole
<1>4. Unmoved(db, db') /\ Synced(db')
  BY <1>2, <1>3, ReprioritiseCalls
<1>5. told' = told /\ dropped' = dropped
  BY DEF Sweep
<1>. QED
  BY <1>3, <1>4, <1>5, WellUnmoved

LEMMA DropsWell ==
  ASSUME AllWell, NEW t \in Task, pc[t] \in {"weigh", "compose"}, Drops(t)
  PROVE  Works(t)
<1>. DEFINE i == job[t].id
<1>1. Room /\ Whole(db) /\ failures' = 0 /\ Synced(db) /\ ~stale'
  BY DEF AllWell, Room, Exact
<1>2. /\ Makes(t, Mark(db, i, "discarded"), Onward(t), Rest(t)) /\ StaleIf(~Live(i))
      /\ told' = told /\ dropped' = dropped \cup Says(db.art[i].content)
  BY DEF Drops
<1>3. i \in Id
  BY <1>1, RoomFacts DEF Known
<1>4. Live(i) \in BOOLEAN
  BY DEF Live
<1>5. db.art[i].status \in {"pending", "selected"}
  BY <1>1, <1>2, <1>4, NotStale DEF Live
<1>6. Onward(t) # "compose"
  BY DEF Onward
<1>7. db' = Last(Mark(db, i, "discarded")) /\ pc'[t] = Onward(t)
  BY <1>1, <1>2, MakesWhole
<1>8. Marked(db, db', i, "discarded") /\ Synced(db')
  BY <1>1, <1>3, <1>7, MarkCalls
<1>. QED
  BY <1>2, <1>3, <1>5, <1>6, <1>7, <1>8, WellDropped

LEMMA DiscardDeadWell ==
  ASSUME AllWell, NEW t \in Task, DiscardDead(t)
  PROVE  Works(t)
<1>. DEFINE i == job[t].id
<1>1. Room /\ Whole(db) /\ failures' = 0 /\ Synced(db) /\ ~stale'
  BY DEF AllWell, Room, Exact
<1>2. /\ pc[t] = "dead" /\ Makes(t, Mark(db, i, "discarded"), "idle", NoJob)
      /\ StaleIf(db.art[i].status # "pending")
      /\ told' = told /\ dropped' = dropped \cup Says(db.art[i].content)
  BY DEF DiscardDead
<1>3. i \in Id
  BY <1>1, <1>2, RoomFacts DEF Known
<1>4. db.art[i].status = "pending"
  BY <1>1, <1>2, NotStale
<1>5. db' = Last(Mark(db, i, "discarded")) /\ pc'[t] = "idle"
  BY <1>1, <1>2, MakesWhole
<1>6. Marked(db, db', i, "discarded") /\ Synced(db')
  BY <1>1, <1>3, <1>5, MarkCalls
<1>. QED
  BY <1>2, <1>3, <1>4, <1>5, <1>6, WellDropped

LEMMA ReclaimRowWell ==
  ASSUME AllWell, NEW t \in Task, ReclaimRow(t)
  PROVE  Works(t)
<1>1. Room /\ Whole(db) /\ failures' = 0 /\ Synced(db)
  BY DEF AllWell, Room, Exact
<1>2. told' = told /\ dropped' = dropped
  BY DEF ReclaimRow
<1>3. PICK r \in job[t].rows :
        /\ OpenDays(t) # {} /\ Boosted(r.id) \in Priority
        /\ \E next \in {"idle", "reclaim"}, claimed \in {job[t].claimed, job[t].claimed \cup {NextOpenDay(t)}} :
              IF db.art[r.id].status = "selected"
              THEN Makes(t, CarryForward(t, r), next,
                         [job[t] EXCEPT !.rows = job[t].rows \ {r}, !.claimed = claimed])
              ELSE Reads(t, next, [job[t] EXCEPT !.rows = job[t].rows \ {r}, !.claimed = claimed])
  <2>. DEFINE next(r) == IF job[t].rows \ {r} = {} THEN "idle" ELSE "reclaim"
              claimed(r) == IF r.lane = "human" THEN job[t].claimed \cup {NextOpenDay(t)}
                            ELSE job[t].claimed
              task(r) == [job[t] EXCEPT !.rows = job[t].rows \ {r}, !.claimed = claimed(r)]
  <2>1. PICK r \in job[t].rows :
          /\ OpenDays(t) # {} /\ Boosted(r.id) \in Priority
          /\ IF db.art[r.id].status = "selected"
             THEN Makes(t, CarryForward(t, r), next(r), task(r))
             ELSE Reads(t, next(r), task(r))
    BY DEF ReclaimRow
  <2>2. /\ next(r) \in {"idle", "reclaim"}
        /\ claimed(r) \in {job[t].claimed, job[t].claimed \cup {NextOpenDay(t)}}
    OBVIOUS
  <2>. HIDE DEF next, claimed
  <2>. QED
    BY <2>1, <2>2
<1>4. r.id \in Id
  BY <1>1, RoomFacts
<1>5. CASE db.art[r.id].status = "selected"
  <2>1. PICK next \in {"idle", "reclaim"} : \E task : Makes(t, CarryForward(t, r), next, task)
    BY <1>3, <1>5
  <2>2. db' = Last(CarryForward(t, r)) /\ pc'[t] = next
    BY <1>1, <2>1, MakesWhole
  <2>3. Marked(db, db', r.id, "pending") /\ Synced(db')
    BY <2>2, <1>1, <1>3, <1>4, <1>5, CarryForwardCalls
  <2>. QED
    BY <2>1, <2>2, <2>3, <1>2, <1>4, <1>5, WellMarked
<1>6. CASE db.art[r.id].status # "selected"
  <2>1. PICK next \in {"idle", "reclaim"} : \E task : Reads(t, next, task)
    BY <1>3, <1>6
  <2>. QED
    BY <2>1, <1>2, WellRead
<1>. QED
  BY <1>5, <1>6

LEMMA MergeOneWell ==
  ASSUME AllWell, NEW t \in Task, MergeOne(t)
  PROVE  Works(t)
<1>. DEFINE i == Oldest(job[t].ids)
            steps(n) == Mark(db, i, "discarded")
                          \o Insert(Last(Mark(db, i, "discarded")), n, job[t].service,
                                    db.art[i].content)
            next == IF job[t].ids \ {i} = {} THEN "idle" ELSE "merge"
            task == [job[t] EXCEPT !.ids = job[t].ids \ {i}]
<1>1. Room /\ Whole(db) /\ failures' = 0 /\ Synced(db) /\ ~stale'
  BY DEF AllWell, Room, Exact
<1>2. /\ pc[t] = "merge" /\ StaleIf(db.art[i].status # "pending")
      /\ told' = told /\ dropped' = dropped
      /\ \E n \in Id : IsNext(n) /\ Makes(t, steps(n), next, task)
  BY DEF MergeOne
<1>3. PICK n \in Id : IsNext(n) /\ Makes(t, steps(n), next, task)
  BY <1>2
<1>4. db.art[i].status = "pending"
  BY <1>1, <1>2, NotStale
<1>5. i \in Id /\ Here(db, i) /\ job[t].service \in Service \cup {NoService}
  <2>1. /\ job[t] \in Job /\ job[t].ids # {} /\ job[t].ids \subseteq Id
    BY <1>1, <1>2, RoomFacts, JobTypes DEF Known
  <2>2. i \in job[t].ids
    BY <2>1, OldestOf
  <2>. QED
    BY <2>1, <2>2, <1>4, JobTypes DEF Here
<1>6. ~Here(db, n)
  BY <1>3, BoundAssumption DEF IsNext, Here, Id
<1>7. next # "compose"
  OBVIOUS
<1>8. (Synced(db) => Synced(Last(steps(n)))) /\ Succeeds(db, Last(steps(n)), n, {i}, {})
  <2>1. /\ Calls(db, steps(n))
        /\ Synced(db) => Synced(Last(steps(n)))
        /\ Synced(db) /\ db.art[i].status = "pending" => Succeeds(db, Last(steps(n)), n, {i}, {})
    BY <1>1, <1>3, <1>5, <1>6, MergeCalls
  <2>. QED
    BY <2>1, <1>1, <1>4
<1>. HIDE DEF i, steps, next
<1>9. db' = Last(steps(n)) /\ pc'[t] = next
  BY <1>1, <1>3, MakesWhole
<1>10. PICK old \in SUBSET Id : /\ Grown(db, db', n, old \cup {i}, {})
                                /\ \A j \in old \cup {i} : db.art[j].status = "pending"
  BY <1>1, <1>8, <1>9 DEF Succeeds
<1>11. {} \in SUBSET {n}
  OBVIOUS
<1>. QED
  BY <1>1, <1>2, <1>3, <1>6, <1>7, <1>8, <1>9, <1>10, <1>11, WellGrown

\* What the other tasks compose stays in their hands.
LEMMA WorksExact ==
  ASSUME AllWell, NEW t \in Task, Settled(t), Works(t)
  PROVE  Exact'
<1>1. PICK p \in PC, j \in Job : pc' = [pc EXCEPT ![t] = p] /\ job' = [job EXCEPT ![t] = j]
  BY DEF Settled, Moves
<1>2. \A u \in Task \ {t} : pc'[u] = pc[u] /\ job'[u] = job[u]
  BY <1>1 DEF AllWell, Room, TypeOK
<1>3. \A u \in Task : pc[u] = "compose" => job[u].id \in Id
  BY RoomFacts DEF AllWell, Known
<1>4. Locked'
  BY <1>2, <1>3 DEF Works, AllWell, Exact, Locked
<1>. QED
  BY <1>4 DEF Works, Exact

LEMMA ResolveExact ==
  ASSUME AllWell, NEW t \in Task, Settled(t), Resolve(t)
  PROVE  Exact'
<1>. DEFINE i == job[t].id
<1>1. /\ Room /\ Whole(db) /\ failures' = 0 /\ ~stale'
      /\ Synced(db) /\ Sole(db) /\ Kept(db, dropped) /\ ToldBy(db, told) /\ Locked
  BY DEF AllWell, Room, Exact
<1>2. /\ pc[t] = "compose" /\ Makes(t, Mark(db, i, "composed"), Onward(t), Rest(t))
      /\ StaleIf(db.art[i].status = "discarded") /\ dropped' = dropped
      /\ told' = [u \in Id |-> IF u \in Says(db.art[i].content) /\ told[u] < 2
                               THEN told[u] + 1 ELSE told[u]]
  BY DEF Resolve
<1>3. i \in Id /\ Here(db, i)
  BY <1>1, <1>2, RoomFacts DEF Known
<1>4. db.art[i].status \in {"pending", "selected"}
  <2>1. db.art[i].status # "composed"
    BY <1>1, <1>2 DEF Locked
  <2>2. db.art[i].status # "discarded"
    BY <1>1, <1>2, NotStale
  <2>3. db.art[i].status \in Status
    BY <1>1, <1>3, TablesTypes DEF Whole
  <2>. QED
    BY <2>1, <2>2, <2>3, <1>3 DEF Here, Status
<1>5. db' = Last(Mark(db, i, "composed")) /\ pc'[t] = Onward(t)
  BY <1>1, <1>2, MakesWhole
<1>6. Marked(db, db', i, "composed") /\ Synced(db')
  BY <1>1, <1>3, <1>5, MarkCalls
<1>7. Sole(db') /\ Kept(db', dropped)
  <2>1. /\ Sole(db')
        /\ "composed" \in {"pending", "selected", "composed"} => Kept(db', dropped)
    BY <1>1, <1>3, <1>4, <1>6, MarkedKeeps, Zenon
  <2>. QED
    BY <2>1
<1>8. \A j \in Id : /\ db'.art[j].status = IF j = i THEN "composed" ELSE db.art[j].status
                    /\ db'.art[j].content = db.art[j].content
  BY <1>6 DEF Marked
<1>9. ToldBy(db', told')
  <2>1. told \in [Id -> 0..2]
    BY <1>1 DEF Room, TypeOK
  <2>2. SUFFICES ASSUME NEW u \in Id
                 PROVE  /\ told'[u] <= 1
                        /\ told'[u] # 0 => \E j \in Id : /\ db'.art[j].status = "composed"
                                                         /\ u \in Says(db'.art[j].content)
    BY DEF ToldBy
  <2>3. /\ told[u] <= 1
        /\ told[u] # 0 => \E j \in Id : db.art[j].status = "composed" /\ u \in Says(db.art[j].content)
    BY <1>1 DEF ToldBy
  <2>4. CASE u \in Says(db.art[i].content)
    <3>1. told[u] = 0
      <4>1. ASSUME NEW j \in Id, db.art[j].status = "composed", u \in Says(db.art[j].content)
            PROVE  FALSE
        <5>1. j # i /\ Alive(db, j) /\ Alive(db, i)
          BY <4>1, <1>4 DEF Alive
        <5>. QED
          BY <5>1, <4>1, <2>4, <1>1, <1>3 DEF Sole
      <4>. QED
        BY <4>1, <2>3
    <3>2. told'[u] = 1
      BY <3>1, <2>4, <1>2
    <3>. QED
      BY <3>2, <2>4, <1>3, <1>8
  <2>5. CASE u \notin Says(db.art[i].content)
    <3>1. told'[u] = told[u]
      BY <2>5, <1>2
    <3>. QED
      BY <3>1, <2>3, <1>8
  <2>. QED
    BY <2>4, <2>5
<1>10. Locked'
  <2>1. PICK p \in PC, j \in Job : pc' = [pc EXCEPT ![t] = p] /\ job' = [job EXCEPT ![t] = j]
    BY DEF Settled, Moves
  <2>2. \A u \in Task \ {t} : pc'[u] = pc[u] /\ job'[u] = job[u]
    BY <2>1 DEF AllWell, Room, TypeOK
  <2>3. \A u \in Task : pc[u] = "compose" => job[u].id \in Id
    BY RoomFacts DEF AllWell, Known
  <2>4. pc'[t] # "compose"
    BY <1>5 DEF Onward
  <2>5. \A u \in Task \ {t} : pc[u] = "compose" => job[u].id # i
    BY <1>1, <1>2 DEF Locked
  <2>. HIDE DEF i
  <2>. QED
    BY <2>2, <2>3, <2>4, <2>5, <1>1, <1>8 DEF Locked
<1>. QED
  BY <1>2, <1>6, <1>7, <1>9, <1>10 DEF Exact

LEMMA ComposeExact ==
  ASSUME AllWell, NEW t \in Task, Compose(t)
  PROVE  Exact'
<1>. DEFINE i == job[t].id
<1>1. Room /\ ~stale' /\ Exact
  BY DEF AllWell
<1>2. /\ pc[t] = "weigh" /\ \A u \in Task : pc[u] = "compose" => job[u].id # i
      /\ Reads(t, "compose", job[t]) /\ StaleIf(~Live(i)) /\ dropped' = dropped /\ told' = told
  BY DEF Compose
<1>3. Live(i)
  <2>1. Live(i) \in BOOLEAN
    BY DEF Live
  <2>. QED
    BY <2>1, <1>1, <1>2, NotStale
<1>4. /\ db' = db /\ pc' = [pc EXCEPT ![t] = "compose"] /\ job' = [job EXCEPT ![t] = job[t]]
  BY <1>2 DEF Reads, Goto
<1>5. job' = job /\ pc'[t] = "compose" /\ \A u \in Task \ {t} : pc'[u] = pc[u]
  BY <1>1, <1>4 DEF Room, TypeOK
<1>6. db.art[i].status # "composed"
  BY <1>3 DEF Live
<1>7. Locked'
  BY <1>1, <1>2, <1>4, <1>5, <1>6 DEF Exact, Locked
<1>. QED
  BY <1>1, <1>2, <1>4, <1>7 DEF Exact

LEMMA StepExact ==
  ASSUME AllWell, NEW t \in Task, Step(t)
  PROVE  Exact'
<1>1. Settled(t)
  BY StepSettles DEF AllWell
<1>2. CASE Compose(t)
  BY <1>2, ComposeExact
<1>3. CASE Resolve(t)
  BY <1>1, <1>3, ResolveExact
<1>4. CASE ~(Compose(t) \/ Resolve(t))
  <2>. SUFFICES Works(t)
    BY <1>1, WorksExact
  <2>1. CASE GateDrops(t) \/ ComposeDrops(t)
    BY <2>1, DropsWell DEF GateDrops, ComposeDrops
  <2>2. CASE Crawl(t) \/ Clear(t) \/ ResetDay(t) \/ Place(t) \/ ResetRow(t)
    BY <2>2, CrawlWell, ClearWell, PlaceWell, ResetRowWell
  <2>3. CASE PinForTomorrow(t) \/ Sweep(t) \/ DiscardDead(t) \/ ReclaimRow(t) \/ MergeOne(t)
    BY <2>3, PinForTomorrowWell, SweepWell, DiscardDeadWell, ReclaimRowWell, MergeOneWell
  <2>4. CASE \/ StartSelect(t) \/ StartRedo(t) \/ StartDrain(t) \/ DrainNext(t) \/ DrainEnds(t)
             \/ ComposeNow(t) \/ Leaves(t) \/ StartReclaim(t) \/ Probe(t) \/ StartMerge(t)
    BY <2>4, ReadersWell
  <2>. QED
    BY <2>1, <2>2, <2>3, <2>4, <1>4, Zenon DEF Step
<1>. QED
  BY <1>2, <1>3, <1>4

LEMMA FailuresAddUp ==
  ASSUME NEW t \in Task, Step(t)
  PROVE  failures' = failures \/ failures' = failures + 1
<1>1. ASSUME NEW steps, NEW next, NEW task, Makes(t, steps, next, task)
      PROVE  failures' = failures \/ failures' = failures + 1
  BY <1>1 DEF Makes, Dies
<1>2. ASSUME NEW next, NEW task, Reads(t, next, task)
      PROVE  failures' = failures
  BY <1>2 DEF Reads
<1>3. ASSUME NEW next, NEW task, Begins(t, next, task)
      PROVE  failures' = failures
  BY <1>3 DEF Begins, Reads
<1>4. CASE Crawl(t) \/ Clear(t) \/ Place(t) \/ ResetRow(t) \/ ResetDay(t)
  BY <1>1, <1>2, <1>4 DEF Crawl, Clear, Place, ResetRow, ResetDay
<1>5. CASE PinForTomorrow(t) \/ Resolve(t) \/ ReclaimRow(t) \/ Sweep(t) \/ DiscardDead(t)
  BY <1>1, <1>2, <1>5 DEF PinForTomorrow, Resolve, ReclaimRow, Sweep, DiscardDead
<1>6. CASE MergeOne(t) \/ GateDrops(t) \/ ComposeDrops(t)
  BY <1>1, <1>6 DEF MergeOne, GateDrops, ComposeDrops, Drops
<1>7. CASE StartSelect(t) \/ StartRedo(t) \/ StartDrain(t) \/ ComposeNow(t)
  BY <1>3, <1>7 DEF StartSelect, StartRedo, StartDrain, ComposeNow
<1>8. CASE StartReclaim(t) \/ Probe(t) \/ StartMerge(t)
  BY <1>3, <1>8 DEF StartReclaim, Probe, StartMerge
<1>9. CASE DrainNext(t) \/ DrainEnds(t) \/ Leaves(t) \/ Compose(t)
  BY <1>2, <1>9 DEF DrainNext, DrainEnds, Leaves, Compose
<1>. QED
  BY <1>4, <1>5, <1>6, <1>7, <1>8, <1>9, Zenon DEF Step

InOrder == Room /\ (Healthy /\ ~stale => Exact)

LEMMA InitInOrder == Init => InOrder
<1>. SUFFICES ASSUME Init PROVE Exact
  BY InitRoom DEF InOrder
<1>1. \A i \in Id : db.art[i].status = "absent" /\ Says(db.art[i].content) = {}
  BY SaysNone DEF Init
<1>2. db.listed = {} /\ \A t \in Task : pc[t] = "idle"
  BY DEF Init
<1>3. \A u \in Id : told[u] = 0
  BY DEF Init
<1>4. Synced(db)
  BY <1>1, <1>2 DEF Synced, Entry
<1>5. Sole(db) /\ Kept(db, dropped)
  BY <1>1 DEF Sole, Kept
<1>6. ToldBy(db, told)
  BY <1>3 DEF ToldBy
<1>7. Locked
  BY <1>2 DEF Locked
<1>. QED
  BY <1>4, <1>5, <1>6, <1>7 DEF Exact

LEMMA InOrderKept == InOrder /\ [Next]_vars => InOrder'
<1>. SUFFICES ASSUME InOrder, [Next]_vars, Healthy', ~stale' PROVE Exact'
  BY RoomKept DEF InOrder
<1>1. Room /\ failures' = 0
  BY DEF InOrder, Healthy
<1>2. CASE \E t \in Task : Step(t)
  <2>1. PICK t \in Task : Step(t)
    BY <1>2
  <2>2. stale => stale'
    BY <2>1, <1>1, StepSettles DEF Settled
  <2>3. failures = 0
    <3>1. failures \in 0..MaxFailures
      BY <1>1 DEF Room, TypeOK
    <3>. QED
      BY <3>1, <2>1, <1>1, BoundAssumption, FailuresAddUp
  <2>4. AllWell
    BY <2>2, <2>3, <1>1 DEF AllWell, InOrder, Healthy
  <2>. QED
    BY <2>1, <2>4, StepExact
<1>3. CASE Tick \/ UNCHANGED vars
  <2>1. UNCHANGED <<db, pc, job, told, dropped, failures, stale>>
    BY <1>3 DEF Tick, vars
  <2>2. Exact
    BY <2>1 DEF InOrder, Healthy
  <2>. QED
    BY <2>1, <2>2 DEF Exact, Locked
<1>. QED
  BY <1>2, <1>3 DEF Next

LEMMA InOrderHolds == Spec => []InOrder
<1>. QED
  BY InitInOrder, InOrderKept, PTL DEF Spec

\* While every call works, the index lists what is pending, under the priority and
\* with the pin its row has: each call ends with the two in step.
THEOREM IndexAlwaysFollows == Spec => []IndexFollows
<1>1. InOrder => IndexFollows
  <2>. SUFFICES ASSUME InOrder, Healthy, ~stale
                PROVE  db.listed = {[id |-> i, priority |-> db.art[i].priority, pin |-> db.art[i].pin] :
                                      i \in {i \in Id : db.art[i].status = "pending"}}
    BY DEF IndexFollows
  <2>. DEFINE row(i) == [id |-> i, priority |-> db.art[i].priority, pin |-> db.art[i].pin]
  <2>1. Synced(db) /\ db \in Tables
    BY DEF InOrder, Exact, Room, Whole
  <2>2. db.listed \subseteq Entry /\ \A i \in Id : row(i) \in Entry
    BY <2>1, TablesTypes DEF Entry
  <2>3. \A i \in Id : db.art[i].status = "pending" => row(i) \in db.listed
    BY <2>1, <2>2 DEF Synced
  <2>4. \A r \in db.listed : r.id \in Id /\ db.art[r.id].status = "pending" /\ r = row(r.id)
    BY <2>1, <2>2 DEF Synced, Entry
  <2>. QED
    BY <2>3, <2>4
<1>. QED
  BY <1>1, InOrderHolds, PTL

\* While every call works, no update is lost but to a gate, a dead source or the
\* cap: whatever supersedes or absorbs an artifact takes over what it said, but for
\* what MaxOld later ones follow in the text that is superseded.
THEOREM UpdatesAlwaysKept == Spec => []UpdatesKept
<1>1. InOrder => UpdatesKept
  <2>. SUFFICES ASSUME InOrder, Healthy, ~stale, NEW u \in Id
                PROVE  LET holders == {i \in Id : u \in Says(db.art[i].content)}
                       IN  \/ u \in dropped \/ holders = {}
                           \/ \E i \in holders : db.art[i].status \notin {"absent", "discarded"}
                           \/ \E i \in holders : /\ db.art[i].status = "discarded"
                                                 /\ u \in BeyondCap(db.art[i].content)
    BY DEF UpdatesKept
  <2>1. Kept(db, dropped) /\ Whole(db)
    BY DEF InOrder, Exact, Room
  <2>2. \A i \in Id : BeyondCap(db.art[i].content) \subseteq Says(db.art[i].content)
    BY <2>1, TablesTypes, CapLeaves DEF Whole
  <2>. QED
    BY <2>1, <2>2 DEF Kept, Alive, CutFrom
<1>. QED
  BY <1>1, InOrderHolds, PTL

\* While every call works, no update is told twice: it is in one artifact that is not
\* discarded, and the lock of that artifact is held by one task, before it is composed.
THEOREM AlwaysToldOnce == Spec => []ToldOnce
<1>1. InOrder => ToldOnce
  BY DEF InOrder, Exact, ToldBy, ToldOnce
<1>. QED
  BY <1>1, InOrderHolds, PTL

-----------------------------------------------------------------------------
(* The ranking of a selection is fair.                                     *)

\* The order of the index.
LEMMA AheadOrders ==
  ASSUME NEW S \in SUBSET Entry, Keyed(S), NEW a \in S, NEW b \in S
  PROVE  /\ ~Ahead(a, a)
         /\ \A c \in S : Ahead(a, b) /\ Ahead(b, c) => Ahead(a, c)
         /\ Ahead(a, b) \/ Ahead(b, a) \/ a = b
<1>1. \A o \in S : o.priority \in Int /\ o.id \in Int
  BY BoundAssumption DEF Entry, Priority, Id
<1>2. a # b => ~(a.id = b.id /\ a.priority = b.priority)
  BY DEF Keyed
<1>. QED
  BY <1>1, <1>2 DEF Ahead

LEMMA BestRises ==
  ASSUME NEW S \in SUBSET Entry, Keyed(S), NEW n \in Nat,
         NEW a \in S, NEW b \in Best(S, n), a \notin Best(S, n)
  PROVE  Ahead(b, a) /\ ~Ahead(a, b)
<1>. DEFINE x == Cardinality({o \in S : Ahead(o, a)})
            y == Cardinality({o \in S : Ahead(o, b)})
<1>1. b \in S /\ y < n /\ ~(x < n) /\ a # b
  BY DEF Best
<1>2. x \in Nat /\ y \in Nat
  BY EntryFinite, FS_Subset, FS_CardinalityType
<1>3. Ahead(a, b) => x < y
  BY <1>1, RanksRise
<1>. HIDE DEF x, y
<1>4. ~Ahead(a, b)
  BY <1>1, <1>2, <1>3
<1>. QED
  BY <1>1, <1>4, AheadOrders

\* The first n are n, if there are so many.
LEMMA BestCount ==
  ASSUME NEW S \in SUBSET Entry, Keyed(S), NEW n \in Nat
  PROVE  /\ IsFiniteSet(S) /\ Cardinality(S) \in Nat
         /\ Best(S, n) \subseteq S
         /\ Cardinality(Best(S, n)) = IF Cardinality(S) <= n THEN Cardinality(S) ELSE n
         /\ Cardinality(S) <= n => Best(S, n) = S
<1>. DEFINE m == Cardinality(S)
            rank(r) == Cardinality({o \in S : Ahead(o, r)})
            k == IF m <= n THEN m ELSE n
            top == Best(S, n)
            all == [r \in S |-> rank(r)]
            some == [r \in top |-> rank(r)]
<1>1. IsFiniteSet(S) /\ m \in Nat
  BY EntryFinite, FS_Subset, FS_CardinalityType
<1>2. ASSUME NEW r \in S PROVE rank(r) \in 0..(m - 1)
  <2>1. {o \in S : Ahead(o, r)} \in SUBSET (S \ {r})
    BY AheadOrders
  <2>2. IsFiniteSet(S \ {r}) /\ Cardinality(S \ {r}) = m - 1
    BY <1>1, FS_RemoveElement
  <2>3. rank(r) <= m - 1 /\ rank(r) \in Nat
    <3>. DEFINE ahead == {o \in S : Ahead(o, r)}
    <3>. HIDE DEF ahead
    <3>1. ahead \in SUBSET (S \ {r})
      BY <2>1 DEF ahead
    <3>2. IsFiniteSet(ahead) /\ Cardinality(ahead) <= m - 1
      BY <3>1, <2>2, FS_Subset
    <3>3. Cardinality(ahead) \in Nat
      BY <3>2, FS_CardinalityType
    <3>. QED
      BY <3>2, <3>3 DEF ahead
  <2>. HIDE DEF rank, m
  <2>. QED
    BY <2>3, <1>1
<1>3. \A r \in S, o \in S : r # o => rank(r) # rank(o)
  BY RanksDiffer
<1>4. top = {r \in S : rank(r) < n}
  BY DEF Best
<1>. HIDE DEF rank, m, top
<1>5. all \in Injection(S, 0..(m - 1))
  <2>1. all \in [S -> 0..(m - 1)]
    BY <1>2
  <2>2. \A r \in S, o \in S : all[r] = all[o] => r = o
    BY <1>3
  <2>. HIDE DEF all
  <2>. QED
    BY <2>1, <2>2 DEF Injection, IsInjective
<1>6. IsFiniteSet(0..(m - 1)) /\ Cardinality(0..(m - 1)) = m
  BY <1>1, FS_Interval
<1>7. all \in Surjection(S, 0..(m - 1))
  <2>. HIDE DEF all
  <2>. QED
    BY <1>5, <1>6, FS_Injection DEF m
<1>8. \A i \in 0..(m - 1) : \E r \in S : rank(r) = i
  <2>1. \A i \in 0..(m - 1) : \E r \in S : all[r] = i
    <3>. HIDE DEF all
    <3>. QED
      BY <1>7 DEF Surjection
  <2>. QED
    BY <2>1
<1>9. k \in Nat /\ k <= n /\ k <= m
  BY <1>1
<1>10. some \in Injection(top, 0..(k - 1)) /\ some \in Surjection(top, 0..(k - 1))
  <2>1. \A r \in top : rank(r) \in 0..(k - 1)
    BY <1>1, <1>2, <1>4
  <2>2. \A i \in 0..(k - 1) : \E r \in top : rank(r) = i
    <3>1. SUFFICES ASSUME NEW i \in 0..(k - 1) PROVE \E r \in top : rank(r) = i
      OBVIOUS
    <3>2. i \in 0..(m - 1) /\ i < n
      BY <1>1, <1>9
    <3>. QED
      BY <3>2, <1>4, <1>8
  <2>3. \A r \in top, o \in top : r # o => rank(r) # rank(o)
    BY <1>3, <1>4
  <2>. HIDE DEF k
  <2>4. some \in [top -> 0..(k - 1)]
    BY <2>1
  <2>5. \A r \in top, o \in top : some[r] = some[o] => r = o
    BY <2>3
  <2>6. \A i \in 0..(k - 1) : \E r \in top : some[r] = i
    BY <2>2
  <2>. HIDE DEF some
  <2>. QED
    BY <2>4, <2>5, <2>6 DEF Injection, IsInjective, Surjection
<1>11. IsFiniteSet(0..(k - 1)) /\ Cardinality(0..(k - 1)) = k
  <2>. HIDE DEF k
  <2>. QED
    BY <1>9, FS_Interval
<1>12. Cardinality(top) = k
  <2>. HIDE DEF some, k
  <2>. QED
    BY <1>10, <1>11, FS_Injection
<1>13. m <= n => top = S
  BY <1>1, <1>2, <1>4
<1>. QED
  BY <1>1, <1>4, <1>12, <1>13 DEF m, top

\* Two sets with nothing in common have as many as both.
LEMMA JoinCount ==
  ASSUME NEW S, NEW V, IsFiniteSet(S), IsFiniteSet(V), S \cap V = {}
  PROVE  /\ IsFiniteSet(S \cup V)
         /\ Cardinality(S) \in Nat /\ Cardinality(V) \in Nat
         /\ Cardinality(S \cup V) = Cardinality(S) + Cardinality(V)
<1>1. Cardinality(S) \in Nat /\ Cardinality(V) \in Nat
  BY FS_CardinalityType
<1>2. Cardinality(S \cap V) = 0
  BY FS_EmptySet
<1>3. /\ IsFiniteSet(S \cup V)
      /\ Cardinality(S \cup V) = Cardinality(S) + Cardinality(V) - Cardinality(S \cap V)
  BY FS_Union
<1>. QED
  BY <1>1, <1>2, <1>3

\* What a part leaves.
LEMMA RestCount ==
  ASSUME NEW S, NEW V \in SUBSET S, IsFiniteSet(S)
  PROVE  /\ IsFiniteSet(S \ V) /\ IsFiniteSet(V)
         /\ Cardinality(S) \in Nat /\ Cardinality(V) \in Nat
         /\ Cardinality(V) <= Cardinality(S)
         /\ Cardinality(S \ V) = Cardinality(S) - Cardinality(V)
<1>1. S \cap V = V
  OBVIOUS
<1>2. IsFiniteSet(S \ V) /\ Cardinality(S \ V) = Cardinality(S) - Cardinality(S \cap V)
  BY FS_Difference
<1>3. IsFiniteSet(V) /\ Cardinality(V) <= Cardinality(S)
  BY FS_Subset
<1>. QED
  BY <1>1, <1>2, <1>3, FS_CardinalityType

\* Every pool takes its floor first, and the best of the rest the other slots:
\* T and U are the pools, A and Z their floors.
TakesFloors(E, n, T, U, a, z, A, Z, L, k, B, C) ==
    /\ E \in SUBSET Entry /\ Keyed(E) /\ T \in SUBSET E /\ U = E \ T
    /\ n \in Nat /\ a \in Nat /\ z \in Nat /\ a + z <= n
    /\ A = Best(T, a) /\ Z = Best(U, z)
    /\ L = E \ (A \cup Z) /\ k \in Int /\ k + Cardinality(A \cup Z) = n
    /\ B = Best(L, k) /\ C = A \cup Z \cup B

FairlyTaken(E, n, T, U, a, z, C) ==
    /\ C \subseteq E
    /\ IsFiniteSet(C) /\ Cardinality(C) = IF Cardinality(E) <= n THEN Cardinality(E) ELSE n
    /\ Cardinality(C \cap T) >= a \/ Cardinality(C \cap T) >= Cardinality(T)
    /\ Cardinality(C \cap U) >= z \/ Cardinality(C \cap U) >= Cardinality(U)
    /\ \A c \in E \ C, x \in C :
          Ahead(c, x) => /\ x \in T => c \notin T /\ Cardinality(C \cap T) <= a
                         /\ x \in U => c \notin U /\ Cardinality(C \cap U) <= z

LEMMA PicksFair ==
  ASSUME NEW E, NEW n, NEW T, NEW U, NEW a, NEW z, NEW A, NEW Z, NEW L, NEW k, NEW B, NEW C,
         TakesFloors(E, n, T, U, a, z, A, Z, L, k, B, C)
  PROVE  FairlyTaken(E, n, T, U, a, z, C)
<1>. USE DEF TakesFloors
<1>1. /\ Keyed(T) /\ Keyed(U) /\ Keyed(L)
      /\ T \in SUBSET Entry /\ U \in SUBSET Entry /\ L \in SUBSET Entry
  BY DEF Keyed
<1>2. IsFiniteSet(E) /\ Cardinality(E) \in Nat
  BY BestCount
<1>3. /\ IsFiniteSet(T) /\ Cardinality(T) \in Nat /\ A \subseteq T
      /\ Cardinality(A) = IF Cardinality(T) <= a THEN Cardinality(T) ELSE a
  BY <1>1, BestCount
<1>4. /\ IsFiniteSet(U) /\ Cardinality(U) \in Nat /\ Z \subseteq U
      /\ Cardinality(Z) = IF Cardinality(U) <= z THEN Cardinality(U) ELSE z
  BY <1>1, BestCount
<1>5. A \cap Z = {} /\ A \cup Z \subseteq E
  BY <1>3, <1>4
<1>6. IsFiniteSet(A) /\ IsFiniteSet(Z)
  BY <1>3, <1>4, FS_Subset
<1>7. /\ IsFiniteSet(A \cup Z) /\ Cardinality(A \cup Z) = Cardinality(A) + Cardinality(Z)
  BY <1>5, <1>6, JoinCount
<1>8. k \in Nat
  BY <1>3, <1>4, <1>7
<1>9. /\ IsFiniteSet(L) /\ Cardinality(L) \in Nat /\ B \subseteq L
      /\ Cardinality(B) = IF Cardinality(L) <= k THEN Cardinality(L) ELSE k
  BY <1>1, <1>8, BestCount
<1>10. Cardinality(L) = Cardinality(E) - Cardinality(A \cup Z)
  BY <1>2, <1>5, RestCount
<1>11. C \subseteq E /\ IsFiniteSet(C) /\ Cardinality(C) = Cardinality(A \cup Z) + Cardinality(B)
  <2>1. (A \cup Z) \cap B = {} /\ C \subseteq E
    BY <1>5, <1>9
  <2>2. IsFiniteSet(B)
    BY <1>9, FS_Subset
  <2>3. /\ IsFiniteSet((A \cup Z) \cup B)
        /\ Cardinality((A \cup Z) \cup B) = Cardinality(A \cup Z) + Cardinality(B)
    BY <1>7, <2>1, <2>2, JoinCount
  <2>. QED
    BY <2>1, <2>3
<1>12. Cardinality(C) = IF Cardinality(E) <= n THEN Cardinality(E) ELSE n
  BY <1>2, <1>7, <1>8, <1>9, <1>10, <1>11, <1>3, <1>4
\* Where more of a pool is taken than its floor, one of them is from the rest.
<1>13. ASSUME NEW V \in {T, U}, NEW f \in Nat, NEW G, G = Best(V, f), G \subseteq C
       PROVE  /\ Cardinality(C \cap V) >= f \/ Cardinality(C \cap V) >= Cardinality(V)
              /\ ~(Cardinality(C \cap V) <= f) => \E y \in C \cap V : y \notin G
  <2>1. V \in SUBSET Entry /\ Keyed(V) /\ IsFiniteSet(V)
    BY <1>1, <1>3, <1>4
  <2>2. /\ G \subseteq V /\ Cardinality(V) \in Nat
        /\ Cardinality(G) = IF Cardinality(V) <= f THEN Cardinality(V) ELSE f
    BY <2>1, <1>13, BestCount
  <2>3. IsFiniteSet(C \cap V) /\ Cardinality(C \cap V) \in Nat
    BY <2>1, FS_Subset, FS_CardinalityType
  <2>4. G \in SUBSET (C \cap V)
    BY <2>2, <1>13
  <2>5. Cardinality(G) <= Cardinality(C \cap V)
    BY <2>3, <2>4, FS_Subset
  <2>6. ASSUME ~\E y \in C \cap V : y \notin G PROVE Cardinality(C \cap V) <= f
    <3>1. Cardinality(C \cap V) = Cardinality(G)
      <4>1. C \cap V = G
        BY <2>4, <2>6
      <4>. QED
        BY ONLY <4>1
    <3>2. Cardinality(G) <= f
      BY <2>2
    <3>. QED
      BY ONLY <3>1, <3>2
  <2>. QED
    BY <2>2, <2>3, <2>5, <2>6
<1>14. A \subseteq C /\ Z \subseteq C
  OBVIOUS
<1>15. ASSUME NEW V \in {T, U}, NEW f \in Nat, NEW G, G = Best(V, f), G \subseteq A \cup Z,
              V \cap (A \cup Z) \subseteq G,
              NEW c \in E \ C, NEW x \in C \cap V, Ahead(c, x)
       PROVE  c \notin V /\ Cardinality(C \cap V) <= f
  <2>1. V \in SUBSET Entry /\ Keyed(V)
    BY <1>1
  <2>2. c \in L /\ c \notin B
    BY <1>14
  <2>3. x \in G
    <3>1. SUFFICES ASSUME x \notin G PROVE FALSE
      OBVIOUS
    <3>2. x \in B
      BY <3>1, <1>15
    <3>. QED
      BY <3>2, <2>2, <1>1, <1>8, <1>15, BestRises
  <2>4. c \notin V
    <3>1. c \notin G
      BY <1>15
    <3>. QED
      BY <3>1, <2>1, <2>3, <1>15, BestRises
  <2>5. ASSUME ~(Cardinality(C \cap V) <= f) PROVE FALSE
    <3>1. G \subseteq C
      BY <1>14, <1>15
    <3>2. PICK y \in C \cap V : y \notin G
      <4>1. G = Best(V, f)
        BY <1>15
      <4>. QED
        BY ONLY <1>13, <3>1, <4>1, <2>5, Zenon
    <3>3. y \in B
      BY <3>2, <1>15
    <3>4. Ahead(x, y)
      BY <3>2, <2>1, <2>3, <1>15, BestRises
    <3>5. c \in E /\ x \in E /\ y \in E
      BY <3>2, <1>11
    <3>6. Ahead(c, y)
      BY <3>4, <3>5, <1>15, AheadOrders
    <3>. QED
      BY <3>3, <3>6, <2>2, <1>1, <1>8, BestRises
  <2>. QED
    BY <2>4, <2>5
<1>16. ASSUME NEW c \in E \ C, NEW x \in C, Ahead(c, x)
       PROVE  /\ x \in T => c \notin T /\ Cardinality(C \cap T) <= a
              /\ x \in U => c \notin U /\ Cardinality(C \cap U) <= z
  <2>1. T \cap (A \cup Z) \subseteq A /\ U \cap (A \cup Z) \subseteq Z
    BY <1>3, <1>4
  <2>2. ASSUME x \in T PROVE c \notin T /\ Cardinality(C \cap T) <= a
    BY <2>1, <2>2, <1>15, <1>16
  <2>3. ASSUME x \in U PROVE c \notin U /\ Cardinality(C \cap U) <= z
    BY <2>1, <2>3, <1>15, <1>16
  <2>. QED
    BY <2>2, <2>3
<1>17. /\ Cardinality(C \cap T) >= a \/ Cardinality(C \cap T) >= Cardinality(T)
       /\ Cardinality(C \cap U) >= z \/ Cardinality(C \cap U) >= Cardinality(U)
  BY <1>13, <1>14
<1>. QED
  BY <1>11, <1>12, <1>16, <1>17 DEF FairlyTaken

\* The floors of the two pools fit in the slots there are.
LEMMA FloorsFit ==
  ASSUME NEW n \in Nat
  PROVE  /\ Floor(n, TRUE) \in Nat /\ Floor(n, FALSE) \in Nat
         /\ Floor(n, TRUE) + Floor(n, FALSE) <= n
<1>. DEFINE p == n * NewShare
            q == n * (100 - NewShare)
<1>1. NewShare \in Nat /\ 100 - NewShare \in Nat
  BY SlotAssumption
<1>2. p \in Nat /\ q \in Nat
  BY <1>1
<1>3. p + q = 100 * n
  BY <1>1
<1>4. Floor(n, TRUE) = p \div 100 /\ Floor(n, FALSE) = q \div 100
  BY DEF Floor
<1>. HIDE DEF p, q
<1>5. /\ p \div 100 \in Nat /\ q \div 100 \in Nat
      /\ (p \div 100) + (q \div 100) <= n
  BY <1>2, <1>3
<1>. QED
  BY <1>4, <1>5

\* No two rows of one artifact.
OneId(rows) == \A r \in rows, o \in rows : r.id = o.id => r = o

LEMMA RowsIds ==
  ASSUME NEW S \in SUBSET Entry, OneId(S), IsFiniteSet(S)
  PROVE  /\ IsFiniteSet({r.id : r \in S})
         /\ Cardinality({r.id : r \in S}) = Cardinality(S)
<1>. DEFINE ids == {r.id : r \in S}
            f == [r \in S |-> r.id]
<1>1. f \in [S -> ids]
  OBVIOUS
<1>2. \A r \in S, o \in S : f[r] = f[o] => r = o
  BY DEF OneId
<1>3. \A i \in ids : \E r \in S : f[r] = i
  OBVIOUS
<1>. HIDE DEF f, ids
<1>4. f \in Injection(S, ids) /\ f \in Surjection(S, ids)
  BY <1>1, <1>2, <1>3 DEF Injection, IsInjective, Surjection
<1>5. IsFiniteSet(ids)
  BY <1>4, FS_Surjection
<1>6. Cardinality(ids) = Cardinality(S)
  BY <1>4, <1>5, FS_Injection
<1>. QED
  BY <1>5, <1>6 DEF ids

PoolOf(d, rows, b) == {r \in rows : IsNew(d, r.id) = b}

\* _rank_platform_picks: every pool has its floor, and what is passed over is of
\* another pool than what it is ahead of, and that pool within its floor.
LEMMA PlatformFair ==
  ASSUME NEW d, NEW H, NEW n \in Nat, NEW E, E = Eligible(d, H), E \in SUBSET Entry, OneId(E),
         NEW P, P = PlatformPicks(d, H, n)
  PROVE  /\ P \subseteq E /\ IsFiniteSet(E) /\ Cardinality(E) \in Nat
         /\ IsFiniteSet(P) /\ Cardinality(P) = IF Cardinality(E) <= n THEN Cardinality(E) ELSE n
         /\ \A b \in BOOLEAN : \/ Cardinality(P \cap PoolOf(d, E, b)) >= Floor(n, b)
                               \/ Cardinality(P \cap PoolOf(d, E, b))
                                    >= Cardinality(PoolOf(d, E, b))
         /\ \A c \in E \ P, x \in P, b \in BOOLEAN :
               Ahead(c, x) /\ x \in PoolOf(d, E, b) =>
                  /\ c \notin PoolOf(d, E, b)
                  /\ Cardinality(P \cap PoolOf(d, E, b)) <= Floor(n, b)
<1>. DEFINE T == PoolOf(d, E, TRUE)
            U == PoolOf(d, E, FALSE)
            a == Floor(n, TRUE)
            z == Floor(n, FALSE)
            A == Best(T, a)
            Z == Best(U, z)
            G == A \cup Z
            floors == {r.id : r \in G}
            leftover == {r \in E : r.id \notin floors}
            k == n - Cardinality(floors)
            B == Best(leftover, k)
            chosen == floors \cup {r.id : r \in B}
            C == G \cup B
<1>1. P = Best({r \in E : r.id \in chosen}, n)
  <2>. DEFINE both == UNION {Best({r \in E : IsNew(d, r.id) = b}, Floor(n, b)) : b \in BOOLEAN}
              ids  == {r.id : r \in both}
              more == Best({r \in E : r.id \notin ids}, n - Cardinality(ids))
  <2>1. both = G
    BY DEF PoolOf
  <2>2. P = Best({r \in E : r.id \in ids \cup {o.id : o \in more}}, n)
    <3>1. P = LET eligible == E
                  pool(isNew) == {r \in eligible : IsNew(d, r.id) = isNew}
                  ids_ == {r.id : r \in UNION {Best(pool(b), Floor(n, b)) : b \in BOOLEAN}}
                  left == {r \in eligible : r.id \notin ids_}
                  chosen_ == ids_ \cup {r.id : r \in Best(left, n - Cardinality(ids_))}
              IN  Best({r \in eligible : r.id \in chosen_}, n)
      BY DEF PlatformPicks
    <3>. QED
      BY <3>1
  <2>. HIDE DEF both, G
  <2>. QED
    BY <2>1, <2>2
<1>2. T \subseteq E /\ U = E \ T
  BY DEF PoolOf, IsNew
<1>3. a \in Nat /\ z \in Nat /\ a + z <= n
  BY FloorsFit
<1>4. A \subseteq T /\ Z \subseteq U /\ G \subseteq E
  BY <1>2 DEF Best
<1>5. Keyed(E) /\ IsFiniteSet(E) /\ Cardinality(E) \in Nat
  BY BestCount, <1>3 DEF Keyed, OneId
<1>. HIDE DEF T, U, a, z, A, Z, G
<1>6. leftover = E \ G
  BY <1>4 DEF OneId
<1>7. IsFiniteSet(G) /\ Cardinality(floors) = Cardinality(G) /\ Cardinality(G) \in Nat
  <2>1. IsFiniteSet(G) /\ OneId(G) /\ G \in SUBSET Entry /\ Cardinality(G) \in Nat
    BY <1>4, <1>5, RestCount DEF OneId
  <2>. QED
    BY <2>1, RowsIds
<1>8. k \in Int /\ k + Cardinality(G) = n
  BY <1>7
<1>. HIDE DEF floors, k, leftover
<1>9. B \subseteq E \ G
  BY <1>6 DEF Best
<1>10. {r \in E : r.id \in chosen} = C
  BY <1>4, <1>9 DEF OneId, floors
<1>. HIDE DEF B, C, chosen
<1>11. FairlyTaken(E, n, T, U, a, z, C)
  <2>1. /\ A = Best(T, a) /\ Z = Best(U, z) /\ leftover = E \ (A \cup Z)
        /\ B = Best(leftover, k) /\ C = A \cup Z \cup B /\ k + Cardinality(A \cup Z) = n
    BY <1>6, <1>8 DEF A, Z, B, C, G
  <2>2. TakesFloors(E, n, T, U, a, z, A, Z, leftover, k, B, C)
    BY <2>1, <1>2, <1>3, <1>5, <1>8 DEF TakesFloors
  <2>. QED
    BY <2>2, PicksFair
<1>12. P = C
  <2>1. Keyed(C) /\ C \in SUBSET Entry
    BY <1>11 DEF Keyed, OneId, FairlyTaken
  <2>2. Cardinality(C) <= n
    BY <1>5, <1>11 DEF FairlyTaken
  <2>. QED
    BY <1>1, <1>10, <2>1, <2>2, BestCount
<1>13. ASSUME NEW b \in BOOLEAN
       PROVE  \/ b = TRUE /\ PoolOf(d, E, b) = T /\ Floor(n, b) = a
              \/ b = FALSE /\ PoolOf(d, E, b) = U /\ Floor(n, b) = z
  BY DEF T, U, a, z
<1>14. ASSUME NEW b \in BOOLEAN
       PROVE  \/ Cardinality(P \cap PoolOf(d, E, b)) >= Floor(n, b)
              \/ Cardinality(P \cap PoolOf(d, E, b)) >= Cardinality(PoolOf(d, E, b))
  <2>1. CASE PoolOf(d, E, b) = T /\ Floor(n, b) = a
    BY <2>1, <1>11, <1>12 DEF FairlyTaken
  <2>2. CASE PoolOf(d, E, b) = U /\ Floor(n, b) = z
    BY <2>2, <1>11, <1>12 DEF FairlyTaken
  <2>. QED
    BY <2>1, <2>2, <1>13
<1>15. ASSUME NEW c \in E \ P, NEW x \in P, NEW b \in BOOLEAN,
              Ahead(c, x), x \in PoolOf(d, E, b)
       PROVE  /\ c \notin PoolOf(d, E, b)
              /\ Cardinality(P \cap PoolOf(d, E, b)) <= Floor(n, b)
  <2>1. CASE PoolOf(d, E, b) = T /\ Floor(n, b) = a
    BY <2>1, <1>11, <1>12, <1>15 DEF FairlyTaken
  <2>2. CASE PoolOf(d, E, b) = U /\ Floor(n, b) = z
    BY <2>2, <1>11, <1>12, <1>15 DEF FairlyTaken
  <2>. QED
    BY <2>1, <2>2, <1>13
<1>. QED
  BY <1>5, <1>11, <1>12, <1>14, <1>15 DEF FairlyTaken

\* The plan of a day is a fair slate, where the index has what is pending.
LEMMA PlanFair ==
  ASSUME Whole(db), Synced(db), NEW day
  PROVE  FairSlate(Plan(db, day), day)
<1>. DEFINE H == HumanPick(db, day)
            h == Cardinality(H)
            n == SlotsPerDay - h
            P == PlatformPicks(db, H, n)
            E == Eligible(db, H)
            rank(r) == Cardinality({o \in P : Ahead(o, r)})
            top(r)  == [slot |-> 0, id |-> r.id, lane |-> "human"]
            fill(r) == [slot |-> h + rank(r), id |-> r.id, lane |-> "platform"]
            plan == {top(r) : r \in H} \cup {fill(r) : r \in P}
            human == {p.id : p \in {p \in plan : p.lane = "human"}}
            chosen == {p.id : p \in plan} \ human
            service(i) == db.art[i].service
            free == {r \in db.listed : \A x \in human :
                        r.id # x /\ (service(r.id) = NoService \/ service(r.id) # service(x))}
            candidates == {r \in free : \A o \in free :
                service(o.id) = service(r.id) /\ Ahead(o, r) => service(r.id) = NoService}
            slots == SlotsPerDay - Cardinality(human)
            taken(b) == {r \in PoolOf(db, candidates, b) : r.id \in chosen}
            atLeast(x, y, c) == x >= y \/ x >= c
<1>1. db.listed \in SUBSET Entry /\ OneId(db.listed) /\ Keyed(db.listed)
  BY TablesTypes DEF Whole, Synced, OneId, Entry
<1>2. /\ H \subseteq db.listed /\ (H = {} \/ \E x : H = {x})
      /\ H = {} <=> \A r \in db.listed : r.pin # day
  <2>. DEFINE pinned == {r \in db.listed : r.pin = day}
  <2>1. pinned \in SUBSET Entry /\ Keyed(pinned) /\ H = Best(pinned, 1)
    BY <1>1 DEF Keyed, HumanPick
  <2>. HIDE DEF pinned, H
  <2>2. H = {} \/ \E x \in pinned : H = {x}
    BY <2>1, BestOne
  <2>3. /\ IsFiniteSet(pinned) /\ Cardinality(pinned) \in Nat /\ H \subseteq pinned
        /\ Cardinality(H) = IF Cardinality(pinned) <= 1 THEN Cardinality(pinned) ELSE 1
    BY <2>1, BestCount
  <2>4. H = {} => pinned = {}
    BY <2>3, FS_EmptySet
  <2>. QED
    BY <2>2, <2>3, <2>4 DEF pinned
<1>3. h \in {0, 1} /\ (H # {} => h = 1)
  BY <1>2, FS_EmptySet, FS_Singleton
<1>4. n \in Nat /\ h + n = SlotsPerDay
  BY <1>3, SlotAssumption
<1>5. Plan(db, day) = plan
  BY DEF Plan
<1>6. E \in SUBSET Entry /\ OneId(E) /\ E \subseteq db.listed
  BY <1>1 DEF Eligible, Free, OneId
<1>. HIDE DEF H, h, n, P, E
<1>7. /\ P \subseteq E /\ IsFiniteSet(E) /\ Cardinality(E) \in Nat
      /\ IsFiniteSet(P) /\ Cardinality(P) = IF Cardinality(E) <= n THEN Cardinality(E) ELSE n
      /\ \A b \in BOOLEAN : \/ Cardinality(P \cap PoolOf(db, E, b)) >= Floor(n, b)
                            \/ Cardinality(P \cap PoolOf(db, E, b))
                                 >= Cardinality(PoolOf(db, E, b))
      /\ \A c \in E \ P, x \in P, b \in BOOLEAN :
            Ahead(c, x) /\ x \in PoolOf(db, E, b) =>
               /\ c \notin PoolOf(db, E, b)
               /\ Cardinality(P \cap PoolOf(db, E, b)) <= Floor(n, b)
  <2>1. E = Eligible(db, H) /\ P = PlatformPicks(db, H, n)
    BY DEF E, P
  <2>. QED
    BY <2>1, <1>4, <1>6, PlatformFair
<1>. HIDE DEF rank
<1>8. human = {r.id : r \in H}
  <2>1. \A r \in H : top(r) \in plan /\ top(r).lane = "human" /\ top(r).id = r.id
    OBVIOUS
  <2>2. ASSUME NEW p \in plan, p.lane = "human" PROVE \E r \in H : p = top(r)
    <3>1. \A r \in P : fill(r).lane = "platform"
      OBVIOUS
    <3>. HIDE DEF fill
    <3>. QED
      BY <2>2, <3>1
  <2>. HIDE DEF top, plan
  <2>. QED
    BY <2>1, <2>2
<1>9. {p.id : p \in plan} = {r.id : r \in H} \cup {r.id : r \in P}
  <2>1. \A r : top(r).id = r.id /\ fill(r).id = r.id
    OBVIOUS
  <2>. HIDE DEF top, fill
  <2>. QED
    BY <2>1
<1>10. \A r \in P, x \in H : r.id # x.id
  BY <1>7 DEF E, Eligible, Free
<1>11. chosen = {r.id : r \in P}
  BY <1>8, <1>9, <1>10
<1>12. Cardinality(human) = h
  <2>1. H = {} => human = {}
    BY <1>8
  <2>2. \A x : H = {x} => human = {x.id}
    BY <1>8
  <2>. QED
    BY <1>2, <1>3, <2>1, <2>2, FS_EmptySet, FS_Singleton DEF h
<1>13. candidates = E
  <2>1. free = Free(db, H)
    BY <1>8 DEF Free
  <2>. QED
    BY <2>1 DEF Eligible, E
<1>14. Cardinality(chosen) = Cardinality(P) /\ Cardinality(P) \in Nat
  <2>1. P \in SUBSET Entry /\ OneId(P)
    BY <1>6, <1>7 DEF OneId
  <2>. QED
    BY <2>1, <1>7, <1>11, RowsIds, FS_CardinalityType
<1>15. \A r \in E : r.id \in chosen <=> r \in P
  BY <1>6, <1>7, <1>11 DEF OneId
<1>16. FairSlate(plan, day) <=>
          /\ human = {} <=> \A r \in db.listed : r.pin # day
          /\ atLeast(Cardinality(chosen), slots, Cardinality(candidates))
          /\ Cardinality(chosen) <= slots
          /\ \A b \in BOOLEAN : atLeast(Cardinality(taken(b)), Floor(slots, b),
                                        Cardinality(PoolOf(db, candidates, b)))
          /\ \A c \in candidates, x \in candidates :
                c.id \notin chosen /\ x.id \in chosen /\ Ahead(c, x) =>
                   LET b == IsNew(db, x.id)
                   IN  /\ c \notin PoolOf(db, candidates, b)
                       /\ Cardinality(taken(b)) <= Floor(slots, b)
  BY DEF FairSlate, PoolOf
<1>. HIDE DEF plan, human, chosen, free, candidates
<1>17. slots = n
  BY <1>12 DEF n
<1>18. \A b \in BOOLEAN : taken(b) = P \cap PoolOf(db, E, b)
  BY <1>7, <1>13, <1>15 DEF PoolOf
<1>19. human = {} <=> \A r \in db.listed : r.pin # day
  BY <1>2, <1>8
<1>20. /\ atLeast(Cardinality(chosen), n, Cardinality(E))
       /\ Cardinality(chosen) <= n
  BY <1>4, <1>7, <1>14
<1>21. \A b \in BOOLEAN :
          atLeast(Cardinality(taken(b)), Floor(n, b), Cardinality(PoolOf(db, E, b)))
  BY <1>7, <1>18
<1>22. ASSUME NEW c \in E, NEW x \in E, c.id \notin chosen, x.id \in chosen, Ahead(c, x)
       PROVE  LET b == IsNew(db, x.id)
              IN  c \notin PoolOf(db, E, b) /\ Cardinality(taken(b)) <= Floor(n, b)
  <2>. DEFINE b == IsNew(db, x.id)
  <2>1. b \in BOOLEAN
    BY DEF IsNew
  <2>2. x \in PoolOf(db, E, b)
    BY DEF PoolOf
  <2>. HIDE DEF b
  <2>3. c \in E \ P /\ x \in P
    BY <1>15, <1>22
  <2>4. c \notin PoolOf(db, E, b) /\ Cardinality(P \cap PoolOf(db, E, b)) <= Floor(n, b)
    BY <1>7, <1>22, <2>1, <2>2, <2>3
  <2>5. taken(b) = P \cap PoolOf(db, E, b)
    BY <1>18, <2>1
  <2>. QED
    BY <2>4, <2>5 DEF b
<1>. HIDE DEF taken, slots, atLeast
<1>23. FairSlate(plan, day)
  BY <1>13, <1>16, <1>17, <1>19, <1>20, <1>21, <1>22
<1>. QED
  BY <1>5, <1>23

\* Only a selection leaves "clear", whole or broken off.
LEMMA OnlyClears ==
  ASSUME NEW t \in Task, Step(t), pc[t] = "clear"
  PROVE  Clear(t)
<1>1. ~Crawl(t) /\ ~Place(t) /\ ~ResetRow(t) /\ ~ResetDay(t) /\ ~PinForTomorrow(t)
  BY DEF Crawl, Place, ResetRow, ResetDay, PinForTomorrow
<1>2. ~StartSelect(t) /\ ~StartRedo(t) /\ ~StartDrain(t) /\ ~ComposeNow(t)
  BY DEF StartSelect, StartRedo, StartDrain, ComposeNow, Begins
<1>3. ~StartReclaim(t) /\ ~Probe(t) /\ ~StartMerge(t)
  BY DEF StartReclaim, Probe, StartMerge, Begins
<1>4. ~DrainNext(t) /\ ~DrainEnds(t) /\ ~GateDrops(t) /\ ~Leaves(t) /\ ~Compose(t)
  BY DEF DrainNext, DrainEnds, GateDrops, Leaves, Compose
<1>5. ~Resolve(t) /\ ~ComposeDrops(t) /\ ~ReclaimRow(t)
  BY DEF Resolve, ComposeDrops, ReclaimRow
<1>6. ~Sweep(t) /\ ~DiscardDead(t) /\ ~MergeOne(t)
  BY DEF Sweep, DiscardDead, MergeOne
<1>. QED
  BY <1>1, <1>2, <1>3, <1>4, <1>5, <1>6, Zenon DEF Step

\* What a whole selection goes on with is the plan of its day.
LEMMA ClearPlans ==
  ASSUME Room, NEW t \in Task, Clear(t), failures' = failures
  PROVE  job'[t].plan = Plan(db, job[t].day)
<1>. DEFINE day == job[t].day
            plan == Plan(db, day)
            next == IF plan = {} THEN "idle" ELSE "place"
            task == [job[t] EXCEPT !.plan = plan, !.seen = {}]
<1>1. Makes(t, <<Cleared(db, SlateOf(db, day))>>, next, task)
  BY DEF Clear
<1>2. job \in [Task -> Job] /\ failures \in Int
  BY BoundAssumption DEF Room, TypeOK
<1>3. task.plan = plan /\ NoJob.plan = {}
  BY <1>2 DEF Job, NoJob
<1>4. next = "idle" => plan = {}
  OBVIOUS
<1>. HIDE DEF plan, next, task
<1>5. Goto(t, next, task)
  BY <1>1, <1>2 DEF Makes, Dies
<1>. QED
  BY <1>2, <1>3, <1>4, <1>5 DEF Goto, plan

\* The ranking: while every call works and no task has written on what had
\* changed since, the plan that a selection goes on with seats as many as there
\* are slots or candidates, gives the day's pin the first slot and each pool its
\* floor, and passes a candidate over only for one of a pool within its floor.
THEOREM SelectionAlwaysFair == Spec => RankingFair
<1>. DEFINE Fair == Healthy /\ ~stale =>
                      \A t \in Task : pc[t] = "clear" /\ pc'[t] # "clear" /\ failures' = 0 =>
                          FairSlate(job'[t].plan, job[t].day)
<1>1. ASSUME InOrder, NEW u \in Task, Step(u), NEW t \in Task, Healthy, ~stale,
             pc[t] = "clear", pc'[t] # "clear", failures' = 0
      PROVE  FairSlate(job'[t].plan, job[t].day)
  <2>1. Room /\ Exact /\ failures' = failures
    BY <1>1 DEF InOrder, Healthy
  <2>2. PICK p \in PC, j \in Job : Moves(u, p, j)
    BY <1>1, <2>1, StepSettles DEF Settled
  <2>3. pc \in [Task -> PC] /\ pc' = [pc EXCEPT ![u] = p]
    BY <2>1, <2>2 DEF Moves, Room, TypeOK
  <2>4. u = t
    BY <1>1, <2>3
  <2>5. Clear(t)
    BY <1>1, <2>4, OnlyClears
  <2>6. job'[t].plan = Plan(db, job[t].day)
    BY <2>1, <2>5, ClearPlans
  <2>7. Whole(db) /\ Synced(db)
    BY <2>1 DEF Room, Exact
  <2>. QED
    BY <2>6, <2>7, PlanFair
<1>2. ASSUME InOrder, [Next]_vars PROVE Fair
  <2>1. CASE UNCHANGED vars
    BY <2>1 DEF vars
  <2>2. CASE Tick
    BY <2>2 DEF Tick
  <2>3. CASE \E u \in Task : Step(u)
    BY <1>1, <1>2, <2>3
  <2>. QED
    BY <1>2, <2>1, <2>2, <2>3 DEF Next
<1>3. InOrder /\ [Next]_vars => [Fair]_vars
  BY <1>2
<1>. QED
  BY <1>3, InOrderHolds, PTL DEF Spec, RankingFair

-----------------------------------------------------------------------------
(* Pins stay with what they were granted for.                              *)

\* A human pick that is selected is pinned for the day whose slate it is on.
HumanPins(d) ==
    \A r \in d.slate : r.lane = "human" /\ d.art[r.id].status = "selected"
                          => d.art[r.id].pin = r.day

\* The reclaim is at rows of days gone by.
LeftBehind ==
    \A t \in Task : pc[t] = "reclaim" => \A r \in job[t].rows : r.day < today

\* What PinsKept says of one artifact, and of all.
PinStays(i) ==
    \/ \E j \in Id : /\ PinnedFor(db'.art[j], db.art[i].pin)
                     /\ Says(Capped(db.art[i].content)) \subseteq Says(db'.art[j].content)
    \/ Says(db.art[i].content) \subseteq dropped'
    \/ \E j \in Id : db'.art[j].pin = db.art[i].pin /\ db.art[j].pin # db.art[i].pin
    \/ db'.art[i].pin = today + 1
    \/ \E t \in Task : pc[t] = "merge" /\ Oldest(job[t].ids) = i

PinsStay == \A i \in Id : Live(i) /\ db.art[i].pin >= today' => PinStays(i)

\* A step that leaves an artifact as it is, or lets it go.
StaysOrDropped(i) ==
    \/ /\ db'.art[i].status \in {"pending", "selected", "composed"}
       /\ db'.art[i].pin = db.art[i].pin
       /\ db'.art[i].content = db.art[i].content
    \/ Says(db.art[i].content) \subseteq dropped'

LEMMA EachStays ==
  ASSUME Whole(db), NEW i \in Id, StaysOrDropped(i)
  PROVE  PinStays(i)
<1>1. Says(Capped(db.art[i].content)) \subseteq Says(db.art[i].content)
  BY TablesTypes, CapLeaves DEF Whole
<1>. QED
  BY <1>1 DEF StaysOrDropped, PinStays, PinnedFor

LEMMA AllStay ==
  ASSUME Whole(db), \A i \in Id : Live(i) => StaysOrDropped(i)
  PROVE  PinsStay
BY EachStays DEF PinsStay

\* A step that selects nothing, and no pin of what is selected moves.
LEMMA HumanPinsStay ==
  ASSUME Whole(db), HumanPins(db), db'.slate \subseteq db.slate,
         \A j \in Id : db'.art[j].status = "selected" =>
            db.art[j].status = "selected" /\ db'.art[j].pin = db.art[j].pin
  PROVE  HumanPins(db')
<1>1. \A r \in db.slate : r.id \in Id
  BY TablesTypes DEF Whole
<1>. QED
  BY <1>1 DEF HumanPins

\* What is asked of a step.
PinsWell == PinsStay /\ HumanPins(db')

LEMMA UnmovedPins ==
  ASSUME Whole(db), HumanPins(db), db'.slate \subseteq db.slate,
         Unmoved(db, db'), SamePins(db, db')
  PROVE  PinsWell
<1>1. \A i \in Id : Live(i) => StaysOrDropped(i)
  BY DEF Live, StaysOrDropped, Unmoved, SamePins
<1>2. PinsStay
  BY <1>1, AllStay
<1>3. HumanPins(db')
  BY HumanPinsStay DEF Unmoved, SamePins
<1>. QED
  BY <1>2, <1>3 DEF PinsWell

LEMMA MarkedPins ==
  ASSUME Whole(db), HumanPins(db), db'.slate \subseteq db.slate, NEW i \in Id,
         NEW s \in {"pending", "composed", "discarded"}, Marked(db, db', i, s), SamePins(db, db'),
         s = "discarded" => Says(db.art[i].content) \subseteq dropped'
  PROVE  PinsWell
<1>1. ASSUME NEW j \in Id, Live(j) PROVE StaysOrDropped(j)
  <2>1. /\ db'.art[j].status = IF j = i THEN s ELSE db.art[j].status
        /\ db'.art[j].content = db.art[j].content /\ db'.art[j].pin = db.art[j].pin
    BY DEF Marked, SamePins
  <2>. QED
    BY <2>1, <1>1 DEF Live, StaysOrDropped
<1>2. PinsStay
  BY <1>1, AllStay
<1>3. HumanPins(db')
  <2>1. \A j \in Id : db'.art[j].status = "selected" =>
            db.art[j].status = "selected" /\ db'.art[j].pin = db.art[j].pin
    BY DEF Marked, SamePins
  <2>. QED
    BY <2>1, HumanPinsStay
<1>. QED
  BY <1>2, <1>3 DEF PinsWell

\* What AllWell says of the tables.
LEMMA WellFacts ==
  ASSUME AllWell
  PROVE  /\ Room /\ Whole(db) /\ Synced(db) /\ failures' = 0 /\ ~stale'
         /\ db \in Tables /\ today \in Nat
BY DEF AllWell, Room, Exact, TypeOK

LEMMA ReadersPins ==
  ASSUME AllWell, HumanPins(db), db' = db
  PROVE  PinsWell
BY WellFacts, UnmovedPins DEF Unmoved, SamePins

LEMMA SucceedsPins ==
  ASSUME AllWell, HumanPins(db), NEW n \in Id, ~Here(db, n), db'.slate = db.slate,
         NEW also, NEW update, Succeeds(db, db', n, also, update),
         \A i \in also : \E t \in Task : pc[t] = "merge" /\ Oldest(job[t].ids) = i
  PROVE  PinsWell
<1>1. PICK old \in SUBSET Id : /\ Grown(db, db', n, old \cup also, update)
                               /\ \A j \in old \cup also : db.art[j].status = "pending"
                               /\ Heir(db, db', n, old)
  BY WellFacts DEF Succeeds
<1>2. ASSUME NEW i \in Id, Live(i) PROVE PinStays(i)
  <2>1. i # n
    BY <1>2 DEF Live, Here
  <2>2. CASE i \in also
    BY <2>2 DEF PinStays
  <2>3. CASE i \in old
    <3>1. /\ db'.art[n].pin = db.art[i].pin /\ db'.art[n].status = "pending"
          /\ Says(Capped(db.art[i].content)) \subseteq Says(db'.art[n].content)
      BY <1>1, <2>3 DEF Grown, Heir
    <3>. QED
      BY <3>1 DEF PinStays, PinnedFor
  <2>4. CASE i \notin old \cup also
    <3>1. StaysOrDropped(i)
      BY <1>1, <1>2, <2>1, <2>4 DEF Grown, Heir, Live, StaysOrDropped
    <3>. QED
      BY <3>1, WellFacts, EachStays
  <2>. QED
    BY <2>2, <2>3, <2>4
<1>3. HumanPins(db')
  <2>1. \A j \in Id : db'.art[j].status = "selected" =>
            db.art[j].status = "selected" /\ db'.art[j].pin = db.art[j].pin
    BY <1>1 DEF Grown, Heir
  <2>. QED
    BY <2>1, WellFacts, HumanPinsStay
<1>. QED
  BY <1>2, <1>3 DEF PinsStay, PinsWell

LEMMA CrawlPins ==
  ASSUME AllWell, HumanPins(db), NEW t \in Task, Crawl(t)
  PROVE  PinsWell
<1>1. PICK n \in Id, s \in Service \cup {NoService} :
        IsNext(n) /\ Makes(t, Insert(db, n, s, <<n>>), "idle", NoJob)
  BY DEF Crawl
<1>2. Room /\ Whole(db) /\ failures' = 0
  BY WellFacts
<1>3. ~Here(db, n)
  BY <1>1, BoundAssumption DEF IsNext, Here, Id
<1>4. db' = Last(Insert(db, n, s, <<n>>))
  BY <1>1, <1>2, MakesWhole
<1>5. Succeeds(db, db', n, {}, {n}) /\ Calls(db, Insert(db, n, s, <<n>>))
  BY <1>2, <1>3, <1>4, CrawlCalls
<1>6. db'.slate = db.slate
  BY <1>4, <1>5, CallsLast DEF Quiet
<1>. QED
  BY <1>3, <1>5, <1>6, SucceedsPins

LEMMA MergeOnePins ==
  ASSUME AllWell, HumanPins(db), NEW t \in Task, MergeOne(t)
  PROVE  PinsWell
<1>. DEFINE i == Oldest(job[t].ids)
            steps(n) == Mark(db, i, "discarded")
                          \o Insert(Last(Mark(db, i, "discarded")), n, job[t].service,
                                    db.art[i].content)
            next == IF job[t].ids \ {i} = {} THEN "idle" ELSE "merge"
            task == [job[t] EXCEPT !.ids = job[t].ids \ {i}]
<1>1. Room /\ Whole(db) /\ Synced(db) /\ failures' = 0 /\ ~stale'
  BY WellFacts
<1>2. /\ pc[t] = "merge" /\ StaleIf(db.art[i].status # "pending")
      /\ \E n \in Id : IsNext(n) /\ Makes(t, steps(n), next, task)
  BY DEF MergeOne
<1>3. PICK n \in Id : IsNext(n) /\ Makes(t, steps(n), next, task)
  BY <1>2
<1>4. db.art[i].status = "pending"
  BY <1>1, <1>2, NotStale
<1>5. i \in Id /\ Here(db, i) /\ job[t].service \in Service \cup {NoService}
  <2>1. /\ job[t] \in Job /\ job[t].ids # {} /\ job[t].ids \subseteq Id
    BY <1>1, <1>2, RoomFacts, JobTypes DEF Known
  <2>2. i \in job[t].ids
    BY <2>1, OldestOf
  <2>. QED
    BY <2>1, <2>2, <1>4, JobTypes DEF Here
<1>6. ~Here(db, n)
  BY <1>3, BoundAssumption DEF IsNext, Here, Id
<1>7. /\ Calls(db, steps(n))
      /\ Synced(db) /\ db.art[i].status = "pending" => Succeeds(db, Last(steps(n)), n, {i}, {})
  BY <1>1, <1>3, <1>5, <1>6, MergeCalls
<1>8. \A j \in {i} : \E u \in Task : pc[u] = "merge" /\ Oldest(job[u].ids) = j
  BY <1>2
<1>. HIDE DEF i, steps, next
<1>9. db' = Last(steps(n))
  BY <1>1, <1>3, MakesWhole
<1>10. db'.slate = db.slate
  BY <1>7, <1>9, CallsLast DEF Quiet
<1>11. Succeeds(db, db', n, {i}, {})
  BY <1>1, <1>4, <1>7, <1>9
<1>. QED
  BY <1>6, <1>8, <1>10, <1>11, SucceedsPins

LEMMA ClearPins ==
  ASSUME AllWell, HumanPins(db), NEW t \in Task, Clear(t) \/ ResetDay(t)
  PROVE  PinsWell
<1>. DEFINE rows == SlateOf(db, job[t].day)
            cleared == Cleared(db, rows)
<1>1. Room /\ Whole(db) /\ failures' = 0
  BY WellFacts
<1>2. \E next, task : Makes(t, <<cleared>>, next, task)
  BY DEF Clear, ResetDay
<1>3. db' = Last(<<cleared>>)
  BY <1>1, <1>2, MakesWhole
<1>4. /\ Unmoved(db, cleared) /\ SamePins(db, cleared) /\ cleared.slate = db.slate \ rows
      /\ cleared \in Tables
  BY <1>1, ClearedCalls
<1>. HIDE DEF cleared
<1>5. db' = cleared
  BY <1>3, <1>4, OneStatement
<1>6. db'.slate \subseteq db.slate
  BY <1>4, <1>5
<1>. QED
  BY <1>1, <1>4, <1>5, <1>6, UnmovedPins

LEMMA ResetRowPins ==
  ASSUME AllWell, HumanPins(db), NEW t \in Task, ResetRow(t)
  PROVE  PinsWell
<1>. DEFINE r == FirstRow(job[t].rows)
            rest == [job[t] EXCEPT !.rows = @ \ {r}]
<1>1. Room /\ Whole(db) /\ failures' = 0
  BY WellFacts
<1>2. /\ job[t].rows # {}
      /\ IF db.art[r.id].status = "selected"
         THEN Makes(t, Revert(db, r.id), "reset", rest)
         ELSE Reads(t, "reset", rest)
  BY DEF ResetRow
<1>3. r.id \in Id
  <2>1. \A o \in job[t].rows : o.id \in Id /\ o.slot \in Nat
    BY <1>1, RoomFacts
  <2>. QED
    BY <2>1, <1>2, FirstRowOf
<1>. HIDE DEF r, rest
<1>4. CASE db.art[r.id].status = "selected"
  <2>1. db' = Last(Revert(db, r.id))
    BY <1>1, <1>2, <1>4, MakesWhole
  <2>2. Marked(db, db', r.id, "pending") /\ SamePins(db, db') /\ Calls(db, Revert(db, r.id))
    BY <2>1, <1>1, <1>3, <1>4, RevertCalls
  <2>3. db'.slate \subseteq db.slate
    BY <2>1, <2>2, CallsLast DEF Quiet
  <2>. QED
    BY <2>2, <2>3, <1>1, <1>3, MarkedPins
<1>5. CASE db.art[r.id].status # "selected"
  <2>1. db' = db
    BY <1>2, <1>5 DEF Reads
  <2>. QED
    BY <2>1, ReadersPins
<1>. QED
  BY <1>4, <1>5

LEMMA SweepPins ==
  ASSUME AllWell, HumanPins(db), NEW t \in Task, Sweep(t)
  PROVE  PinsWell
<1>1. PICK i \in Id, p \in 0..MaxPriority :
        Live(i) /\ Makes(t, Reprioritise(db, i, p), "idle", NoJob)
  BY DEF Sweep
<1>2. Room /\ Whole(db) /\ failures' = 0 /\ Here(db, i) /\ p \in Priority
  BY <1>1, WellFacts, BoundAssumption DEF Live, Here, Priority
<1>3. db' = Last(Reprioritise(db, i, p))
  BY <1>1, <1>2, MakesWhole
<1>4. Unmoved(db, db') /\ SamePins(db, db') /\ Calls(db, Reprioritise(db, i, p))
  BY <1>2, <1>3, ReprioritiseCalls
<1>5. db'.slate \subseteq db.slate
  BY <1>3, <1>4, CallsLast DEF Quiet
<1>. QED
  BY <1>2, <1>4, <1>5, UnmovedPins

\* A mark made of a task's artifact.
LEMMA MarkPins ==
  ASSUME AllWell, HumanPins(db), NEW t \in Task, NEW i \in Id, NEW s \in {"composed", "discarded"},
         NEW next, NEW task, Makes(t, Mark(db, i, s), next, task),
         s = "discarded" => dropped' = dropped \cup Says(db.art[i].content)
  PROVE  PinsWell
<1>1. Room /\ Whole(db) /\ failures' = 0
  BY WellFacts
<1>2. db' = Last(Mark(db, i, s))
  BY <1>1, MakesWhole
<1>3. Marked(db, db', i, s) /\ SamePins(db, db') /\ Calls(db, Mark(db, i, s))
  BY <1>1, <1>2, MarkCalls
<1>4. db'.slate \subseteq db.slate
  BY <1>2, <1>3, CallsLast DEF Quiet
<1>5. s = "discarded" => Says(db.art[i].content) \subseteq dropped'
  OBVIOUS
<1>6. s \in {"pending", "composed", "discarded"}
  OBVIOUS
<1>. QED
  BY <1>1, <1>3, <1>4, <1>5, <1>6, MarkedPins

LEMMA MarksPins ==
  ASSUME AllWell, HumanPins(db), NEW t \in Task,
         GateDrops(t) \/ ComposeDrops(t) \/ DiscardDead(t) \/ Resolve(t)
  PROVE  PinsWell
<1>1. pc[t] \in {"weigh", "compose", "dead"}
  BY DEF GateDrops, ComposeDrops, DiscardDead, Resolve
<1>2. job[t].id \in Id
  BY <1>1, WellFacts, RoomFacts DEF Known
<1>3. CASE GateDrops(t) \/ ComposeDrops(t) \/ DiscardDead(t)
  <2>1. /\ \E next, task : Makes(t, Mark(db, job[t].id, "discarded"), next, task)
        /\ dropped' = dropped \cup Says(db.art[job[t].id].content)
    BY <1>3 DEF GateDrops, ComposeDrops, Drops, DiscardDead
  <2>. QED
    BY <2>1, <1>2, MarkPins
<1>4. CASE Resolve(t)
  <2>1. \E next, task : Makes(t, Mark(db, job[t].id, "composed"), next, task)
    BY <1>4 DEF Resolve
  <2>. QED
    BY <2>1, <1>2, MarkPins
<1>. QED
  BY <1>3, <1>4

LEMMA PlacePins ==
  ASSUME AllWell, HumanPins(db), NEW t \in Task, Place(t)
  PROVE  PinsWell
<1>. DEFINE p == FirstRow(job[t].plan)
            day == job[t].day
            rest == job[t].plan \ {p}
            steps == InsertSlot(db, p, day)
            seen == SlateOf(Last(steps), day)
            what == SlateMoved(t) \/ PickMoved(p, day)
            next == IF rest # {} THEN "place" ELSE Then(t, Last(steps))
            task == IF rest # {} THEN [job[t] EXCEPT !.plan = rest, !.seen = seen]
                    ELSE Slate(t, Last(steps))
<1>1. Room /\ Whole(db) /\ failures' = 0 /\ ~stale'
  BY WellFacts
<1>2. pc[t] = "place" /\ StaleIf(what) /\ Makes(t, steps, next, task)
  BY DEF Place
<1>3. db.art[p.id].status = "pending" /\ (p.lane = "human" => db.art[p.id].pin = day)
  <2>1. what \in BOOLEAN
    BY DEF SlateMoved, PickMoved
  <2>2. ~what
    BY <1>1, <1>2, <2>1, NotStale
  <2>. QED
    BY <2>2 DEF PickMoved
<1>4. p \in Pick /\ Here(db, p.id) /\ day \in Day
  <2>1. /\ job[t] \in Job /\ job[t].plan # {}
        /\ \A r \in job[t].plan : r.slot \in Nat /\ Here(db, r.id)
    BY <1>1, <1>2, RoomFacts DEF Known
  <2>2. p \in job[t].plan
    BY <2>1, FirstRowOf
  <2>. QED
    BY <2>1, <2>2, JobTypes
<1>. HIDE DEF next, task, p, day
<1>5. db' = Last(steps)
  BY <1>1, <1>2, MakesWhole
<1>6. /\ Marked(db, db', p.id, "selected") /\ SamePins(db, db')
      /\ \A r \in db'.slate : r = RowOf(p, day) \/ (r \in db.slate /\ r.id # p.id)
  BY <1>1, <1>4, <1>5, InsertSlotCalls
<1>7. p.id \in Id /\ \A r \in db.slate : r.id \in Id
  BY <1>1, <1>4, TablesTypes DEF Pick, Whole
<1>8. \A j \in Id : /\ db'.art[j].status = IF j = p.id THEN "selected" ELSE db.art[j].status
                    /\ db'.art[j].content = db.art[j].content
                    /\ db'.art[j].pin = db.art[j].pin
  BY <1>6 DEF Marked, SamePins
<1>9. PinsStay
  <2>1. \A i \in Id : Live(i) => StaysOrDropped(i)
    BY <1>8 DEF Live, StaysOrDropped
  <2>. QED
    BY <1>1, <2>1, AllStay
<1>10. HumanPins(db')
  <2>. SUFFICES ASSUME NEW r \in db'.slate, r.lane = "human", db'.art[r.id].status = "selected"
                PROVE  db'.art[r.id].pin = r.day
    BY DEF HumanPins
  <2>1. CASE r = RowOf(p, day)
    <3>1. r.id = p.id /\ r.lane = p.lane /\ r.day = day
      BY <2>1 DEF RowOf
    <3>. QED
      BY <3>1, <1>3, <1>7, <1>8
  <2>2. CASE r \in db.slate /\ r.id # p.id
    BY <2>2, <1>7, <1>8 DEF HumanPins
  <2>. QED
    BY <2>1, <2>2, <1>6
<1>. QED
  BY <1>9, <1>10 DEF PinsWell

LEMMA PinForTomorrowPins ==
  ASSUME AllWell, HumanPins(db), NEW t \in Task, PinForTomorrow(t)
  PROVE  PinsWell
<1>1. PICK i \in Id : /\ db.art[i].status = "pending" /\ db.art[i].pin # today + 1
                      /\ Makes(t, PinFor(db, i, today + 1), "idle", NoJob)
  BY DEF PinForTomorrow
<1>2. Room /\ Whole(db) /\ Synced(db) /\ failures' = 0
  BY WellFacts
<1>3. today + 1 \in Day
  BY <1>2, BoundAssumption DEF PinForTomorrow, Room, TypeOK, Day
<1>4. db' = Last(PinFor(db, i, today + 1))
  BY <1>1, <1>2, MakesWhole
<1>5. /\ Unmoved(db, db') /\ PinsMoved(db, db', i, today + 1)
      /\ Calls(db, PinFor(db, i, today + 1))
  BY <1>1, <1>2, <1>3, <1>4, PinForCalls
<1>6. db'.slate \subseteq db.slate
  BY <1>4, <1>5, CallsLast DEF Quiet
<1>7. ASSUME NEW j \in Id, Live(j) PROVE PinStays(j)
  <2>1. CASE j = i
    BY <2>1, <1>5 DEF PinStays, PinsMoved
  <2>2. CASE j # i /\ db'.art[j].pin = db.art[j].pin
    <3>1. StaysOrDropped(j)
      BY <1>5, <1>7, <2>2 DEF Live, StaysOrDropped, Unmoved
    <3>. QED
      BY <3>1, <1>2, EachStays
  <2>3. CASE db.art[j].pin = today + 1
    BY <1>1, <1>5, <2>3 DEF PinStays, PinsMoved
  <2>. QED
    BY <2>1, <2>2, <2>3, <1>2, <1>5 DEF PinsMoved
<1>8. HumanPins(db')
  <2>1. ASSUME NEW j \in Id, db'.art[j].status = "selected"
        PROVE  db.art[j].status = "selected" /\ db'.art[j].pin = db.art[j].pin
    <3>1. db.art[j].status = "selected" /\ j # i
      BY <1>1, <1>5, <2>1 DEF Unmoved
    <3>. QED
      BY <3>1, <1>2, <1>5 DEF PinsMoved
  <2>. QED
    BY <2>1, <1>2, <1>6, HumanPinsStay
<1>. QED
  BY <1>7, <1>8 DEF PinsStay, PinsWell

LEMMA ReclaimRowPins ==
  ASSUME AllWell, HumanPins(db), LeftBehind, today' = today, NEW t \in Task, ReclaimRow(t)
  PROVE  PinsWell
<1>. DEFINE next(r) == IF job[t].rows \ {r} = {} THEN "idle" ELSE "reclaim"
            claimed(r) == IF r.lane = "human" THEN job[t].claimed \cup {NextOpenDay(t)}
                          ELSE job[t].claimed
            task(r) == [job[t] EXCEPT !.rows = job[t].rows \ {r}, !.claimed = claimed(r)]
            what(r) == db.art[r.id].status = "selected" /\
                       (\/ r \notin db.slate
                        \/ r.lane = "human" /\ \E e \in db.listed : e.pin = NextOpenDay(t))
<1>1. PICK r \in job[t].rows :
        /\ pc[t] = "reclaim" /\ OpenDays(t) # {} /\ Boosted(r.id) \in Priority
        /\ IF db.art[r.id].status = "selected"
           THEN Makes(t, CarryForward(t, r), next(r), task(r))
           ELSE Reads(t, next(r), task(r))
        /\ StaleIf(what(r))
  BY DEF ReclaimRow
<1>2. Room /\ Whole(db) /\ Synced(db) /\ failures' = 0 /\ ~stale' /\ db \in Tables /\ today \in Nat
  BY WellFacts
<1>3. r.id \in Id /\ r.day < today
  BY <1>1, <1>2, RoomFacts DEF LeftBehind
<1>4. ~what(r)
  <2>1. what(r) \in BOOLEAN
    OBVIOUS
  <2>. HIDE DEF what
  <2>. QED
    BY <1>1, <1>2, <2>1, NotStale
<1>. HIDE DEF next, task
<1>5. CASE db.art[r.id].status # "selected"
  <2>1. db' = db
    BY <1>1, <1>5 DEF Reads
  <2>. QED
    BY <2>1, ReadersPins
<1>6. CASE db.art[r.id].status = "selected"
  <2>1. db' = Last(CarryForward(t, r))
    BY <1>1, <1>2, <1>6, MakesWhole
  <2>2. /\ Marked(db, db', r.id, "pending") /\ db'.slate = db.slate \ {r}
        /\ IF r.lane = "human" THEN PinsMoved(db, db', r.id, NextOpenDay(t)) ELSE SamePins(db, db')
    BY <2>1, <1>1, <1>2, <1>3, <1>6, CarryForwardCalls
  <2>3. db'.slate \subseteq db.slate
    BY <2>2
  <2>4. CASE r.lane # "human"
    <3>1. SamePins(db, db')
      BY <2>2, <2>4
    <3>2. "pending" \in {"pending", "composed", "discarded"}
          /\ ("pending" = "discarded" => Says(db.art[r.id].content) \subseteq dropped')
      OBVIOUS
    <3>. QED
      BY <3>1, <3>2, <2>2, <2>3, <1>2, <1>3, MarkedPins
  <2>5. CASE r.lane = "human"
    <3>1. r \in db.slate /\ \A e \in db.listed : e.pin # NextOpenDay(t)
      BY <1>4, <1>6, <2>5
    <3>2. db.art[r.id].pin = r.day /\ r.day \in Nat
      BY <3>1, <2>5, <1>2, <1>6, TablesTypes, BoundAssumption DEF HumanPins, Day
    <3>3. ASSUME NEW j \in Id, db.art[j].status = "pending"
          PROVE  db.art[j].pin # NextOpenDay(t)
      <4>. DEFINE e == [id |-> j, priority |-> db.art[j].priority, pin |-> db.art[j].pin]
      <4>1. e \in Entry /\ e.id = j /\ e.priority = db.art[j].priority /\ e.pin = db.art[j].pin
        BY <1>2, TablesTypes DEF Entry
      <4>2. e \in db.listed
        BY <4>1, <3>3, <1>2 DEF Synced
      <4>. QED
        BY <4>1, <4>2, <3>1
    <3>4. \A j \in Id \ {r.id} : db'.art[j].pin = db.art[j].pin
      BY <2>2, <2>5, <3>3, <1>2 DEF PinsMoved
    <3>5. \A j \in Id : /\ db'.art[j].status = IF j = r.id THEN "pending" ELSE db.art[j].status
                        /\ db'.art[j].content = db.art[j].content
      BY <2>2 DEF Marked
    <3>6. ASSUME NEW j \in Id, Live(j), db.art[j].pin >= today PROVE PinStays(j)
      <4>1. j # r.id
        BY <3>2, <3>6, <1>2, <1>3
      <4>2. StaysOrDropped(j)
        BY <4>1, <3>4, <3>5, <3>6 DEF Live, StaysOrDropped
      <4>. QED
        BY <4>2, <1>2, EachStays
    <3>7. HumanPins(db')
      <4>1. \A j \in Id : db'.art[j].status = "selected" =>
              db.art[j].status = "selected" /\ db'.art[j].pin = db.art[j].pin
        BY <3>4, <3>5
      <4>. QED
        BY <4>1, <2>3, <1>2, HumanPinsStay
    <3>. QED
      BY <3>6, <3>7 DEF PinsStay, PinsWell
  <2>. QED
    BY <2>4, <2>5
<1>. QED
  BY <1>5, <1>6

LEMMA ReadsPins ==
  ASSUME AllWell, HumanPins(db), NEW t \in Task,
         \/ StartSelect(t) \/ StartRedo(t) \/ StartDrain(t) \/ DrainNext(t) \/ DrainEnds(t)
         \/ ComposeNow(t) \/ Leaves(t) \/ Compose(t) \/ StartReclaim(t) \/ Probe(t) \/ StartMerge(t)
  PROVE  PinsWell
<1>1. CASE StartSelect(t) \/ StartRedo(t) \/ StartDrain(t) \/ ComposeNow(t)
  BY <1>1, ReadersPins DEF StartSelect, StartRedo, StartDrain, ComposeNow, Begins, Reads
<1>2. CASE StartReclaim(t) \/ Probe(t) \/ StartMerge(t)
  BY <1>2, ReadersPins DEF StartReclaim, Probe, StartMerge, Begins, Reads
<1>3. CASE DrainNext(t) \/ DrainEnds(t) \/ Leaves(t) \/ Compose(t)
  BY <1>3, ReadersPins DEF DrainNext, DrainEnds, Leaves, Compose, Reads
<1>. QED
  BY <1>1, <1>2, <1>3

LEMMA StepPins ==
  ASSUME AllWell, HumanPins(db), LeftBehind, NEW t \in Task, Step(t)
  PROVE  PinsWell
<1>1. today' = today
  BY StepTypes DEF AllWell
<1>2. CASE GateDrops(t) \/ ComposeDrops(t) \/ DiscardDead(t) \/ Resolve(t)
  BY <1>2, MarksPins
<1>3. CASE Crawl(t) \/ Clear(t) \/ ResetDay(t) \/ Place(t) \/ ResetRow(t)
  BY <1>3, CrawlPins, ClearPins, PlacePins, ResetRowPins
<1>4. CASE PinForTomorrow(t) \/ Sweep(t) \/ ReclaimRow(t) \/ MergeOne(t)
  BY <1>1, <1>4, PinForTomorrowPins, SweepPins, ReclaimRowPins, MergeOnePins
<1>5. CASE \/ StartSelect(t) \/ StartRedo(t) \/ StartDrain(t) \/ DrainNext(t) \/ DrainEnds(t)
           \/ ComposeNow(t) \/ Leaves(t) \/ Compose(t) \/ StartReclaim(t) \/ Probe(t) \/ StartMerge(t)
  BY <1>5, ReadsPins
<1>. QED
  BY <1>2, <1>3, <1>4, <1>5, Zenon DEF Step

\* Where a task goes.
LEMMA MakesGoes ==
  ASSUME Room, NEW t \in Task, NEW steps, NEW next, NEW task, Makes(t, steps, next, task)
  PROVE  pc'[t] \in {next, "idle"} /\ job'[t] \in {task, NoJob}
BY DEF Makes, Dies, Goto, Room, TypeOK

LEMMA ReadsGoes ==
  ASSUME Room, NEW t \in Task, NEW next, NEW task, Reads(t, next, task)
  PROVE  pc'[t] = next /\ job'[t] \in {task, NoJob}
BY DEF Reads, Goto, Room, TypeOK

\* Only the reclaim goes to the reclaim.
LEMMA OnlyReclaims ==
  ASSUME Room, NEW t \in Task, Step(t), pc'[t] = "reclaim"
  PROVE  StartReclaim(t) \/ ReclaimRow(t)
<1>1. ASSUME NEW steps, NEW next, NEW task, Makes(t, steps, next, task) PROVE next = "reclaim"
  BY <1>1, MakesGoes
<1>2. ASSUME NEW next, NEW task, Reads(t, next, task) PROVE next = "reclaim"
  BY <1>2, ReadsGoes
<1>3. ASSUME NEW next, NEW task, Begins(t, next, task) PROVE next = "reclaim"
  BY <1>2, <1>3 DEF Begins
<1>4. ~Crawl(t) /\ ~ResetDay(t) /\ ~PinForTomorrow(t) /\ ~Sweep(t) /\ ~DiscardDead(t)
  BY <1>1 DEF Crawl, ResetDay, PinForTomorrow, Sweep, DiscardDead
<1>5. ~Clear(t) /\ ~ResetRow(t) /\ ~MergeOne(t)
  BY <1>1, <1>2 DEF Clear, ResetRow, MergeOne
<1>6. ~Place(t)
  <2>1. \A d : Then(t, d) # "reclaim"
    BY DEF Then
  <2>. QED
    BY <2>1, <1>1 DEF Place
<1>7. ~GateDrops(t) /\ ~ComposeDrops(t) /\ ~Resolve(t) /\ ~Leaves(t)
  <2>1. Onward(t) # "reclaim"
    BY DEF Onward
  <2>. QED
    BY <2>1, <1>1, <1>2 DEF GateDrops, ComposeDrops, Drops, Resolve, Leaves
<1>8. ~StartSelect(t) /\ ~StartRedo(t) /\ ~StartDrain(t) /\ ~ComposeNow(t) /\ ~Probe(t) /\ ~StartMerge(t)
  BY <1>3 DEF StartSelect, StartRedo, StartDrain, ComposeNow, Probe, StartMerge
<1>9. ~DrainNext(t) /\ ~DrainEnds(t) /\ ~Compose(t)
  BY <1>2 DEF DrainNext, DrainEnds, Compose
<1>. QED
  BY <1>4, <1>5, <1>6, <1>7, <1>8, <1>9, Zenon DEF Step

LEMMA LeftBehindKept ==
  ASSUME Room, LeftBehind, NEW t \in Task, Step(t)
  PROVE  LeftBehind'
<1>1. today' = today
  BY StepTypes
<1>2. PICK p \in PC, j \in Job : pc' = [pc EXCEPT ![t] = p] /\ job' = [job EXCEPT ![t] = j]
  BY StepSettles DEF Settled, Moves
<1>3. \A u \in Task \ {t} : pc'[u] = pc[u] /\ job'[u] = job[u]
  BY <1>2 DEF Room, TypeOK
<1>4. ASSUME pc'[t] = "reclaim" PROVE \A r \in job'[t].rows : r.day < today
  <2>0. NoJob.rows = {}
    BY DEF NoJob
  <2>1. CASE StartReclaim(t)
    <3>1. PICK task : Reads(t, "reclaim", task) /\ task.rows = LeftOver
      <4>. DEFINE task == [NoJob EXCEPT !.day = today, !.rows = LeftOver,
                             !.claimed = {r.pin : r \in db.listed} \ {NoDay}]
      <4>1. Reads(t, "reclaim", task)
        BY <2>1 DEF StartReclaim, Begins
      <4>2. task.rows = LeftOver
        BY DEF NoJob
      <4>. QED
        BY <4>1, <4>2
    <3>. QED
      BY <3>1, <2>0, ReadsGoes DEF LeftOver
  <2>2. CASE ReclaimRow(t)
    <3>1. /\ pc[t] = "reclaim"
          /\ \E rows \in SUBSET job[t].rows : \E claimed, steps, next :
                LET task == [job[t] EXCEPT !.rows = rows, !.claimed = claimed]
                IN  Makes(t, steps, next, task) \/ Reads(t, next, task)
      <4>. DEFINE next(r) == IF job[t].rows \ {r} = {} THEN "idle" ELSE "reclaim"
                  claimed(r) == IF r.lane = "human" THEN job[t].claimed \cup {NextOpenDay(t)}
                                ELSE job[t].claimed
                  task(r) == [job[t] EXCEPT !.rows = job[t].rows \ {r}, !.claimed = claimed(r)]
      <4>1. PICK r \in job[t].rows :
              /\ pc[t] = "reclaim"
              /\ IF db.art[r.id].status = "selected"
                 THEN Makes(t, CarryForward(t, r), next(r), task(r))
                 ELSE Reads(t, next(r), task(r))
        BY <2>2 DEF ReclaimRow
      <4>2. job[t].rows \ {r} \in SUBSET job[t].rows
        OBVIOUS
      <4>. HIDE DEF next, claimed
      <4>. QED
        BY <4>1, <4>2
    <3>2. PICK rows \in SUBSET job[t].rows :
            \E claimed : job'[t] \in {[job[t] EXCEPT !.rows = rows, !.claimed = claimed], NoJob}
      BY <3>1, MakesGoes, ReadsGoes
    <3>3. job[t] \in Job
      BY DEF Room, TypeOK
    <3>4. job'[t].rows \subseteq job[t].rows
      BY <3>2, <3>3, <2>0 DEF Job
    <3>. QED
      BY <3>1, <3>4 DEF LeftBehind
  <2>. QED
    BY <1>4, <2>1, <2>2, OnlyReclaims
<1>. QED
  BY <1>1, <1>3, <1>4 DEF LeftBehind

Pinned == InOrder /\ LeftBehind /\ (Healthy /\ ~stale => HumanPins(db))

LEMMA InitPinned == Init => Pinned
<1>. SUFFICES ASSUME Init PROVE LeftBehind /\ HumanPins(db)
  BY InitInOrder DEF Pinned
<1>1. db.slate = {} /\ \A t \in Task : pc[t] = "idle"
  BY DEF Init
<1>. QED
  BY <1>1 DEF LeftBehind, HumanPins

\* A step of a task while every call works and nothing is stale.
LEMMA PinnedStep ==
  ASSUME Pinned, NEW t \in Task, Step(t), failures' = 0, ~stale'
  PROVE  PinsWell
<1>1. Room /\ LeftBehind
  BY DEF Pinned, InOrder
<1>2. stale => stale'
  BY <1>1, StepSettles DEF Settled
<1>3. failures = 0
  <2>1. failures \in 0..MaxFailures
    BY <1>1 DEF Room, TypeOK
  <2>. QED
    BY <2>1, BoundAssumption, FailuresAddUp
<1>4. AllWell /\ HumanPins(db)
  BY <1>2, <1>3 DEF AllWell, Pinned, InOrder, Healthy
<1>. QED
  BY <1>1, <1>4, StepPins

LEMMA PinnedKept == Pinned /\ [Next]_vars => Pinned'
<1>. SUFFICES ASSUME Pinned, [Next]_vars
              PROVE  LeftBehind' /\ (Healthy' /\ ~stale' => HumanPins(db)')
  BY InOrderKept DEF Pinned
<1>1. Room /\ LeftBehind
  BY DEF Pinned, InOrder
<1>2. CASE \E t \in Task : Step(t)
  <2>1. PICK t \in Task : Step(t)
    BY <1>2
  <2>2. ASSUME Healthy', ~stale' PROVE HumanPins(db')
    BY <2>1, <2>2, PinnedStep DEF Healthy, PinsWell
  <2>. QED
    BY <2>1, <2>2, <1>1, LeftBehindKept DEF HumanPins
<1>3. CASE Tick \/ UNCHANGED vars
  <2>1. /\ UNCHANGED <<db, pc, job, failures, stale>>
        /\ today' = today \/ today' = today + 1
    BY <1>3 DEF Tick, vars
  <2>2. today \in Nat /\ \A t \in Task : \A r \in job[t].rows : r.day \in Nat
    <3>1. \A t \in Task : \A r \in job[t].rows : r \in Row
      BY <1>1, JobTypes DEF Room, TypeOK
    <3>. QED
      BY <3>1, <1>1, BoundAssumption DEF Room, TypeOK, Row, Day
  <2>3. LeftBehind'
    BY <2>1, <2>2, <1>1 DEF LeftBehind
  <2>4. Healthy' /\ ~stale' => HumanPins(db)'
    BY <2>1 DEF Pinned, Healthy, HumanPins
  <2>. QED
    BY <2>3, <2>4
<1>. QED
  BY <1>2, <1>3 DEF Next

\* A pin stays with what it was granted for: while every call works and no task
\* writes on what has changed since, an update pinned for a day to come is still
\* pinned for it after any step that leaves it waiting or selected, but for the
\* ways of losing it that PinsKept names.
THEOREM PinsAlwaysKept == Spec => PinsKept
<1>. DEFINE Keeps == failures' = 0 /\ ~stale' =>
                        \A i \in Id :
                           LET a == db.art[i] IN
                           Live(i) /\ a.pin >= today' =>
                              \/ \E j \in Id : /\ PinnedFor(db'.art[j], a.pin)
                                               /\ Says(Capped(a.content)) \subseteq Says(db'.art[j].content)
                              \/ Says(a.content) \subseteq dropped'
                              \/ \E j \in Id : db'.art[j].pin = a.pin /\ db.art[j].pin # a.pin
                              \/ db'.art[i].pin = today + 1
                              \/ \E t \in Task : pc[t] = "merge" /\ Oldest(job[t].ids) = i
<1>1. ASSUME PinsStay PROVE Keeps
  BY <1>1 DEF PinsStay, PinStays
<1>2. ASSUME Pinned, [Next]_vars PROVE Keeps
  <2>1. CASE \E t \in Task : Step(t)
    <3>1. PICK t \in Task : Step(t)
      BY <2>1
    <3>2. ASSUME failures' = 0, ~stale' PROVE PinsStay
      BY <3>1, <3>2, <1>2, PinnedStep DEF PinsWell
    <3>. QED
      BY <3>2, <1>1
  <2>2. CASE Tick \/ UNCHANGED vars
    <3>1. db' = db
      BY <2>2 DEF Tick, vars
    <3>2. \A i \in Id : Live(i) => StaysOrDropped(i)
      BY <3>1 DEF Live, StaysOrDropped
    <3>3. Whole(db)
      BY <1>2 DEF Pinned, InOrder, Room
    <3>. QED
      BY <3>2, <3>3, <1>1, AllStay
  <2>. QED
    BY <1>2, <2>1, <2>2 DEF Next
<1>. HIDE DEF Keeps
<1>3. Pinned /\ [Next]_vars => Pinned' /\ [Keeps]_vars
  BY <1>2, PinnedKept
<1>4. Init => Pinned
  BY InitPinned
<1>5. Spec => [][Keeps]_vars
  BY <1>3, <1>4, PTL DEF Spec
<1>. QED
  BY <1>5 DEF PinsKept, Keeps

=============================================================================
