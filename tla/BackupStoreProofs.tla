-------------------------- MODULE BackupStoreProofs --------------------------
(***************************************************************************)
(* Theorems about BackupStore, for any number of requests, reaper ticks,   *)
(* versions and days, and any term, grace and lookback.                    *)
(***************************************************************************)
EXTENDS BackupStore, TLAPS

Absent(v) == ver[v].status = "absent"

Early     == {"create", "createHead"}
Promoting == {"promote", "resync", "retire", "retireBytes", "retireIndex"}
Deleting  == {"deleteBytes", "cascade", "cascadeBytes"}

\* What an actor knows where it stands: of the head it has seen and of the
\* version it is about.
Placed(c) ==
    /\ pc[c] \in {"create", "add"} => c \in Call
    /\ pc[c] \in Early \cup {"createVersion"} => c = Creator /\ Absent(1)
    /\ pc[c] \in Early => seen[c].status = "absent"
    /\ pc[c] \notin Rest \cup Early => seen[c].status # "absent"
    /\ pc[c] \in Deleting => seen[c].status = "deleted"
    /\ pc[c] \in {"createHead", "createVersion"} => row[c].version = 1
    /\ pc[c] = "createVersion" => seen[c].version = 1 /\ seen[c].blob = c
    /\ pc[c] \in {"createHead", "createVersion", "insert", "recover"} => row[c].blob = c
    /\ pc[c] = "add" => seen[c].version < LastVersion
    /\ pc[c] \in {"insert", "recover", "promote"} => row[c].version = seen[c].version + 1
    /\ pc[c] \in Promoting \ {"promote"} =>
           row[c].version = seen[c].version /\ row[c].version >= 2
    /\ pc[c] \in Promoting => ~Absent(row[c].version) /\ ver[row[c].version].blob = row[c].blob
    /\ pc[c] = "retireBytes" => ver[Superseded(c)].status = "deleted"
    /\ pc[c] \in {"reapBytes", "cascadeBytes"} => ver[row[c].version].status = "deleted"
    /\ pc[c] \in {"reapRow", "reapBytes"} => c \in Reaper
    /\ pc[c] \in {"reapRow", "reapBytes"} =>
           (seen[c].status = "active" => seen[c].version # row[c].version)
    /\ pc[c] = "reapRow" => ~Absent(row[c].version) /\ Overdue(row[c].version)

\* A blob that some row leads to, or some actor could make a row lead to.
InVer(b) == \E v \in Version : ~Absent(v) /\ ver[v].blob = b
Known(b) ==
    \/ InVer(b)
    \/ head.status # "absent" /\ head.blob = b
    \/ \E o \in Actor : seen[o].status # "absent" /\ seen[o].blob = b

\* The upload of c is nobody's yet.
Loose(c) ==
    \/ pc[c] \in {"idle", "create", "add", "createHead", "insert", "recover", "undoBytes"}
    \/ pc[c] \in Promoting /\ row[c].blob # c

Fresh(c) ==
    /\ Loose(c) => ~Known(c)
    /\ pc[c] = "createVersion" => ~InVer(c)
    /\ pc[c] \in {"createHead", "insert"} => c \in bytes

Unique ==
    \A v, w \in Version : ~Absent(v) /\ ~Absent(w) /\ ver[v].blob = ver[w].blob => v = w

\* Before there is a head there is nothing but its creator.
Unborn ==
    head.status = "absent" =>
        /\ \A v \in Version : Absent(v)
        /\ \A c \in Actor : pc[c] \in Rest \cup Early

Served ==
    ~stale /\ head.status = "active" =>
        /\ head.blob \in bytes
        /\ \A v \in Version :
              /\ ver[v].status = "active" => ver[v].blob \in bytes
              /\ ~Absent(v) => (ver[v].blob = head.blob <=> v = head.version)
              /\ ver[v].status = "deleted" => ver[v].expiry + Grace <= now

IInv ==
    /\ TypeOK
    /\ \A c \in Actor : Placed(c)
    /\ \A c \in Call : Fresh(c)
    /\ Unique
    /\ Unborn
    /\ Served

-----------------------------------------------------------------------------
(* What the helpers of the steps change.                                   *)

VerRow == [status : Status, expiry : Expiry, blob : Call]
Row    == [version : Version, expiry : Expiry, blob : Call]
Filing == SUBSET (Version \X Expiry)

\* The actors other than c stay where they are.
Alone(c) ==
    \A o \in Actor \ {c} : pc'[o] = pc[o] /\ seen'[o] = seen[o] /\ row'[o] = row[o]

LEMMA Actors ==
  /\ Creator \in Call /\ Call \subseteq Actor /\ Reaper \subseteq Actor
  /\ \A c \in Actor : c \in Call \/ c \in Reaper
  /\ \A c \in Reaper : c \notin Call /\ c # Creator
  BY ActorAssumption DEF Actor

LEMMA GotoMoves ==
  ASSUME TypeOK, NEW c \in Actor, NEW next \in PC, Goto(c, next)
  PROVE  pc' \in [Actor -> PC] /\ pc'[c] = next /\ \A o \in Actor \ {c} : pc'[o] = pc[o]
  BY DEF TypeOK, Goto

LEMMA Answers ==
  ASSUME NEW c \in Actor
  PROVE  /\ Escape(c) \in PC \cap Rest /\ Return(c) \in PC \cap Rest
         /\ c \in Call => Escape(c) = "failed" /\ Return(c) = "done"
  BY Actors DEF Escape, Return, PC, Rest

LEMMA UpsertMoves ==
  ASSUME TypeOK, NEW c \in Actor, NEW new \in Head,
         NEW next \in PC, NEW otherwise \in PC, UpsertHead(c, new, next, otherwise)
  PROVE  /\ head' \in Head /\ (head' = head \/ head' = new)
         /\ headIndex' \in SUBSET Expiry /\ healthy' \in BOOLEAN
         /\ pc' \in [Actor -> PC] /\ \A o \in Actor \ {c} : pc'[o] = pc[o]
         /\ (pc'[c] = next /\ head' = new) \/ pc'[c] = otherwise
         /\ seen' \in [Actor -> Head] /\ seen'[c] = new
         /\ \A o \in Actor \ {c} : seen'[o] = seen[o]
<1>1. head.expiry \in Expiry /\ new.expiry \in Expiry
  BY DEF TypeOK, Head
<1>2. Unfiled(new) \in SUBSET Expiry /\ Filed(new) \in SUBSET Expiry
  BY <1>1 DEF TypeOK, Unfiled, Filed
<1>3. headIndex' \in SUBSET Expiry /\ healthy' \in BOOLEAN
  BY <1>2 DEF UpsertHead, TypeOK, Works, Fails
<1>4. \/ Goto(c, next) /\ head' = new
      \/ Goto(c, otherwise) /\ (head' = head \/ head' = new)
  BY DEF UpsertHead
<1>5. seen' \in [Actor -> Head] /\ seen'[c] = new
      /\ \A o \in Actor \ {c} : seen'[o] = seen[o]
  BY DEF UpsertHead, TypeOK
<1>6. /\ pc' \in [Actor -> PC] /\ \A o \in Actor \ {c} : pc'[o] = pc[o]
      /\ (pc'[c] = next /\ head' = new) \/ pc'[c] = otherwise
  BY <1>4, GotoMoves
<1>7. head' \in Head /\ (head' = head \/ head' = new)
  BY <1>4 DEF TypeOK
<1> QED BY <1>3, <1>5, <1>6, <1>7

LEMMA InsertMoves ==
  ASSUME TypeOK, NEW c \in Actor, NEW r \in Row, NEW next \in PC, InsertRow(c, r, next)
  PROVE  /\ ver' \in [Version -> VerRow] /\ verIndex' \in SUBSET (Version \X Expiry)
         /\ \A v \in Version \ {r.version} : ver'[v] = ver[v]
         /\ \/ ver'[r.version] = ver[r.version]
            \/ ver'[r.version] = [status |-> "active", expiry |-> r.expiry, blob |-> r.blob]
         /\ healthy' \in BOOLEAN
         /\ pc' \in [Actor -> PC] /\ \A o \in Actor \ {c} : pc'[o] = pc[o]
         /\ \/ /\ pc'[c] = next
               /\ ver'[r.version] = [status |-> "active", expiry |-> r.expiry, blob |-> r.blob]
            \/ pc'[c] = "failed"
<1> DEFINE stored == [status |-> "active", expiry |-> r.expiry, blob |-> r.blob]
           new == [ver EXCEPT ![r.version] = stored]
           filed == verIndex \cup {<<r.version, r.expiry>>}
<1>1. r.version \in Version /\ r.expiry \in Expiry /\ r.blob \in Call
  BY DEF Row
<1>2. stored \in VerRow
  BY <1>1 DEF VerRow, Status
<1>3. ver \in [Version -> VerRow] /\ verIndex \in SUBSET (Version \X Expiry)
  BY DEF TypeOK, VerRow
<1>4. /\ new \in [Version -> VerRow] /\ new[r.version] = stored
      /\ \A v \in Version \ {r.version} : new[v] = ver[v]
  BY <1>1, <1>2, <1>3
<1>5. filed \in SUBSET (Version \X Expiry)
  BY <1>1, <1>3
<1>6. \/ ver' = new /\ verIndex' = filed /\ Goto(c, next)
      \/ (ver' = ver \/ ver' = new) /\ verIndex' \in {verIndex, filed} /\ Goto(c, "failed")
  BY DEF InsertRow
<1>7. healthy' \in BOOLEAN
  BY DEF InsertRow, Works, Fails, TypeOK
<1>8. "failed" \in PC
  BY DEF PC
<1>9. CASE ver' = new /\ verIndex' = filed /\ Goto(c, next)
  BY <1>9, <1>4, <1>5, <1>7, GotoMoves
<1>10. CASE (ver' = ver \/ ver' = new) /\ verIndex' \in {verIndex, filed} /\ Goto(c, "failed")
  BY <1>10, <1>3, <1>4, <1>5, <1>7, <1>8, GotoMoves
<1> QED BY <1>6, <1>9, <1>10

LEMMA DeleteMoves ==
  ASSUME TypeOK, NEW c \in Actor, NEW v \in Version,
         NEW index \in Filing,
         NEW next \in PC, NEW otherwise \in PC, DeleteRow(c, v, index, next, otherwise)
  PROVE  /\ ver' \in [Version -> VerRow] /\ verIndex' \in SUBSET (Version \X Expiry)
         /\ \A w \in Version \ {v} : ver'[w] = ver[w]
         /\ ver'[v].expiry = ver[v].expiry /\ ver'[v].blob = ver[v].blob
         /\ ver'[v].status \in {ver[v].status, "deleted"}
         /\ healthy' \in BOOLEAN
         /\ pc' \in [Actor -> PC] /\ \A o \in Actor \ {c} : pc'[o] = pc[o]
         /\ (pc'[c] = next /\ ver'[v].status = "deleted") \/ pc'[c] = otherwise
<1> DEFINE new == [ver EXCEPT ![v].status = "deleted"]
           dropped == index \ {<<v, ver[v].expiry>>}
<1>1. ver \in [Version -> VerRow] /\ verIndex \in SUBSET (Version \X Expiry)
  BY DEF TypeOK, VerRow
<1>2. /\ new \in [Version -> VerRow] /\ \A w \in Version \ {v} : new[w] = ver[w]
      /\ new[v].status = "deleted" /\ new[v].expiry = ver[v].expiry
      /\ new[v].blob = ver[v].blob
  BY <1>1 DEF VerRow, Status
<1>3. index \in SUBSET (Version \X Expiry) /\ dropped \in SUBSET (Version \X Expiry)
  BY DEF Filing
<1>4. \/ ver' = new /\ verIndex' = dropped /\ Goto(c, next)
      \/ /\ ver' = ver \/ ver' = new
         /\ verIndex' \in {verIndex, index, dropped}
         /\ Goto(c, otherwise)
  BY DEF DeleteRow
<1>5. healthy' \in BOOLEAN
  BY DEF DeleteRow, Works, Fails, TypeOK
<1>6. CASE ver' = new /\ verIndex' = dropped /\ Goto(c, next)
  BY <1>6, <1>2, <1>3, <1>5, GotoMoves
<1>7. CASE /\ ver' = ver \/ ver' = new
           /\ verIndex' \in {verIndex, index, dropped}
           /\ Goto(c, otherwise)
  BY <1>7, <1>1, <1>2, <1>3, <1>5, GotoMoves
<1> QED BY <1>4, <1>6, <1>7

LEMMA ResyncMoves ==
  ASSUME TypeOK, NEW c \in Actor, NEW v \in Version, NEW from \in Expiry, NEW to \in Expiry,
         NEW next \in PC, NEW otherwise \in PC, Resync(c, v, from, to, next, otherwise)
  PROVE  /\ verIndex' \in SUBSET (Version \X Expiry) /\ healthy' \in BOOLEAN
         /\ pc' \in [Actor -> PC] /\ pc'[c] \in {next, otherwise}
         /\ \A o \in Actor \ {c} : pc'[o] = pc[o]
<1>1. /\ verIndex \in SUBSET (Version \X Expiry)
      /\ Moved(v, from, to) \in SUBSET (Version \X Expiry)
  BY DEF TypeOK, Moved
<1>2. verIndex' \in SUBSET (Version \X Expiry) /\ healthy' \in BOOLEAN
  BY <1>1 DEF Resync, Works, Fails, TypeOK
<1>3. Goto(c, next) \/ Goto(c, otherwise)
  BY DEF Resync
<1> QED BY <1>2, <1>3, GotoMoves

LEMMA UnlinkMoves ==
  ASSUME TypeOK, NEW blob, Unlink(blob)
  PROVE  /\ bytes' \in SUBSET Call /\ healthy' \in BOOLEAN
         /\ \A b \in bytes : b # blob => b \in bytes'
  BY DEF TypeOK, Unlink, Works, Fails

-----------------------------------------------------------------------------
(* What holds after a step of c, from what it changes.                     *)

\* A version is stored once: afterwards its row can only be deleted.
Grows ==
    \A v \in Version : ~Absent(v) =>
        /\ ver'[v].status \in {ver[v].status, "deleted"}
        /\ ver'[v].expiry = ver[v].expiry
        /\ ver'[v].blob = ver[v].blob

LEMMA TypedParts ==
  TypeOK => /\ now \in 0..LastDay /\ head \in Head /\ ver \in [Version -> VerRow]
            /\ pc \in [Actor -> PC] /\ seen \in [Actor -> Head] /\ row \in [Actor -> Row]
            /\ bytes \in SUBSET Call /\ stale \in BOOLEAN
            /\ verIndex \in SUBSET (Version \X Expiry) /\ headIndex \in SUBSET Expiry
  BY DEF TypeOK, VerRow, Row

LEMMA OthersPlaced ==
  ASSUME TypeOK, NEW c \in Actor, NEW o \in Actor \ {c}, Placed(o),
         Alone(c), now' = now, Grows, Absent(1) => Absent(1)' \/ c = Creator
  PROVE  Placed(o)'
<1>1. pc'[o] = pc[o] /\ seen'[o] = seen[o] /\ row'[o] = row[o]
  BY DEF Alone
<1>2. row[o].version \in Version /\ 1 \in Version
  BY TypedParts, BoundAssumption DEF Row, Version
<1>3. pc[o] \in Promoting \ {"promote"} => Superseded(o) \in Version /\ Superseded(o)' = Superseded(o)
  BY <1>1, <1>2, BoundAssumption DEF Placed, Superseded, Version
<1>4. \A v \in Version : /\ ~Absent(v) => ~Absent(v)' /\ ver'[v].blob = ver[v].blob
                         /\ ver[v].status = "deleted" => ver'[v].status = "deleted"
                         /\ ~Absent(v) /\ Overdue(v) => Overdue(v)'
  BY DEF Grows, Absent, Overdue
<1>5. pc[o] = "retireBytes" => ver'[Superseded(o)'].status = "deleted"
  BY <1>3, <1>4 DEF Placed, Promoting
<1>6. /\ pc[o] \in Promoting => ~Absent(row[o].version)' /\ ver'[row[o].version].blob = row[o].blob
      /\ pc[o] \in {"reapBytes", "cascadeBytes"} => ver'[row[o].version].status = "deleted"
      /\ pc[o] = "reapRow" => ~Absent(row[o].version)' /\ Overdue(row[o].version)'
  BY <1>1, <1>2, <1>4 DEF Placed
<1>7. pc[o] \in Early \cup {"createVersion"} => Absent(1)'
  BY DEF Placed
<1> QED BY <1>1, <1>5, <1>6, <1>7 DEF Placed, Absent, Overdue

LEMMA OthersFresh ==
  ASSUME NEW c \in Actor, NEW b \in Call \ {c}, Fresh(b), Alone(c),
         Known(b)' => Known(b), InVer(b)' => InVer(b),
         pc[b] \in {"createHead", "insert"} => b \in bytes'
  PROVE  Fresh(b)'
<1>1. pc'[b] = pc[b] /\ row'[b] = row[b]
  BY Actors DEF Alone
<1>2. Loose(b)' = Loose(b)
  BY <1>1 DEF Loose
<1> QED BY <1>1, <1>2 DEF Fresh

\* What every step of c does.
Kept(c) == IInv' /\ Alone(c) /\ Grows /\ now' = now

LEMMA Assemble ==
  ASSUME IInv, NEW c \in Actor, TypeOK', Alone(c), now' = now, Grows,
         Absent(1) => Absent(1)' \/ c = Creator,
         Placed(c)', c \in Call => Fresh(c)',
         \A b \in Call \ {c} :
            /\ Known(b)' => Known(b)
            /\ InVer(b)' => InVer(b)
            /\ pc[b] \in {"createHead", "insert"} => b \in bytes',
         Unique', Unborn', Served'
  PROVE  Kept(c)
<1>1. \A o \in Actor : Placed(o)'
  BY OthersPlaced DEF IInv
<1>2. \A b \in Call : Fresh(b)'
  BY OthersFresh DEF IInv
<1> QED BY <1>1, <1>2 DEF IInv, Kept

LEMMA SameVer ==
  ASSUME ver' = ver
  PROVE  /\ Grows /\ Unique' = Unique /\ \A v : Absent(v)' = Absent(v)
         /\ \A b : InVer(b)' = InVer(b)
  BY DEF Grows, Unique, InVer, Absent

\* The head and what has been seen of it lead where they led, and to what the
\* step has read or written.
LEMMA HeadKnown ==
  ASSUME NEW c \in Actor, Alone(c), ver' = ver,
         head' = head \/ head' = seen'[c],
         NEW b, Known(b)'
  PROVE  Known(b) \/ (seen'[c].status # "absent" /\ seen'[c].blob = b)
<1>1. InVer(b)' = InVer(b)
  BY SameVer
<1>2. \A o \in Actor \ {c} : seen'[o] = seen[o]
  BY DEF Alone
<1> QED BY <1>1, <1>2 DEF Known

\* A step that writes neither the head, nor a row, nor bytes.
LEMMA Quiet ==
  ASSUME IInv, NEW c \in Actor, TypeOK', Alone(c), Placed(c)',
         now' = now, head' = head, ver' = ver, bytes' = bytes, stale => stale',
         seen'[c] = seen[c] \/ seen'[c] = head,
         c \in Call => (Loose(c)' => Loose(c)),
         pc'[c] \in Rest \/ (pc'[c] \notin Early \cup {"createVersion", "insert"}
                             /\ head.status # "absent")
  PROVE  Kept(c)
<1>1. \A b : Known(b)' => Known(b)
  BY HeadKnown DEF Known
<1>2. /\ Grows /\ Unique' /\ \A v : Absent(v)' = Absent(v)
      /\ \A b : InVer(b)' = InVer(b)
  BY SameVer DEF IInv
<1>3. Unborn'
  BY <1>2 DEF IInv, Unborn, Alone
<1>4. Served'
  BY <1>2, TypedParts DEF IInv, Served
<1>5. c \in Call => Fresh(c)'
  BY <1>1, <1>2 DEF IInv, Fresh, Early, Rest
<1>6. \A b \in Call \ {c} : pc[b] \in {"createHead", "insert"} => b \in bytes'
  BY DEF IInv, Fresh
<1> QED BY <1>1, <1>2, <1>3, <1>4, <1>5, <1>6, Assemble

\* A step that writes no head or row but may delete bytes; whose they are is
\* the caller's to say.
LEMMA Deletes ==
  ASSUME IInv, NEW c \in Actor, NEW blob, TypeOK', Alone(c), Placed(c)',
         now' = now, head' = head, ver' = ver, seen'[c] = seen[c], stale => stale',
         \A b \in bytes : b # blob => b \in bytes',
         c \in Call => (Loose(c)' => Loose(c)),
         pc'[c] \in Rest \/ (pc'[c] \notin Early \cup {"createVersion", "insert"}
                             /\ head.status # "absent"),
         Known(blob) \/ blob = c,
         ~stale' /\ head.status = "active" =>
            /\ head.blob # blob
            /\ \A v \in Version : ver[v].status = "active" => ver[v].blob # blob
  PROVE  Kept(c)
<1>1. \A b : Known(b)' => Known(b)
  BY HeadKnown DEF Known
<1>2. /\ Grows /\ Unique' /\ \A v : Absent(v)' = Absent(v)
      /\ \A b : InVer(b)' = InVer(b)
  BY SameVer DEF IInv
<1>3. Unborn'
  BY <1>2 DEF IInv, Unborn, Alone
<1>4. Served'
  BY <1>2, TypedParts DEF IInv, Served
<1>5. c \in Call => Fresh(c)'
  BY <1>1, <1>2 DEF IInv, Fresh, Early, Rest
<1>6. \A b \in Call \ {c} : pc[b] \in {"createHead", "insert"} => b \in bytes'
  BY DEF IInv, Fresh, Loose
<1> QED BY <1>1, <1>2, <1>3, <1>4, <1>5, <1>6, Assemble

\* A step that may write the head it has seen, changed, and nothing else.
LEMMA Rewrites ==
  ASSUME IInv, NEW c \in Actor, TypeOK', Alone(c), Placed(c)',
         now' = now, ver' = ver, bytes' = bytes,
         head' = head \/ head' = seen'[c],
         seen'[c].status # "absent",
         \A b \in Call : b = seen'[c].blob => Known(b) \/ b = c,
         c \in Call => ~Loose(c)' \/ (Loose(c) /\ seen'[c].blob # c),
         pc'[c] \notin Early \cup {"insert"},
         pc'[c] = "createVersion" => pc[c] = "createHead" /\ c \in Call,
         pc'[c] \in Rest \/ head'.status # "absent" \/ head.status # "absent",
         Served'
  PROVE  Kept(c)
<1>1. \A b : Known(b)' => Known(b) \/ b = seen'[c].blob
  BY HeadKnown
<1>2. /\ Grows /\ Unique' /\ \A v : Absent(v)' = Absent(v)
      /\ \A b : InVer(b)' = InVer(b)
  BY SameVer DEF IInv
<1>3. Unborn'
  BY <1>2 DEF IInv, Unborn, Alone
<1>4. c \in Call => Fresh(c)'
  <2> SUFFICES ASSUME c \in Call PROVE Fresh(c)'
    OBVIOUS
  <2>1. Loose(c)' => ~Known(c)'
    BY <1>1 DEF IInv, Fresh
  <2>2. pc'[c] = "createVersion" => ~InVer(c)
    BY <1>2 DEF IInv, Fresh, Loose, Known
  <2> QED BY <1>2, <2>1, <2>2 DEF Fresh, Early
<1>5. \A b \in Call \ {c} : pc[b] \in {"createHead", "insert"} => b \in bytes'
  BY DEF IInv, Fresh
<1> QED BY <1>1, <1>2, <1>3, <1>4, <1>5, Assemble

\* A step that may store c's own upload in a row that was absent.
LEMMA Stores ==
  ASSUME TypeOK, Unique, NEW c \in Call, NEW w \in Version, Absent(w), ~InVer(c),
         \A v \in Version \ {w} : ver'[v] = ver[v],
         ver'[w] = ver[w] \/ ver'[w].blob = c
  PROVE  /\ Grows /\ Unique' /\ \A v \in Version \ {w} : Absent(v)' = Absent(v)
         /\ \A b : InVer(b)' => InVer(b) \/ b = c
<1>1. \A v \in Version : ~Absent(v) => v # w /\ ver'[v] = ver[v] /\ ver[v].blob # c
  BY DEF InVer
<1>2. \A v \in Version \ {w} : Absent(v)' = Absent(v)
  BY DEF Absent
<1>3. ~Absent(w)' => ver'[w].blob = c
  BY DEF Absent
<1>4. Grows
  BY <1>1 DEF Grows
<1>5. Unique'
  BY <1>1, <1>2, <1>3 DEF Unique
<1>6. \A b : InVer(b)' => InVer(b) \/ b = c
  BY <1>2, <1>3 DEF InVer
<1> QED BY <1>2, <1>4, <1>5, <1>6

\* A step that writes no head and no bytes, but may mark a row deleted: one
\* whose time has passed, if the backup lives.
LEMMA Drops ==
  ASSUME IInv, NEW c \in Actor, NEW w \in Version, TypeOK', Alone(c), Placed(c)',
         now' = now, head' = head, bytes' = bytes, seen'[c] = seen[c], stale => stale',
         ~Absent(w),
         \A v \in Version \ {w} : ver'[v] = ver[v],
         ver'[w].expiry = ver[w].expiry /\ ver'[w].blob = ver[w].blob,
         ver'[w].status \in {ver[w].status, "deleted"},
         c \in Call => ~Loose(c)' \/ Loose(c),
         pc'[c] \notin Early \cup {"createVersion", "insert"},
         ~stale' /\ head.status = "active" => ver[w].expiry + Grace <= now
  PROVE  Kept(c)
<1>1. Grows
  BY DEF Grows
<1>2. \A v \in Version : /\ Absent(v)' = Absent(v)
                         /\ ver'[v].blob = ver[v].blob /\ ver'[v].expiry = ver[v].expiry
                         /\ ver'[v].status = "active" => ver[v].status = "active"
                         /\ ver'[v].status = "deleted" => ver[v].status = "deleted" \/ v = w
  BY DEF Absent
<1>3. Unique' /\ \A b : InVer(b)' = InVer(b)
  BY <1>2 DEF IInv, Unique, InVer
<1>4. \A o \in Actor : seen'[o] = seen[o]
  BY DEF Alone
<1>5. \A b : Known(b)' = Known(b)
  BY <1>3, <1>4 DEF Known
<1>6. head.status # "absent"
  BY DEF IInv, Unborn
<1>7. Unborn'
  BY <1>6 DEF Unborn
<1>8. Served'
  BY <1>2, TypedParts DEF IInv, Served
<1>9. c \in Call => Fresh(c)'
  BY <1>5 DEF IInv, Fresh, Early
<1>10. \A b \in Call \ {c} : pc[b] \in {"createHead", "insert"} => b \in bytes'
  BY DEF IInv, Fresh
<1>11. Absent(1) => Absent(1)'
  BY <1>2, BoundAssumption DEF Version
<1> QED BY <1>1, <1>3, <1>5, <1>7, <1>8, <1>9, <1>10, <1>11, Assemble

-----------------------------------------------------------------------------
(* The calls of a request: creation.                                       *)

LEMMA InitIInv == Init => IInv
<1> SUFFICES ASSUME Init PROVE IInv
  OBVIOUS
<1>1. Creator \in Call /\ 1 \in Version /\ 0 \in Expiry /\ 0 \in 0..LastDay
  BY ActorAssumption, BoundAssumption, TermAssumption DEF Version, Expiry
<1>2. NoHead \in Head
  BY <1>1 DEF NoHead, Head, Status
<1>3. TypeOK
  BY <1>1, <1>2 DEF Init, TypeOK, Status, PC
<1>4. \A c \in Actor : Placed(c)
  BY <1>1 DEF Init, Placed, Absent, NoHead, Early, Rest, Promoting, Deleting
<1>5. \A c \in Call : Fresh(c)
  <2>1. \A b : ~InVer(b) /\ ~Known(b)
    BY DEF Init, Known, InVer, Absent, NoHead
  <2>2. \A c \in Call : pc[c] \in {"create", "idle"}
    BY Actors DEF Init
  <2> QED BY <2>1, <2>2 DEF Fresh
<1>6. Unique /\ Unborn /\ Served
  BY DEF Init, Unique, Unborn, Served, Absent, NoHead, Rest, Early
<1> QED BY <1>3, <1>4, <1>5, <1>6 DEF IInv

LEMMA ArriveStep ==
  ASSUME IInv, NEW c \in Actor, Arrive(c)
  PROVE  Kept(c)
<1>1. PICK next \in {"add", "renew", "deleteHead"} :
         Goto(c, next) /\ (next = "add" => head.version < LastVersion)
  BY DEF Arrive
<1>2. /\ pc' \in [Actor -> PC] /\ pc'[c] = next /\ \A o \in Actor \ {c} : pc'[o] = pc[o]
      /\ seen' \in [Actor -> Head] /\ seen'[c] = head
      /\ \A o \in Actor \ {c} : seen'[o] = seen[o]
  BY <1>1, GotoMoves DEF IInv, PC, Arrive, TypeOK
<1>3. TypeOK'
  BY <1>2 DEF IInv, TypeOK, Arrive, rowVars, histVars
<1>4. Alone(c)
  BY <1>2 DEF Alone, Arrive
<1>5. Placed(c)'
  BY <1>1, <1>2 DEF Arrive, Placed, Early, Promoting, Deleting, Rest
<1>6. Loose(c)
  BY DEF Arrive, Loose
<1> QED
  BY <1>2, <1>3, <1>4, <1>5, <1>6, Quiet DEF Arrive, rowVars, histVars, Early, Rest

LEMMA PutBytesStep ==
  ASSUME IInv, NEW c \in Actor, PutBytes(c)
  PROVE  Kept(c)
<1>1. PICK days \in 1..Term :
         row' = [row EXCEPT ![c] =
                   [version |-> IF pc[c] = "create" THEN 1 ELSE seen[c].version + 1,
                    expiry  |-> now + days,
                    blob    |-> c]]
  BY DEF PutBytes
<1> DEFINE stored == [version |-> IF pc[c] = "create" THEN 1 ELSE seen[c].version + 1,
                      expiry  |-> now + days,
                      blob    |-> c]
           next == IF pc[c] = "create" THEN "createHead" ELSE "insert"
<1>2. c \in Call /\ pc[c] \in {"create", "add"} /\ Loose(c)
  BY DEF PutBytes, IInv, Placed, Loose
<1>3. now + days \in Expiry
  BY TermAssumption, BoundAssumption, TypedParts DEF IInv, Expiry
<1>4. stored.version \in Version
  BY <1>2, TypedParts, BoundAssumption DEF IInv, Placed, Version, Head
<1>5. stored \in Row
  BY <1>2, <1>3, <1>4 DEF Row
<1>6. /\ row' \in [Actor -> Row] /\ row'[c] = stored
      /\ \A o \in Actor \ {c} : row'[o] = row[o]
  BY <1>1, <1>5, TypedParts DEF IInv
<1>7. /\ pc' \in [Actor -> PC] /\ pc'[c] = next /\ \A o \in Actor \ {c} : pc'[o] = pc[o]
  BY GotoMoves DEF IInv, PC, PutBytes
<1>8. TypeOK'
  BY <1>2, <1>6, <1>7 DEF IInv, TypeOK, PutBytes, rowVars, histVars, Row
<1>9. Alone(c)
  BY <1>6, <1>7 DEF Alone, PutBytes
<1>10. Placed(c)'
  BY <1>2, <1>6, <1>7
  DEF IInv, PutBytes, rowVars, Placed, Absent, Early, Promoting, Deleting, Rest
<1>11. /\ Grows /\ Unique' /\ \A v : Absent(v)' = Absent(v)
       /\ \A b : InVer(b)' = InVer(b)
  BY SameVer DEF IInv, PutBytes, rowVars
<1>12. \A b : Known(b)' = Known(b)
  BY <1>11 DEF Known, PutBytes, rowVars
<1>13. Fresh(c)'
  BY <1>2, <1>7, <1>12 DEF IInv, Fresh, PutBytes
<1>14. Unborn'
  BY <1>2, <1>7, <1>11 DEF IInv, Unborn, PutBytes, rowVars, Early, Rest
<1>15. Served'
  BY <1>11, TypedParts DEF IInv, Served, PutBytes, rowVars, histVars
<1> QED
  BY <1>2, <1>8, <1>9, <1>10, <1>11, <1>12, <1>13, <1>14, <1>15, Assemble
  DEF IInv, Fresh, PutBytes, rowVars

LEMMA RefusedStep ==
  ASSUME IInv, NEW c \in Actor, Refused(c)
  PROVE  Kept(c)
<1>1. pc' \in [Actor -> PC] /\ pc'[c] = "failed" /\ \A o \in Actor \ {c} : pc'[o] = pc[o]
  BY GotoMoves DEF IInv, PC, Refused
<1>2. TypeOK'
  BY <1>1 DEF IInv, TypeOK, Refused, rowVars, histVars
<1>3. Alone(c)
  BY <1>1 DEF Alone, Refused
<1>4. Placed(c)' /\ ~Loose(c)'
  BY <1>1 DEF Placed, Loose, Early, Promoting, Deleting, Rest
<1> QED BY <1>1, <1>2, <1>3, <1>4, Quiet DEF Refused, rowVars, histVars, Rest

LEMMA CreateHeadStep ==
  ASSUME IInv, NEW c \in Actor, CreateHead(c)
  PROVE  Kept(c)
<1> DEFINE new == [status |-> "active", version |-> 1, expiry |-> row[c].expiry, blob |-> c]
<1>1. /\ pc[c] = "createHead" /\ c = Creator /\ c \in Call /\ Loose(c) /\ c \in bytes
      /\ Absent(1) /\ row[c].version = 1 /\ row[c].blob = c /\ seen[c].status = "absent"
  BY Actors DEF CreateHead, IInv, Placed, Loose, Fresh, Early
<1>2. new \in Head
  BY <1>1, TypedParts, BoundAssumption DEF IInv, Head, Row, Status, Version
<1>3. /\ head' \in Head /\ (head' = head \/ head' = new)
      /\ headIndex' \in SUBSET Expiry /\ healthy' \in BOOLEAN
      /\ pc' \in [Actor -> PC] /\ \A o \in Actor \ {c} : pc'[o] = pc[o]
      /\ (pc'[c] = "createVersion" /\ head' = new) \/ pc'[c] = "failed"
      /\ seen' \in [Actor -> Head] /\ seen'[c] = new
      /\ \A o \in Actor \ {c} : seen'[o] = seen[o]
  BY <1>2, UpsertMoves DEF IInv, PC, CreateHead
<1>4. TypeOK'
  BY <1>3 DEF IInv, TypeOK, CreateHead, Overtaken
<1>5. Alone(c)
  BY <1>3 DEF Alone, CreateHead
<1>6. Placed(c)' /\ ~Loose(c)'
  BY <1>1, <1>3
  DEF CreateHead, Placed, Absent, Loose, Early, Promoting, Deleting, Rest
<1>7. ~Known(c)
  BY <1>1 DEF IInv, Fresh
<1>8. Served'
  <2> SUFFICES ASSUME ~stale', head'.status = "active" PROVE Served'
    BY DEF Served
  <2>1. head.status = "absent"
    BY <1>1 DEF CreateHead, Overtaken
  <2>2. head' = new /\ \A v \in Version : ver'[v].status = "absent"
    BY <1>3, <2>1 DEF IInv, Unborn, Absent, CreateHead
  <2> QED BY <1>1, <2>2 DEF Served, Absent, CreateHead
<1> QED
  BY <1>1, <1>3, <1>4, <1>5, <1>6, <1>8, Rewrites DEF CreateHead, Early, Rest

\* The row a call stores is its own upload's, under a number that is free.
LEMMA StoreStep ==
  ASSUME IInv, NEW c \in Call, NEW next \in {"done", "promote"},
         pc[c] \in {"createVersion", "insert"}, Absent(row[c].version),
         pc[c] = "insert" => next = "promote",
         InsertRow(c, row[c], next), Overtaken(c),
         UNCHANGED <<now, head, headIndex, bytes, seen, row>>,
         next = "promote" => row[c].version = seen[c].version + 1
  PROVE  Kept(c)
<1> DEFINE w == row[c].version
           new == [status |-> "active", expiry |-> row[c].expiry, blob |-> row[c].blob]
<1>1. /\ c \in Actor /\ row[c] \in Row /\ w \in Version /\ row[c].blob = c
      /\ seen[c].status # "absent" /\ head.status # "absent"
  BY Actors, TypedParts DEF IInv, Placed, Unborn, Row, Rest, Early
<1>2. /\ ver' \in [Version -> VerRow] /\ verIndex' \in SUBSET (Version \X Expiry)
      /\ \A v \in Version \ {w} : ver'[v] = ver[v]
      /\ ver'[w] = ver[w] \/ ver'[w] = new
      /\ healthy' \in BOOLEAN
      /\ pc' \in [Actor -> PC] /\ \A o \in Actor \ {c} : pc'[o] = pc[o]
      /\ (pc'[c] = next /\ ver'[w] = new) \/ pc'[c] = "failed"
  BY <1>1, InsertMoves DEF IInv, PC
<1>3. TypeOK'
  BY <1>2 DEF IInv, TypeOK, VerRow, Overtaken
<1>4. Alone(c)
  BY <1>2 DEF Alone
<1>5. ~InVer(c)
  BY DEF IInv, Fresh, Loose, Known
<1>6. /\ Grows /\ Unique' /\ \A v \in Version \ {w} : Absent(v)' = Absent(v)
      /\ \A b : InVer(b)' => InVer(b) \/ b = c
  BY <1>1, <1>2, <1>5, Stores DEF IInv
<1>7. \A o \in Actor : seen'[o] = seen[o]
  OBVIOUS
<1>8. \A b \in Call \ {c} : Known(b)' => Known(b)
  BY <1>6, <1>7 DEF Known
<1>9. Placed(c)' /\ ~Loose(c)'
  BY <1>1, <1>2
  DEF Placed, Absent, Loose, Early, Promoting, Deleting, Rest
<1>10. Fresh(c)'
  BY <1>2, <1>9 DEF Fresh
<1>11. Absent(1) => Absent(1)' \/ c = Creator
  <2>1. CASE pc[c] = "createVersion"
    BY <2>1, <1>1 DEF IInv, Placed
  <2>2. CASE pc[c] = "insert"
    <3>1. w # 1 /\ 1 \in Version
      BY <2>2, <1>1, TypedParts, BoundAssumption DEF IInv, Placed, Version, Head
    <3> QED BY <3>1, <1>6
  <2> QED BY <2>1, <2>2
<1>12. Unborn'
  BY <1>1 DEF Unborn
<1>13. Served'
  <2> SUFFICES ASSUME ~stale', head.status = "active" PROVE Served'
    BY DEF Served
  <2>1. ~stale /\ head = seen[c]
    BY TypedParts DEF IInv, Overtaken
  <2>2. c \in bytes /\ (c = head.blob <=> w = head.version)
    <3>1. CASE pc[c] = "createVersion"
      BY <3>1, <1>1, <2>1 DEF IInv, Placed, Served
    <3>2. CASE pc[c] = "insert"
      <4>1. c \in bytes /\ ~Known(c)
        BY <3>2 DEF IInv, Fresh, Loose
      <4>2. c # head.blob
        BY <4>1, <1>1 DEF Known
      <4>3. w # head.version
        BY <3>2, <1>1, <2>1, TypedParts DEF IInv, Placed, Version, Head
      <4> QED BY <4>1, <4>2, <4>3
    <3> QED BY <3>1, <3>2
  <2>3. \A v \in Version \ {w} : ver'[v] = ver[v]
    BY <1>2
  <2>4. ver'[w] = ver[w] \/ (ver'[w].blob = c /\ ver'[w].status = "active")
    BY <1>1, <1>2
  <2> QED BY <2>1, <2>2, <2>3, <2>4 DEF IInv, Served, Absent
<1>14. \A b \in Call \ {c} : pc[b] \in {"createHead", "insert"} => b \in bytes'
  BY DEF IInv, Fresh
<1> QED
  BY <1>1, <1>3, <1>4, <1>6, <1>8, <1>9, <1>10, <1>11, <1>12, <1>13, <1>14, Assemble

LEMMA CreateVersionStep ==
  ASSUME IInv, NEW c \in Actor, CreateVersion(c)
  PROVE  Kept(c)
<1>1. c \in Call /\ Absent(row[c].version)
  BY Actors DEF CreateVersion, IInv, Placed
<1> QED BY <1>1, StoreStep DEF CreateVersion

-----------------------------------------------------------------------------
(* add_version.                                                            *)

LEMMA InsertVersionStep ==
  ASSUME IInv, NEW c \in Actor, InsertVersion(c)
  PROVE  Kept(c)
<1>1. c \in Call
  BY TypedParts DEF InsertVersion, IInv, Placed, Row
<1> QED BY <1>1, StoreStep DEF InsertVersion, Absent, IInv, Placed

LEMMA InsertLostStep ==
  ASSUME IInv, NEW c \in Actor, InsertLost(c)
  PROVE  Kept(c)
<1>1. Goto(c, "recover") \/ Goto(c, "failed")
  BY DEF InsertLost
<1>2. /\ pc' \in [Actor -> PC] /\ pc'[c] \in {"recover", "failed"}
      /\ \A o \in Actor \ {c} : pc'[o] = pc[o]
  BY <1>1, GotoMoves DEF IInv, PC
<1>3. TypeOK'
  BY <1>2 DEF IInv, TypeOK, InsertLost, rowVars, Works, Fails
<1>4. Alone(c)
  BY <1>2 DEF Alone, InsertLost
<1>5. Placed(c)' /\ Loose(c)
  BY <1>2 DEF IInv, InsertLost, Placed, Loose, Early, Promoting, Deleting, Rest
<1>6. head.status # "absent"
  BY DEF IInv, Unborn, InsertLost, Rest, Early
<1> QED
  BY <1>2, <1>3, <1>4, <1>5, <1>6, Quiet DEF InsertLost, rowVars, Rest, Early

LEMMA RecoverStep ==
  ASSUME IInv, NEW c \in Actor, Recover(c)
  PROVE  Kept(c)
<1> DEFINE w == row[c].version
           theirs == [version |-> w, expiry |-> ver[w].expiry, blob |-> ver[w].blob]
<1>1. /\ pc[c] = "recover" /\ w \in Version /\ w = seen[c].version + 1 /\ row[c].blob = c
      /\ Loose(c) /\ seen[c].status # "absent" /\ head.status # "absent"
  BY TypedParts DEF IInv, Recover, Placed, Unborn, Row, Loose, Rest, Early
<1>2. theirs \in Row
  BY <1>1, TypedParts DEF IInv, Row, VerRow
<1>3. CASE /\ Orphaned(c) /\ Goto(c, "promote")
           /\ seen' = [seen EXCEPT ![c] = head]
           /\ row' = [row EXCEPT ![c] = theirs]
           /\ Works
  <2>1. /\ pc' \in [Actor -> PC] /\ pc'[c] = "promote"
        /\ \A o \in Actor \ {c} : pc'[o] = pc[o]
    BY <1>3, GotoMoves DEF IInv, PC
  <2>2. /\ row' \in [Actor -> Row] /\ row'[c] = theirs
        /\ seen' \in [Actor -> Head] /\ seen'[c] = head
        /\ \A o \in Actor \ {c} : row'[o] = row[o] /\ seen'[o] = seen[o]
    BY <1>2, <1>3, TypedParts DEF IInv
  <2>3. TypeOK'
    BY <1>3, <2>1, <2>2 DEF IInv, TypeOK, Recover, rowVars, Works, Row
  <2>4. Alone(c)
    BY <2>1, <2>2 DEF Alone
  <2>5. Placed(c)'
    BY <1>1, <1>3, <2>1, <2>2
    DEF Orphaned, Recover, rowVars, Placed, Absent, Early, Promoting, Deleting, Rest
  <2> QED BY <1>1, <2>1, <2>2, <2>3, <2>4, <2>5, Quiet DEF Recover, rowVars, Rest, Early
<1>4. CASE Goto(c, "undoBytes") /\ (Works \/ Fails) /\ UNCHANGED <<seen, row>>
  <2>1. /\ pc' \in [Actor -> PC] /\ pc'[c] = "undoBytes"
        /\ \A o \in Actor \ {c} : pc'[o] = pc[o]
    BY <1>4, GotoMoves DEF IInv, PC
  <2>2. TypeOK'
    BY <1>4, <2>1 DEF IInv, TypeOK, Recover, rowVars, Works, Fails
  <2>3. Alone(c)
    BY <1>4, <2>1 DEF Alone
  <2>4. Placed(c)'
    BY <1>1, <1>4, <2>1 DEF Placed, Early, Promoting, Deleting, Rest
  <2> QED BY <1>1, <1>4, <2>1, <2>2, <2>3, <2>4, Quiet DEF Recover, rowVars, Rest, Early
<1> QED BY <1>3, <1>4 DEF Recover

\* Where a call is once its row is stored.
LEMMA AfterInsert ==
  ASSUME IInv, NEW c \in Actor, pc[c] \in Promoting
  PROVE  /\ row[c].version \in Version /\ row[c].version >= 2
         /\ Superseded(c) \in Version /\ Superseded(c) # row[c].version
         /\ row[c].expiry \in Expiry /\ row[c].blob \in Call
         /\ seen[c].status # "absent" /\ head.status # "absent"
         /\ InVer(row[c].blob)
         /\ Finish(c) \in PC
         /\ Finish(c) = "done" \/ (Finish(c) = "undoBytes" /\ row[c].blob # c /\ Loose(c))
         /\ seen[c].expiry \in Expiry /\ seen[c].version \in Version
<1>1. /\ row[c] \in Row /\ seen[c] \in Head
  BY TypedParts DEF IInv
<1>2. row[c].version \in Version /\ row[c].version >= 2
  BY <1>1 DEF IInv, Placed, Promoting, Row, Head, Version
<1>3. Superseded(c) \in Version /\ Superseded(c) # row[c].version
  BY <1>2, BoundAssumption DEF Superseded, Version
<1>4. seen[c].status # "absent" /\ head.status # "absent"
  BY DEF IInv, Placed, Unborn, Promoting, Rest, Early
<1>5. InVer(row[c].blob)
  BY <1>2 DEF IInv, Placed, InVer
<1>6. /\ Finish(c) \in PC
      /\ Finish(c) = "done" \/ (Finish(c) = "undoBytes" /\ row[c].blob # c /\ Loose(c))
  BY DEF Finish, Own, Loose, PC
<1> QED BY <1>1, <1>2, <1>3, <1>4, <1>5, <1>6 DEF Row, Head

LEMMA PromoteStep ==
  ASSUME IInv, NEW c \in Actor, Promote(c)
  PROVE  Kept(c)
<1> DEFINE new == Promoted(c)
           otherwise == IF Own(c) THEN "failed" ELSE "undoBytes"
           w == row[c].version
<1>1. /\ pc[c] = "promote" /\ w \in Version /\ w >= 2 /\ ~Absent(w)
      /\ ver[w].blob = row[c].blob /\ InVer(row[c].blob) /\ row[c].blob \in Call
      /\ seen[c].status # "absent" /\ head.status # "absent"
  BY AfterInsert DEF Promote, IInv, Placed, Promoting
<1>2. /\ new \in Head /\ new.status = seen[c].status /\ new.expiry = seen[c].expiry
      /\ new.version = w /\ new.blob = row[c].blob
  BY <1>1, TypedParts DEF IInv, Promoted, Head
<1>3. otherwise \in PC /\ "resync" \in PC
  BY DEF PC
<1>4. /\ head' \in Head /\ (head' = head \/ head' = new)
      /\ headIndex' \in SUBSET Expiry /\ healthy' \in BOOLEAN
      /\ pc' \in [Actor -> PC] /\ \A o \in Actor \ {c} : pc'[o] = pc[o]
      /\ (pc'[c] = "resync" /\ head' = new) \/ pc'[c] = otherwise
      /\ seen' \in [Actor -> Head] /\ seen'[c] = new
      /\ \A o \in Actor \ {c} : seen'[o] = seen[o]
  BY <1>2, <1>3, UpsertMoves DEF IInv, Promote
<1>5. TypeOK'
  BY <1>4 DEF IInv, TypeOK, Promote
<1>6. Alone(c)
  BY <1>4 DEF Alone, Promote
<1>7. Placed(c)'
  BY <1>1, <1>2, <1>4 DEF Promote, Placed, Absent, Early, Promoting, Deleting, Rest
<1>8. ~Loose(c)' \/ (Loose(c) /\ seen'[c].blob # c)
  BY <1>1, <1>2, <1>4 DEF Promote, Loose, Own, Promoting
<1>9. Served'
  <2> SUFFICES ASSUME ~stale', head'.status = "active", head' = new PROVE Served'
    BY <1>4, TypedParts DEF IInv, Served, Promote, Absent
  <2>1. ~stale /\ ver[w].status = "active" /\ head.status = "active"
    BY <1>2, TypedParts DEF IInv, Promote
  <2>2. \A v \in Version : ~Absent(v) => (ver[v].blob = row[c].blob <=> v = w)
    BY <1>1 DEF IInv, Unique
  <2> QED BY <1>1, <1>2, <2>1, <2>2 DEF IInv, Served, Promote, Absent
<1> QED
  BY <1>1, <1>2, <1>4, <1>5, <1>6, <1>7, <1>8, <1>9, Rewrites
  DEF Promote, Known, Rest, Early

\* A step that at most refiles a version.
LEMMA RefileStep ==
  ASSUME IInv, NEW c \in Actor, NEW next \in PC, NEW otherwise \in PC,
         pc' \in [Actor -> PC], pc'[c] \in {next, otherwise},
         \A o \in Actor \ {c} : pc'[o] = pc[o],
         verIndex' \in SUBSET (Version \X Expiry), healthy' \in BOOLEAN,
         stale' \in BOOLEAN, stale => stale',
         UNCHANGED <<now, head, headIndex, ver, bytes, seen, row>>,
         pc[c] \notin Rest \cup Early,
         \A to \in {next, otherwise} :
            \/ to \in {"done", "failed"}
            \/ to = "undoBytes" /\ Loose(c)
            \/ to = "retire" /\ pc[c] = "resync"
            \/ to = "retireIndex" /\ pc[c] = "retire"
  PROVE  Kept(c)
<1>1. head.status # "absent"
  BY DEF IInv, Unborn
<1>2. TypeOK'
  BY DEF IInv, TypeOK
<1>3. Alone(c)
  BY DEF Alone
<1>4. Placed(c)'
  BY DEF IInv, Placed, Absent, Early, Promoting, Deleting, Rest
<1>5. Loose(c)' => Loose(c)
  BY DEF Loose, Promoting
<1>6. pc'[c] \in Rest \/ pc'[c] \notin Early \cup {"createVersion", "insert"}
  BY DEF Rest, Early
<1> QED BY <1>1, <1>2, <1>3, <1>4, <1>5, <1>6, Quiet

LEMMA ResyncNewStep ==
  ASSUME IInv, NEW c \in Actor, ResyncNew(c)
  PROVE  Kept(c)
<1>1. pc[c] = "resync" /\ pc[c] \in Promoting /\ pc[c] \notin Rest \cup Early
  BY DEF ResyncNew, Promoting, Rest, Early
<1>2. "retire" \in PC /\ Finish(c) \in PC
  BY <1>1, AfterInsert DEF PC
<1>3. /\ verIndex' \in SUBSET (Version \X Expiry) /\ healthy' \in BOOLEAN
      /\ pc' \in [Actor -> PC] /\ pc'[c] \in {"retire", Finish(c)}
      /\ \A o \in Actor \ {c} : pc'[o] = pc[o]
  BY <1>1, <1>2, AfterInsert, ResyncMoves DEF IInv, ResyncNew
<1>4. stale' \in BOOLEAN /\ (stale => stale')
  BY TypedParts DEF IInv, ResyncNew, Overtaken
<1> QED BY <1>1, <1>2, <1>3, <1>4, AfterInsert, RefileStep DEF ResyncNew

LEMMA RetireSkippedStep ==
  ASSUME IInv, NEW c \in Actor, RetireSkipped(c)
  PROVE  Kept(c)
<1>1. pc[c] = "retire" /\ pc[c] \in Promoting /\ pc[c] \notin Rest \cup Early
  BY DEF RetireSkipped, Promoting, Rest, Early
<1>2. Finish(c) \in PC
  BY <1>1, AfterInsert
<1>3. /\ pc' \in [Actor -> PC] /\ pc'[c] = Finish(c)
      /\ \A o \in Actor \ {c} : pc'[o] = pc[o]
  BY <1>2, GotoMoves DEF IInv, RetireSkipped
<1>4. /\ verIndex' \in SUBSET (Version \X Expiry) /\ healthy' \in BOOLEAN
      /\ stale' \in BOOLEAN
  BY DEF IInv, TypeOK, RetireSkipped, rowVars, Works, Fails
<1> QED
  BY <1>1, <1>2, <1>3, <1>4, AfterInsert, RefileStep DEF RetireSkipped, rowVars

LEMMA RetireLaterStep ==
  ASSUME IInv, NEW c \in Actor, RetireLater(c)
  PROVE  Kept(c)
<1>1. pc[c] = "retire" /\ pc[c] \in Promoting /\ pc[c] \notin Rest \cup Early
  BY DEF RetireLater, Promoting, Rest, Early
<1>2. Finish(c) \in PC
  BY <1>1, AfterInsert
<1>3. ver[Superseded(c)].expiry \in Expiry
  BY <1>1, AfterInsert, TypedParts DEF IInv, VerRow
<1>4. /\ verIndex' \in SUBSET (Version \X Expiry) /\ healthy' \in BOOLEAN
      /\ pc' \in [Actor -> PC] /\ pc'[c] = Finish(c)
      /\ \A o \in Actor \ {c} : pc'[o] = pc[o]
  BY <1>1, <1>2, <1>3, AfterInsert, ResyncMoves DEF IInv, RetireLater
<1>5. stale' \in BOOLEAN /\ (stale => stale')
  BY TypedParts DEF IInv, RetireLater, Overtaken
<1> QED BY <1>1, <1>2, <1>4, <1>5, AfterInsert, RefileStep DEF RetireLater

LEMMA RetireIndexStep ==
  ASSUME IInv, NEW c \in Actor, RetireIndex(c)
  PROVE  Kept(c)
<1>1. pc[c] = "retireIndex" /\ pc[c] \in Promoting /\ pc[c] \notin Rest \cup Early
  BY DEF RetireIndex, Promoting, Rest, Early
<1>2. Finish(c) \in PC
  BY <1>1, AfterInsert
<1>3. /\ pc' \in [Actor -> PC] /\ pc'[c] = Finish(c)
      /\ \A o \in Actor \ {c} : pc'[o] = pc[o]
  BY <1>2, GotoMoves DEF IInv, RetireIndex
<1>4. /\ verIndex' \in SUBSET (Version \X Expiry) /\ healthy' \in BOOLEAN
      /\ stale' \in BOOLEAN /\ (stale => stale')
  BY DEF IInv, TypeOK, RetireIndex, Works, Fails, Overtaken
<1> QED BY <1>1, <1>2, <1>3, <1>4, AfterInsert, RefileStep DEF RetireIndex

LEMMA RetireNowStep ==
  ASSUME IInv, NEW c \in Actor, RetireNow(c)
  PROVE  Kept(c)
<1> DEFINE w == Superseded(c)
<1>1. /\ pc[c] = "retire" /\ pc[c] \in Promoting
      /\ ver[w].status = "active" /\ ~Absent(w) /\ Overdue(w)
  BY DEF RetireNow, Promoting, Absent
<1>2. /\ w \in Version /\ seen[c].status # "absent" /\ head.status # "absent"
      /\ "retireBytes" \in PC /\ "retireIndex" \in PC
      /\ verIndex \in Filing
  BY <1>1, AfterInsert, TypedParts DEF PC, IInv, Filing
<1>3. /\ ver' \in [Version -> VerRow] /\ verIndex' \in SUBSET (Version \X Expiry)
      /\ \A v \in Version \ {w} : ver'[v] = ver[v]
      /\ ver'[w].expiry = ver[w].expiry /\ ver'[w].blob = ver[w].blob
      /\ ver'[w].status \in {ver[w].status, "deleted"}
      /\ healthy' \in BOOLEAN
      /\ pc' \in [Actor -> PC] /\ \A o \in Actor \ {c} : pc'[o] = pc[o]
      /\ (pc'[c] = "retireBytes" /\ ver'[w].status = "deleted") \/ pc'[c] = "retireIndex"
  BY <1>2, DeleteMoves DEF IInv, RetireNow
<1>4. TypeOK'
  BY <1>3 DEF IInv, TypeOK, VerRow, RetireNow, Overtaken
<1>5. Alone(c)
  BY <1>3 DEF Alone, RetireNow
<1>6. /\ row[c].version \in Version \ {w} /\ ver'[row[c].version] = ver[row[c].version]
      /\ Superseded(c)' = w
  BY <1>1, <1>3, AfterInsert DEF RetireNow, Superseded
<1>7. Placed(c)'
  BY <1>1, <1>3, <1>6
  DEF IInv, RetireNow, Placed, Absent, Early, Promoting, Deleting, Rest
<1>8. Loose(c)' => Loose(c)
  BY <1>1, <1>3 DEF Loose, Promoting, RetireNow
<1>9. ver[w].expiry + Grace <= now
  BY <1>1, <1>2, TypedParts, ReaperAssumption DEF IInv, Overdue, VerRow, Expiry
<1> QED
  BY <1>1, <1>2, <1>3, <1>4, <1>5, <1>7, <1>8, <1>9, Drops
  DEF RetireNow, Overtaken, Early

LEMMA RetireBytesStep ==
  ASSUME IInv, NEW c \in Actor, RetireBytes(c)
  PROVE  Kept(c)
<1> DEFINE w == Superseded(c)
           blob == ver[w].blob
<1>1. /\ pc[c] = "retireBytes" /\ pc[c] \in Promoting /\ ver[w].status = "deleted"
      /\ ~Absent(w) /\ row[c].version = seen[c].version
  BY DEF RetireBytes, IInv, Placed, Absent, Promoting
<1>2. /\ w \in Version /\ w # row[c].version
      /\ seen[c].status # "absent" /\ head.status # "absent"
  BY <1>1, AfterInsert
<1>3. Known(blob)
  BY <1>1, <1>2 DEF Known, InVer
<1>4. /\ pc' \in [Actor -> PC] /\ pc'[c] = "retireIndex"
      /\ \A o \in Actor \ {c} : pc'[o] = pc[o]
  BY GotoMoves DEF IInv, PC, RetireBytes
<1>5. /\ bytes' \in SUBSET Call /\ healthy' \in BOOLEAN
      /\ \A b \in bytes : b # blob => b \in bytes'
  BY UnlinkMoves DEF IInv, RetireBytes
<1>6. TypeOK'
  BY <1>4, <1>5 DEF IInv, TypeOK, RetireBytes, rowVars, Overtaken
<1>7. Alone(c)
  BY <1>4 DEF Alone, RetireBytes
<1>8. Placed(c)' /\ (Loose(c)' => Loose(c))
  BY <1>1, <1>4
  DEF IInv, RetireBytes, rowVars, Placed, Absent, Loose, Early, Promoting, Deleting, Rest
<1>9. ~stale' /\ head.status = "active" =>
         /\ head.blob # blob
         /\ \A v \in Version : ver[v].status = "active" => ver[v].blob # blob
  <2> SUFFICES ASSUME ~stale', head.status = "active"
               PROVE  /\ head.blob # blob
                      /\ \A v \in Version : ver[v].status = "active" => ver[v].blob # blob
    OBVIOUS
  <2>1. ~stale /\ head = seen[c]
    BY TypedParts DEF IInv, RetireBytes, Overtaken
  <2>2. head.blob # blob
    BY <1>1, <1>2, <2>1 DEF IInv, Served
  <2>3. \A v \in Version : ver[v].status = "active" => ver[v].blob # blob
    BY <1>1, <1>2 DEF IInv, Unique, Absent
  <2> QED BY <2>2, <2>3
<1>10. stale => stale'
  BY DEF RetireBytes, Overtaken
<1> QED
  BY <1>2, <1>3, <1>4, <1>5, <1>6, <1>7, <1>8, <1>9, <1>10, Deletes
  DEF RetireBytes, rowVars, Rest, Early

LEMMA UndoBytesStep ==
  ASSUME IInv, NEW c \in Actor, UndoBytes(c)
  PROVE  Kept(c)
<1>1. pc[c] = "undoBytes" /\ head.status # "absent" /\ Loose(c)
  BY DEF UndoBytes, IInv, Unborn, Rest, Early, Loose
<1>2. /\ pc' \in [Actor -> PC] /\ pc'[c] = "conflict"
      /\ \A o \in Actor \ {c} : pc'[o] = pc[o]
  BY GotoMoves DEF IInv, PC, UndoBytes
<1>3. /\ bytes' \in SUBSET Call /\ healthy' \in BOOLEAN
      /\ \A b \in bytes : b # c => b \in bytes'
  BY UnlinkMoves DEF IInv, UndoBytes
<1>4. TypeOK'
  BY <1>2, <1>3 DEF IInv, TypeOK, UndoBytes, rowVars
<1>5. Alone(c)
  BY <1>2 DEF Alone, UndoBytes
<1>6. Placed(c)' /\ ~Loose(c)'
  BY <1>2 DEF Placed, Loose, Early, Promoting, Deleting, Rest
<1>7. ~stale' /\ head.status = "active" =>
         /\ head.blob # c
         /\ \A v \in Version : ver[v].status = "active" => ver[v].blob # c
  <2>1. CASE c \in Call
    <3>1. ~Known(c)
      BY <1>1, <2>1 DEF IInv, Fresh
    <3> QED BY <3>1, <1>1 DEF Known, InVer, Absent
  <2>2. CASE c \notin Call
    BY <2>2, TypedParts DEF IInv, Head, VerRow
  <2> QED BY <2>1, <2>2
<1> QED
  BY <1>2, <1>3, <1>4, <1>5, <1>6, <1>7, Deletes DEF UndoBytes, rowVars, Rest

-----------------------------------------------------------------------------
(* renew.                                                                  *)

LEMMA RenewHeadStep ==
  ASSUME IInv, NEW c \in Actor, RenewHead(c)
  PROVE  Kept(c)
<1> DEFINE new == [seen[c] EXCEPT !.expiry = Renewed(c)]
<1>1. pc[c] = "renew" /\ seen[c].status # "absent" /\ seen[c] \in Head /\ now \in 0..LastDay
      /\ head.status # "absent"
  BY TypedParts DEF IInv, RenewHead, Placed, Unborn, Rest, Early
<1>2. Renewed(c) \in Expiry
  BY <1>1, TermAssumption, BoundAssumption
  DEF Renewed, Earlier, Later, MaxExpiry, Expiry, Head
<1>3. /\ new \in Head /\ new.status = seen[c].status
      /\ new.version = seen[c].version /\ new.blob = seen[c].blob
  BY <1>1, <1>2 DEF Head
<1>4. "renewIndex" \in PC /\ "failed" \in PC
  BY DEF PC
<1>5. /\ head' \in Head /\ (head' = head \/ head' = new)
      /\ headIndex' \in SUBSET Expiry /\ healthy' \in BOOLEAN
      /\ pc' \in [Actor -> PC] /\ \A o \in Actor \ {c} : pc'[o] = pc[o]
      /\ (pc'[c] = "renewIndex" /\ head' = new) \/ pc'[c] = "failed"
      /\ seen' \in [Actor -> Head] /\ seen'[c] = new
      /\ \A o \in Actor \ {c} : seen'[o] = seen[o]
  BY <1>3, <1>4, UpsertMoves DEF IInv, RenewHead
<1>6. row' \in [Actor -> Row] /\ \A o \in Actor \ {c} : row'[o] = row[o]
  <2>1. [row[c] EXCEPT !.version = seen[c].version, !.expiry = seen[c].expiry] \in Row
    BY <1>1, TypedParts DEF IInv, Row, Head
  <2>2. row' = [row EXCEPT ![c] =
                  [row[c] EXCEPT !.version = seen[c].version, !.expiry = seen[c].expiry]]
    BY TypedParts DEF IInv, RenewHead, Row
  <2> QED BY <2>1, <2>2, TypedParts DEF IInv
<1>7. TypeOK'
  BY <1>5, <1>6 DEF IInv, TypeOK, RenewHead, Overtaken, Row
<1>8. Alone(c)
  BY <1>5, <1>6 DEF Alone
<1>9. Placed(c)' /\ ~Loose(c)'
  BY <1>1, <1>3, <1>5 DEF Placed, Loose, Early, Promoting, Deleting, Rest
<1>10. Served'
  <2> SUFFICES ASSUME ~stale', head'.status = "active", head' = new PROVE Served'
    BY <1>5, TypedParts DEF IInv, Served, RenewHead, Absent, Overtaken
  <2>1. ~stale /\ head = seen[c] /\ head.status = "active"
    BY <1>3, TypedParts DEF IInv, RenewHead, Overtaken
  <2> QED BY <1>3, <2>1 DEF IInv, Served, RenewHead, Absent
<1>11. Known(seen'[c].blob)
  BY <1>1, <1>3, <1>5 DEF Known
<1> QED
  BY <1>1, <1>3, <1>5, <1>7, <1>8, <1>9, <1>10, <1>11, Rewrites
  DEF RenewHead, Rest, Early

LEMMA RenewIndexStep ==
  ASSUME IInv, NEW c \in Actor, RenewIndex(c)
  PROVE  Kept(c)
<1>1. /\ pc[c] = "renewIndex" /\ pc[c] \notin Rest \cup Early
      /\ "done" \in PC /\ "failed" \in PC
      /\ row[c].version \in Version /\ row[c].expiry \in Expiry /\ seen[c].expiry \in Expiry
  BY TypedParts DEF RenewIndex, Rest, Early, PC, IInv, Row, Head
<1>2. /\ verIndex' \in SUBSET (Version \X Expiry) /\ healthy' \in BOOLEAN
      /\ pc' \in [Actor -> PC] /\ pc'[c] \in {"done", "failed"}
      /\ \A o \in Actor \ {c} : pc'[o] = pc[o]
  BY <1>1, ResyncMoves DEF IInv, RenewIndex
<1>3. stale' \in BOOLEAN /\ (stale => stale')
  BY TypedParts DEF IInv, RenewIndex, Overtaken
<1> QED BY <1>1, <1>2, <1>3, RefileStep DEF RenewIndex

-----------------------------------------------------------------------------
(* delete.                                                                 *)

LEMMA DeleteHeadStep ==
  ASSUME IInv, NEW c \in Actor, DeleteHead(c)
  PROVE  Kept(c)
<1> DEFINE new == [seen[c] EXCEPT !.status = "deleted"]
<1>1. pc[c] = "deleteHead" /\ seen[c].status # "absent" /\ seen[c] \in Head
      /\ head.status # "absent"
  BY TypedParts DEF IInv, DeleteHead, Placed, Unborn, Rest, Early
<1>2. new \in Head /\ new.status = "deleted" /\ new.blob = seen[c].blob
  BY <1>1 DEF Head, Status
<1>3. "deleteBytes" \in PC /\ Escape(c) \in PC \cap Rest
  BY Answers DEF PC
<1>4. /\ head' \in Head /\ (head' = head \/ head' = new)
      /\ headIndex' \in SUBSET Expiry /\ healthy' \in BOOLEAN
      /\ pc' \in [Actor -> PC] /\ \A o \in Actor \ {c} : pc'[o] = pc[o]
      /\ (pc'[c] = "deleteBytes" /\ head' = new) \/ pc'[c] = Escape(c)
      /\ seen' \in [Actor -> Head] /\ seen'[c] = new
      /\ \A o \in Actor \ {c} : seen'[o] = seen[o]
  BY <1>2, <1>3, UpsertMoves DEF IInv, DeleteHead
<1>5. TypeOK'
  BY <1>4 DEF IInv, TypeOK, DeleteHead, Overwritten
<1>6. Alone(c)
  BY <1>4 DEF Alone, DeleteHead
<1>7. Placed(c)'
  BY <1>2, <1>3, <1>4 DEF Placed, Early, Promoting, Deleting, Rest
<1>8. c \in Call => ~Loose(c)'
  BY <1>4, Answers DEF Loose, Promoting
<1>9. Served'
  BY <1>2, <1>4, TypedParts DEF IInv, Served, DeleteHead, Overwritten, Absent
<1>10. Known(seen'[c].blob)
  BY <1>1, <1>2, <1>4 DEF Known
<1> QED
  BY <1>1, <1>2, <1>3, <1>4, <1>5, <1>6, <1>7, <1>8, <1>9, <1>10, Rewrites
  DEF DeleteHead, Rest, Early

LEMMA DeleteBytesStep ==
  ASSUME IInv, NEW c \in Actor, DeleteBytes(c)
  PROVE  Kept(c)
<1> DEFINE blob == seen[c].blob
<1>1. /\ pc[c] = "deleteBytes" /\ seen[c].status = "deleted" /\ head.status # "absent"
      /\ Known(blob)
  BY DEF IInv, DeleteBytes, Placed, Unborn, Known, Deleting, Rest, Early
<1>2. \/ Goto(c, Return(c)) /\ row' = row
      \/ /\ Goto(c, "cascade")
         /\ \E v \in Version : row' = [row EXCEPT ![c].version = v]
  BY DEF DeleteBytes, Stored
<1>3. row' \in [Actor -> Row] /\ \A o \in Actor \ {c} : row'[o] = row[o]
  <2>1. CASE row' = row
    BY <2>1, TypedParts DEF IInv
  <2>2. ASSUME NEW v \in Version, row' = [row EXCEPT ![c].version = v]
        PROVE  row' \in [Actor -> Row] /\ \A o \in Actor \ {c} : row'[o] = row[o]
    BY <2>2, TypedParts DEF IInv, Row
  <2> QED BY <1>2, <2>1, <2>2
<1>4. Return(c) \in PC \cap Rest /\ "cascade" \in PC
  BY Answers DEF PC
<1>5. /\ pc' \in [Actor -> PC] /\ pc'[c] \in {Return(c), "cascade"}
      /\ \A o \in Actor \ {c} : pc'[o] = pc[o]
  BY <1>2, <1>4, GotoMoves DEF IInv
<1>6. /\ bytes' \in SUBSET Call /\ healthy' \in BOOLEAN
      /\ \A b \in bytes : b # blob => b \in bytes'
  BY UnlinkMoves DEF IInv, DeleteBytes
<1>7. TypeOK'
  BY <1>3, <1>5, <1>6 DEF IInv, TypeOK, DeleteBytes, rowVars, Overtaken, Row
<1>8. Alone(c)
  BY <1>3, <1>5 DEF Alone, DeleteBytes
<1>9. Placed(c)'
  BY <1>1, <1>4, <1>5 DEF DeleteBytes, Placed, Early, Promoting, Deleting, Rest
<1>10. c \in Call => ~Loose(c)'
  BY <1>5, Answers DEF Loose, Promoting
<1>11. ~stale' => head.status # "active"
  BY <1>1, TypedParts DEF IInv, DeleteBytes, Overtaken
<1>12. stale => stale'
  BY DEF DeleteBytes, Overtaken
<1> QED
  BY <1>1, <1>4, <1>5, <1>6, <1>7, <1>8, <1>9, <1>10, <1>11, <1>12, Deletes
  DEF DeleteBytes, rowVars, Rest, Early

LEMMA DownMoves ==
  ASSUME TypeOK, NEW c \in Actor, Down(c)
  PROVE  row' \in [Actor -> Row] /\ \A o \in Actor \ {c} : row'[o] = row[o]
<1>1. row[c] \in Row
  BY TypedParts
<1>2. Later(row[c].version - 1, 1) \in Version
  BY <1>1, BoundAssumption DEF Row, Version, Later
<1> QED BY <1>1, <1>2, TypedParts DEF Down, Row

LEMMA AfterAnswers ==
  ASSUME NEW c \in Actor
  PROVE  /\ After(c) \in PC
         /\ After(c) \in Rest \/ After(c) = "cascade"
         /\ c \in Call => After(c) \in {"done", "cascade"}
  BY Answers DEF After, PC

LEMMA CascadeRowStep ==
  ASSUME IInv, NEW c \in Actor, CascadeRow(c)
  PROVE  Kept(c)
<1> DEFINE w == row[c].version
           index == IF w = seen[c].version /\ seen[c].expiry # ver[w].expiry
                    THEN verIndex \ {<<w, seen[c].expiry>>}
                    ELSE verIndex
<1>1. /\ pc[c] = "cascade" /\ w \in Version /\ ver[w].status = "active" /\ ~Absent(w)
      /\ seen[c].status = "deleted"
      /\ "cascadeBytes" \in PC /\ Escape(c) \in PC \cap Rest /\ index \in Filing
  BY TypedParts, Answers DEF IInv, CascadeRow, Placed, Absent, Deleting, PC, Row, Filing
<1>2. /\ ver' \in [Version -> VerRow] /\ verIndex' \in SUBSET (Version \X Expiry)
      /\ \A v \in Version \ {w} : ver'[v] = ver[v]
      /\ ver'[w].expiry = ver[w].expiry /\ ver'[w].blob = ver[w].blob
      /\ ver'[w].status \in {ver[w].status, "deleted"}
      /\ healthy' \in BOOLEAN
      /\ pc' \in [Actor -> PC] /\ \A o \in Actor \ {c} : pc'[o] = pc[o]
      /\ (pc'[c] = "cascadeBytes" /\ ver'[w].status = "deleted") \/ pc'[c] = Escape(c)
  BY <1>1, DeleteMoves DEF IInv, CascadeRow
<1>3. TypeOK'
  BY <1>2 DEF IInv, TypeOK, VerRow, CascadeRow, Overtaken
<1>4. Alone(c)
  BY <1>2 DEF Alone, CascadeRow
<1>5. Placed(c)'
  BY <1>1, <1>2 DEF CascadeRow, Placed, Early, Promoting, Deleting, Rest
<1>6. c \in Call => ~Loose(c)'
  BY <1>2, Answers DEF Loose, Promoting
<1>7. ~stale' => head.status # "active"
  BY <1>1, TypedParts DEF IInv, CascadeRow, Overtaken
<1>8. pc'[c] \notin Early \cup {"createVersion", "insert"}
  BY <1>1, <1>2 DEF Rest, Early
<1>9. stale => stale'
  BY DEF CascadeRow, Overtaken
<1> QED
  BY <1>1, <1>2, <1>3, <1>4, <1>5, <1>6, <1>7, <1>8, <1>9, Drops DEF CascadeRow

LEMMA CascadeSkipsStep ==
  ASSUME IInv, NEW c \in Actor, CascadeSkips(c)
  PROVE  Kept(c)
<1>1. /\ pc[c] = "cascade" /\ seen[c].status = "deleted" /\ head.status # "absent"
  BY DEF IInv, CascadeSkips, Placed, Unborn, Deleting, Rest, Early
<1>2. /\ pc' \in [Actor -> PC] /\ pc'[c] = After(c)
      /\ \A o \in Actor \ {c} : pc'[o] = pc[o]
  BY AfterAnswers, GotoMoves DEF IInv, CascadeSkips
<1>3. row' \in [Actor -> Row] /\ \A o \in Actor \ {c} : row'[o] = row[o]
  BY DownMoves DEF IInv, CascadeSkips
<1>4. TypeOK'
  BY <1>2, <1>3 DEF IInv, TypeOK, CascadeSkips, rowVars, histVars, Row
<1>5. Alone(c)
  BY <1>2, <1>3 DEF Alone, CascadeSkips
<1>6. Placed(c)'
  BY <1>1, <1>2, AfterAnswers DEF CascadeSkips, Placed, Early, Promoting, Deleting, Rest
<1>7. c \in Call => ~Loose(c)'
  BY <1>2, AfterAnswers DEF Loose, Promoting
<1> QED
  BY <1>1, <1>2, <1>4, <1>5, <1>6, <1>7, AfterAnswers, Quiet
  DEF CascadeSkips, rowVars, histVars, Rest, Early

LEMMA CascadeBytesStep ==
  ASSUME IInv, NEW c \in Actor, CascadeBytes(c)
  PROVE  Kept(c)
<1> DEFINE w == row[c].version
           blob == ver[w].blob
<1>1. /\ pc[c] = "cascadeBytes" /\ seen[c].status = "deleted" /\ head.status # "absent"
      /\ w \in Version /\ ver[w].status = "deleted"
  BY TypedParts
  DEF IInv, CascadeBytes, Placed, Unborn, Deleting, Rest, Early, Row
<1>2. Known(blob)
  BY <1>1 DEF Known, InVer, Absent
<1>3. /\ pc' \in [Actor -> PC] /\ pc'[c] = After(c)
      /\ \A o \in Actor \ {c} : pc'[o] = pc[o]
  BY AfterAnswers, GotoMoves DEF IInv, CascadeBytes
<1>4. row' \in [Actor -> Row] /\ \A o \in Actor \ {c} : row'[o] = row[o]
  BY DownMoves DEF IInv, CascadeBytes
<1>5. /\ bytes' \in SUBSET Call /\ healthy' \in BOOLEAN
      /\ \A b \in bytes : b # blob => b \in bytes'
  BY UnlinkMoves DEF IInv, CascadeBytes
<1>6. TypeOK'
  BY <1>3, <1>4, <1>5 DEF IInv, TypeOK, CascadeBytes, rowVars, Overtaken, Row
<1>7. Alone(c)
  BY <1>3, <1>4 DEF Alone, CascadeBytes
<1>8. Placed(c)'
  BY <1>1, <1>3, AfterAnswers DEF CascadeBytes, Placed, Early, Promoting, Deleting, Rest
<1>9. c \in Call => ~Loose(c)'
  BY <1>3, AfterAnswers DEF Loose, Promoting
<1>10. ~stale' => head.status # "active"
  BY <1>1, TypedParts DEF IInv, CascadeBytes, Overtaken
<1>11. stale => stale'
  BY DEF CascadeBytes, Overtaken
<1> QED
  BY <1>1, <1>2, <1>3, <1>5, <1>6, <1>7, <1>8, <1>9, <1>10, <1>11, AfterAnswers, Deletes
  DEF CascadeBytes, rowVars, Rest, Early

-----------------------------------------------------------------------------
(* The reaper, the clock and the crash.                                    *)

LEMMA ReapHeadStep ==
  ASSUME IInv, NEW c \in Actor, ReapHead(c)
  PROVE  Kept(c)
<1>1. pc[c] = "idle" /\ c \notin Call
  BY Actors DEF ReapHead
<1>2. headIndex' \in SUBSET Expiry
  BY TypedParts DEF IInv, ReapHead
<1>3. \/ pc' = pc /\ seen' = seen
      \/ /\ head.status = "active" /\ Goto(c, "deleteHead")
         /\ seen' = [seen EXCEPT ![c] = head]
  BY DEF ReapHead
<1>4. /\ pc' \in [Actor -> PC] /\ seen' \in [Actor -> Head]
      /\ \A o \in Actor \ {c} : pc'[o] = pc[o] /\ seen'[o] = seen[o]
      /\ \/ pc'[c] = "idle" /\ seen'[c] = seen[c]
         \/ pc'[c] = "deleteHead" /\ seen'[c] = head /\ head.status = "active"
  <2>1. CASE pc' = pc /\ seen' = seen
    BY <1>1, <2>1, TypedParts DEF IInv
  <2>2. CASE /\ head.status = "active" /\ Goto(c, "deleteHead")
             /\ seen' = [seen EXCEPT ![c] = head]
    BY <2>2, TypedParts, GotoMoves DEF IInv, PC
  <2> QED BY <1>3, <2>1, <2>2
<1>5. TypeOK'
  BY <1>2, <1>4 DEF IInv, TypeOK, ReapHead, histVars
<1>6. Alone(c)
  BY <1>4 DEF Alone, ReapHead
<1>7. Placed(c)'
  BY <1>4 DEF Placed, Early, Promoting, Deleting, Rest
<1> QED BY <1>1, <1>4, <1>5, <1>6, <1>7, Quiet DEF ReapHead, histVars, Rest, Early

LEMMA ReapVersionStep ==
  ASSUME IInv, NEW c \in Actor, ReapVersion(c)
  PROVE  Kept(c)
<1>1. pc[c] = "idle" /\ c \notin Call /\ c \in Reaper
  BY Actors DEF ReapVersion
<1>2. PICK entry \in verIndex :
         \/ verIndex' = verIndex \ {entry} /\ UNCHANGED <<pc, seen, row>>
         \/ /\ ver[entry[1]].status = "active" /\ ~Current(entry[1]) /\ Overdue(entry[1])
            /\ seen' = [seen EXCEPT ![c] = head]
            /\ row' = [row EXCEPT ![c].version = entry[1]]
            /\ Goto(c, "reapRow")
            /\ UNCHANGED verIndex
  BY DEF ReapVersion
<1>3. entry[1] \in Version
  BY TypedParts DEF IInv
<1>4. CASE verIndex' = verIndex \ {entry} /\ UNCHANGED <<pc, seen, row>>
  <2>1. TypeOK'
    BY <1>4 DEF IInv, TypeOK, ReapVersion, histVars
  <2>2. Alone(c)
    BY <1>4 DEF Alone
  <2>3. Placed(c)'
    BY <1>1, <1>4 DEF Placed, Early, Promoting, Deleting, Rest
  <2> QED BY <1>1, <1>4, <2>1, <2>2, <2>3, Quiet DEF ReapVersion, histVars, Rest
<1>5. CASE /\ ver[entry[1]].status = "active" /\ ~Current(entry[1]) /\ Overdue(entry[1])
           /\ seen' = [seen EXCEPT ![c] = head]
           /\ row' = [row EXCEPT ![c].version = entry[1]]
           /\ Goto(c, "reapRow")
           /\ UNCHANGED verIndex
  <2>1. head.status # "absent"
    BY <1>3, <1>5 DEF IInv, Unborn, Absent
  <2>2. /\ pc' \in [Actor -> PC] /\ pc'[c] = "reapRow"
        /\ \A o \in Actor \ {c} : pc'[o] = pc[o]
    BY <1>5, GotoMoves DEF IInv, PC
  <2>3. /\ seen' \in [Actor -> Head] /\ seen'[c] = head
        /\ row' \in [Actor -> Row] /\ row'[c].version = entry[1]
        /\ \A o \in Actor \ {c} : seen'[o] = seen[o] /\ row'[o] = row[o]
    BY <1>3, <1>5, TypedParts DEF IInv, Row
  <2>4. TypeOK'
    BY <1>5, <2>2, <2>3 DEF IInv, TypeOK, ReapVersion, histVars, Row
  <2>5. Alone(c)
    BY <2>2, <2>3 DEF Alone
  <2>6. ver' = ver /\ now' = now
    BY DEF ReapVersion
  <2>7. Placed(c)'
    BY <1>1, <1>5, <2>1, <2>2, <2>3, <2>6
    DEF Placed, Absent, Overdue, Current, Early, Promoting, Deleting, Rest
  <2> QED
    BY <1>1, <2>1, <2>2, <2>3, <2>4, <2>5, <2>7, Quiet
    DEF ReapVersion, histVars, Rest, Early
<1> QED BY <1>2, <1>4, <1>5

LEMMA ReapRowStep ==
  ASSUME IInv, NEW c \in Actor, ReapRow(c)
  PROVE  Kept(c)
<1> DEFINE w == row[c].version
<1>1. /\ pc[c] = "reapRow" /\ w \in Version /\ ~Absent(w) /\ Overdue(w) /\ c \notin Call
      /\ c \in Reaper
      /\ seen[c].status # "absent"
      /\ "reapBytes" \in PC /\ "idle" \in PC /\ verIndex \in Filing
      /\ seen[c].status = "active" => seen[c].version # w
  BY TypedParts, Actors DEF IInv, ReapRow, Placed, PC, Row, Filing, Rest, Early
<1>2. /\ ver' \in [Version -> VerRow] /\ verIndex' \in SUBSET (Version \X Expiry)
      /\ \A v \in Version \ {w} : ver'[v] = ver[v]
      /\ ver'[w].expiry = ver[w].expiry /\ ver'[w].blob = ver[w].blob
      /\ ver'[w].status \in {ver[w].status, "deleted"}
      /\ healthy' \in BOOLEAN
      /\ pc' \in [Actor -> PC] /\ \A o \in Actor \ {c} : pc'[o] = pc[o]
      /\ (pc'[c] = "reapBytes" /\ ver'[w].status = "deleted") \/ pc'[c] = "idle"
  BY <1>1, DeleteMoves DEF IInv, ReapRow
<1>3. TypeOK'
  BY <1>2 DEF IInv, TypeOK, VerRow, ReapRow, Overtaken
<1>4. Alone(c)
  BY <1>2 DEF Alone, ReapRow
<1>5. Placed(c)'
  BY <1>1, <1>2 DEF ReapRow, Placed, Early, Promoting, Deleting, Rest
<1>6. ver[w].expiry + Grace <= now
  BY <1>1, TypedParts, ReaperAssumption DEF IInv, Overdue, VerRow, Expiry
<1>7. stale => stale'
  BY DEF ReapRow, Overtaken
<1> QED
  BY <1>1, <1>2, <1>3, <1>4, <1>5, <1>6, <1>7, Drops DEF ReapRow, Early

LEMMA ReapBytesStep ==
  ASSUME IInv, NEW c \in Actor, ReapBytes(c)
  PROVE  Kept(c)
<1> DEFINE w == row[c].version
           blob == ver[w].blob
<1>1. /\ pc[c] = "reapBytes" /\ c \notin Call /\ w \in Version
      /\ ver[w].status = "deleted" /\ ~Absent(w)
      /\ seen[c].status = "active" => seen[c].version # w
  BY TypedParts, Actors DEF IInv, ReapBytes, Placed, Absent, Row
<1>2. Known(blob)
  BY <1>1 DEF Known, InVer
<1>3. /\ pc' \in [Actor -> PC] /\ pc'[c] = "idle"
      /\ \A o \in Actor \ {c} : pc'[o] = pc[o]
  BY GotoMoves DEF IInv, PC, ReapBytes
<1>4. /\ bytes' \in SUBSET Call /\ healthy' \in BOOLEAN
      /\ \A b \in bytes : b # blob => b \in bytes'
  BY UnlinkMoves DEF IInv, ReapBytes
<1>5. TypeOK'
  BY <1>3, <1>4 DEF IInv, TypeOK, ReapBytes, rowVars, Overtaken
<1>6. Alone(c)
  BY <1>3 DEF Alone, ReapBytes
<1>7. Placed(c)'
  BY <1>3 DEF Placed, Early, Promoting, Deleting, Rest
<1>8. ~stale' /\ head.status = "active" =>
         /\ head.blob # blob
         /\ \A v \in Version : ver[v].status = "active" => ver[v].blob # blob
  <2> SUFFICES ASSUME ~stale', head.status = "active"
               PROVE  /\ head.blob # blob
                      /\ \A v \in Version : ver[v].status = "active" => ver[v].blob # blob
    OBVIOUS
  <2>1. ~stale /\ head = seen[c]
    BY TypedParts DEF IInv, ReapBytes, Overtaken
  <2>2. head.blob # blob
    BY <1>1, <2>1 DEF IInv, Served
  <2>3. \A v \in Version : ver[v].status = "active" => ver[v].blob # blob
    BY <1>1 DEF IInv, Unique, Absent
  <2> QED BY <2>2, <2>3
<1>9. stale => stale'
  BY DEF ReapBytes, Overtaken
<1> QED
  BY <1>1, <1>2, <1>3, <1>4, <1>5, <1>6, <1>7, <1>8, <1>9, Deletes
  DEF ReapBytes, rowVars, Rest

LEMMA CrashStep ==
  ASSUME IInv, NEW c \in Actor, Crash(c)
  PROVE  Kept(c)
<1>1. /\ pc' \in [Actor -> PC] /\ pc'[c] = Escape(c)
      /\ \A o \in Actor \ {c} : pc'[o] = pc[o]
  BY Answers, GotoMoves DEF IInv, Crash
<1>2. TypeOK'
  BY <1>1 DEF IInv, TypeOK, Crash, rowVars, Fails
<1>3. Alone(c)
  BY <1>1 DEF Alone, Crash
<1>4. Placed(c)' /\ pc'[c] \in Rest
  BY <1>1, Answers DEF Placed, Early, Promoting, Deleting, Rest
<1>5. c \in Call => ~Loose(c)'
  BY <1>1, Answers DEF Loose, Promoting
<1> QED BY <1>2, <1>3, <1>4, <1>5, Quiet DEF Crash, rowVars

LEMMA TickStep ==
  ASSUME IInv, Tick
  PROVE  IInv'
<1>1. TypeOK'
  BY BoundAssumption DEF IInv, TypeOK, Tick, rowVars, histVars
<1>2. \A c \in Actor : Placed(c)'
  BY DEF IInv, Placed, Tick, rowVars, Absent, Overdue, Superseded,
         Rest, Gate, Early, Promoting, Deleting
<1>3. \A c \in Call : Fresh(c)'
  BY DEF IInv, Fresh, Loose, Known, InVer, Absent, Tick, rowVars, histVars
<1>4. Unique' /\ Unborn'
  BY DEF IInv, Unique, Unborn, Absent, Tick, rowVars
<1>5. Served'
  <2>1. \A v \in Version : ver[v].expiry \in Expiry
    BY TypedParts DEF IInv, VerRow
  <2> QED
    BY <2>1, TypedParts, ReaperAssumption
    DEF IInv, Served, Absent, Tick, rowVars, histVars, Expiry
<1> QED BY <1>1, <1>2, <1>3, <1>4, <1>5 DEF IInv

-----------------------------------------------------------------------------
(* What follows.                                                           *)

LEMMA StepKeeps == ASSUME IInv, NEW c \in Actor, Step(c) PROVE Kept(c)
BY ArriveStep, PutBytesStep, RefusedStep, CreateHeadStep, CreateVersionStep,
   InsertVersionStep, InsertLostStep, RecoverStep, PromoteStep, ResyncNewStep,
   RetireSkippedStep, RetireLaterStep, RetireNowStep, RetireBytesStep,
   RetireIndexStep, UndoBytesStep, RenewHeadStep, RenewIndexStep,
   DeleteHeadStep, DeleteBytesStep, CascadeRowStep, CascadeSkipsStep,
   CascadeBytesStep, ReapHeadStep, ReapVersionStep, ReapRowStep, ReapBytesStep,
   CrashStep
DEF Step

\* Where each actor is, what its blobs are and what is served agree in every
\* reachable state.
THEOREM InvariantHolds == Spec => []IInv
<1>1. IInv /\ [Next]_vars => IInv'
  <2> SUFFICES ASSUME IInv, [Next]_vars PROVE IInv'
    OBVIOUS
  <2>1. CASE Next
    BY <2>1, StepKeeps, TickStep DEF Next, Kept
  <2>2. CASE UNCHANGED vars
    BY <2>2
    DEF vars, rowVars, histVars, IInv, TypeOK, Placed, Fresh, Loose, Known, InVer, Absent,
        Overdue, Superseded, Unique, Unborn, Served
  <2> QED BY <2>1, <2>2
<1> QED BY <1>1, InitIInv, PTL DEF Spec

\* Every variable stays in its range: no version number past the last, no
\* expiry past the longest, no blob that no request has put.
THEOREM TypeCorrect == Spec => []TypeOK
<1>1. IInv => TypeOK
  BY DEF IInv
<1> QED BY <1>1, InvariantHolds, PTL

\* ServedHasBytes: what an active head leads to is on disk, with any number of
\* failing calls and dying processes, until a call writes over a head that has
\* changed since it was read.
THEOREM ServedIsStored == Spec => []ServedHasBytes
<1>1. IInv => ServedHasBytes
  BY DEF IInv, Served, ServedHasBytes, Held
<1> QED BY <1>1, InvariantHolds, PTL

\* VersionsLiveTheirTerm: on the same condition, neither a promotion nor the
\* reaper takes a version of a living backup before its term and grace are over.
THEOREM NoEarlyReaping == Spec => []VersionsLiveTheirTerm
<1>1. IInv => VersionsLiveTheirTerm
  BY DEF IInv, Served, VersionsLiveTheirTerm
<1> QED BY <1>1, InvariantHolds, PTL

-----------------------------------------------------------------------------
(* While nothing has failed: what an actor has read, and the head it has   *)
(* read it from.                                                           *)

Living == {"add", "insert", "renew", "renewIndex", "createVersion", "deleteHead"}

\* What an actor knows of the expiries where it stands.
Reads(c) ==
    /\ pc[c] \in Living => seen[c].status = "active"
    /\ pc[c] = "createVersion" => seen[c].expiry = row[c].expiry
    /\ pc[c] = "renew" => seen[c].expiry < MaxExpiry
    /\ pc[c] = "renewIndex" => row[c].version = seen[c].version /\ row[c].expiry < seen[c].expiry
    /\ pc[c] \in {"promote", "resync"} => row[c].expiry = ver[row[c].version].expiry
    /\ healthy /\ pc[c] = "retireIndex" => ver[Superseded(c)].status = "deleted"

\* The steps at which Reads says something.
Reading == Living \cup {"promote", "resync", "retireIndex"}

LEMMA OthersRead ==
  ASSUME IInv, NEW c \in Actor, NEW o \in Actor \ {c}, Reads(o), Kept(c), healthy' => healthy
  PROVE  Reads(o)'
<1>1. pc'[o] = pc[o] /\ seen'[o] = seen[o] /\ row'[o] = row[o] /\ now' = now
  BY DEF Kept, Alone
<1>2. pc[o] \in {"promote", "resync"} =>
         ver'[row[o].version].expiry = ver[row[o].version].expiry
  <2> SUFFICES ASSUME pc[o] \in {"promote", "resync"}
               PROVE  ver'[row[o].version].expiry = ver[row[o].version].expiry
    OBVIOUS
  <2>1. row[o].version \in Version /\ ~Absent(row[o].version)
    BY AfterInsert DEF Promoting, IInv, Placed
  <2> QED BY <2>1 DEF Kept, Grows
<1>3. healthy' /\ pc[o] = "retireIndex" => ver'[Superseded(o)].status = "deleted"
  <2> SUFFICES ASSUME healthy', pc[o] = "retireIndex"
               PROVE  ver'[Superseded(o)].status = "deleted"
    OBVIOUS
  <2>1. Superseded(o) \in Version /\ ver[Superseded(o)].status = "deleted"
    BY AfterInsert DEF Promoting, Reads
  <2> QED BY <2>1 DEF Kept, Grows, Absent
<1>4. Superseded(o)' = Superseded(o) /\ MaxExpiry' = MaxExpiry
  BY <1>1 DEF Superseded, MaxExpiry
<1> QED BY <1>1, <1>2, <1>3, <1>4 DEF Reads

\* A failure is remembered.
LEMMA Memory ==
  ASSUME TypeOK, NEW c \in Actor, Step(c)
  PROVE  (healthy' => healthy) /\ (stale => stale')
<1>1. (Works => healthy' = healthy) /\ (Fails => ~healthy')
  BY DEF Works, Fails
<1>2. /\ \A new, next, otherwise : UpsertHead(c, new, next, otherwise) => (healthy' => healthy)
      /\ \A r, next : InsertRow(c, r, next) => (healthy' => healthy)
      /\ \A v, index, next, otherwise :
            DeleteRow(c, v, index, next, otherwise) => (healthy' => healthy)
      /\ \A v, from, to, next, otherwise :
            Resync(c, v, from, to, next, otherwise) => (healthy' => healthy)
      /\ \A blob : Unlink(blob) => (healthy' => healthy)
  BY <1>1 DEF UpsertHead, InsertRow, DeleteRow, Resync, Unlink
<1>3. (Overtaken(c) => (stale => stale')) /\ \A new : Overwritten(c, new) => (stale => stale')
  BY DEF Overtaken, Overwritten
<1>4. CASE \/ Arrive(c) \/ PutBytes(c) \/ Refused(c) \/ CreateHead(c) \/ CreateVersion(c)
           \/ InsertVersion(c) \/ InsertLost(c) \/ Recover(c) \/ ResyncNew(c)
  BY <1>1, <1>2, <1>3, <1>4
  DEF Arrive, PutBytes, Refused, CreateHead, CreateVersion, InsertVersion, InsertLost,
      Recover, ResyncNew, histVars
<1>5. CASE Promote(c)
  <2>1. UpsertHead(c, Promoted(c), "resync", IF Own(c) THEN "failed" ELSE "undoBytes")
    BY <1>5 DEF Promote
  <2>2. stale => stale'
    BY <1>5 DEF Promote
  <2> QED BY <1>2, <2>1, <2>2
<1>6. CASE \/ RetireSkipped(c) \/ RetireLater(c) \/ RetireNow(c) \/ RetireBytes(c)
           \/ RetireIndex(c) \/ UndoBytes(c) \/ RenewHead(c) \/ RenewIndex(c)
  BY <1>1, <1>2, <1>3, <1>6
  DEF RetireSkipped, RetireLater, RetireNow, RetireBytes, RetireIndex, UndoBytes,
      RenewHead, RenewIndex
<1>7. CASE \/ DeleteHead(c) \/ DeleteBytes(c) \/ CascadeRow(c) \/ CascadeSkips(c)
           \/ CascadeBytes(c)
  BY <1>1, <1>2, <1>3, <1>7
  DEF DeleteHead, DeleteBytes, CascadeRow, CascadeSkips, CascadeBytes, histVars
<1>8. CASE ReapHead(c) \/ ReapVersion(c) \/ ReapRow(c) \/ ReapBytes(c) \/ Crash(c)
  BY <1>1, <1>2, <1>3, <1>8 DEF ReapHead, ReapVersion, ReapRow, ReapBytes, Crash, histVars
<1> QED BY <1>4, <1>5, <1>6, <1>7, <1>8 DEF Step

LEMMA ReadsStep ==
  ASSUME IInv, NEW c \in Actor, Reads(c), Step(c)
  PROVE  Reads(c)'
<1>0. /\ pc \in [Actor -> PC] /\ seen \in [Actor -> Head] /\ row \in [Actor -> Row]
      /\ ver \in [Version -> VerRow] /\ now \in 0..LastDay
  BY TypedParts DEF IInv
<1>x. pc'[c] \notin Reading => Reads(c)'
  BY DEF Reads, Reading, Living
<1>a. Escape(c) \notin Reading /\ Return(c) \notin Reading /\ Finish(c) \notin Reading
      /\ After(c) \notin Reading
  BY DEF Escape, Return, Finish, After, Reading, Living
<1>1. CASE Arrive(c)
  BY <1>0, <1>1, BoundAssumption
  DEF Arrive, Goto, Reads, Reading, Living, MaxExpiry
<1>2. CASE PutBytes(c)
  BY <1>0, <1>2 DEF PutBytes, Goto, Reads, Living
<1>3. CASE CreateHead(c)
  <2>1. /\ seen'[c] = [status |-> "active", version |-> 1, expiry |-> row[c].expiry, blob |-> c]
        /\ row' = row /\ pc'[c] \in {"createVersion", "failed"}
    BY <1>0, <1>3 DEF CreateHead, UpsertHead, Goto
  <2> QED BY <2>1 DEF Reads, Living
<1>4. CASE CreateVersion(c) \/ Refused(c) \/ UndoBytes(c) \/ RenewIndex(c) \/ Crash(c)
  <2>1. pc'[c] \in {"done", "failed", "conflict", Escape(c)}
    BY <1>0, <1>4
    DEF CreateVersion, Refused, UndoBytes, RenewIndex, Crash, InsertRow, Resync, Goto
  <2> QED BY <2>1, <1>a, <1>x DEF Reading, Living
<1>5. CASE InsertVersion(c)
  <2>1. row[c].version \in Version /\ row' = row
    BY <1>0, <1>5 DEF InsertVersion, Row
  <2>2. \/ pc'[c] = "promote" /\ ver'[row[c].version].expiry = row[c].expiry
        \/ pc'[c] = "failed"
    BY <1>0, <1>5, <2>1 DEF InsertVersion, InsertRow, Goto
  <2> QED BY <2>1, <2>2 DEF Reads, Living
<1>6. CASE InsertLost(c)
  <2>1. pc'[c] \in {"recover", "failed"}
    BY <1>0, <1>6 DEF InsertLost, Goto
  <2> QED BY <2>1, <1>x DEF Reading, Living
<1>7. CASE Recover(c)
  <2>1. \/ pc'[c] = "undoBytes"
        \/ /\ pc'[c] = "promote" /\ row'[c].version = row[c].version
           /\ row'[c].expiry = ver[row[c].version].expiry /\ ver' = ver
    BY <1>0, <1>7 DEF Recover, Goto, rowVars
  <2> QED BY <2>1 DEF Reads, Living
<1>8. CASE Promote(c)
  <2>1. /\ pc'[c] \in {"resync", "failed", "undoBytes"} /\ row' = row /\ ver' = ver
        /\ pc[c] = "promote"
    BY <1>0, <1>8 DEF Promote, UpsertHead, Goto
  <2> QED BY <2>1 DEF Reads, Living
<1>9. CASE ResyncNew(c) \/ RetireSkipped(c) \/ RetireLater(c) \/ RetireIndex(c)
  <2>1. pc'[c] \in {"retire", Finish(c)}
    BY <1>0, <1>9
    DEF ResyncNew, RetireSkipped, RetireLater, RetireIndex, Resync, Goto
  <2> QED BY <2>1, <1>a, <1>x DEF Reading, Living
<1>10. CASE RetireNow(c)
  <2>1. Superseded(c) \in Version /\ row' = row
    BY <1>10, AfterInsert DEF RetireNow, Promoting
  <2>2. \/ pc'[c] = "retireBytes"
        \/ pc'[c] = "retireIndex" /\ ~healthy'
    BY <1>0, <1>10 DEF RetireNow, DeleteRow, Goto, Fails
  <2> QED BY <2>2 DEF Reads, Living
<1>11. CASE RetireBytes(c)
  <2>1. pc'[c] = "retireIndex" /\ ver' = ver /\ row' = row /\ ver[Superseded(c)].status = "deleted"
    BY <1>0, <1>11 DEF RetireBytes, Goto, rowVars, IInv, Placed
  <2> QED BY <2>1 DEF Reads, Living, Superseded
<1>12. CASE RenewHead(c)
  <2>1. /\ seen'[c].status = seen[c].status /\ seen'[c].version = seen[c].version
        /\ seen'[c].expiry = Renewed(c)
        /\ row'[c].version = seen[c].version /\ row'[c].expiry = seen[c].expiry
        /\ pc'[c] \in {"renewIndex", "failed"} /\ pc[c] = "renew"
    BY <1>0, <1>12 DEF RenewHead, UpsertHead, Goto, Head, Row
  <2>2. seen[c].expiry < Renewed(c)
    BY <1>0, <2>1, TermAssumption, BoundAssumption
    DEF Reads, Renewed, Earlier, Later, MaxExpiry, Head, Expiry
  <2> QED BY <2>1, <2>2 DEF Reads, Living
<1>13. CASE DeleteHead(c) \/ DeleteBytes(c) \/ CascadeRow(c) \/ CascadeSkips(c) \/ CascadeBytes(c)
  <2>1. pc'[c] \in {"deleteBytes", "cascade", "cascadeBytes", Escape(c), Return(c), After(c)}
    BY <1>0, <1>13
    DEF DeleteHead, DeleteBytes, CascadeRow, CascadeSkips, CascadeBytes, UpsertHead,
        DeleteRow, Goto
  <2> QED BY <2>1, <1>a, <1>x DEF Reading, Living
<1>14. CASE ReapHead(c)
  <2>1. \/ pc'[c] = "idle"
        \/ pc'[c] = "deleteHead" /\ seen'[c].status = "active"
    BY <1>0, <1>14 DEF ReapHead, Goto
  <2> QED BY <2>1 DEF Reads, Living
<1>15. CASE ReapVersion(c) \/ ReapRow(c) \/ ReapBytes(c)
  <2>1. pc'[c] \in {"idle", "reapRow", "reapBytes"}
    BY <1>0, <1>15 DEF ReapVersion, ReapRow, ReapBytes, DeleteRow, Goto
  <2> QED BY <2>1, <1>x DEF Reading, Living
<1> QED
  BY <1>1, <1>2, <1>3, <1>4, <1>5, <1>6, <1>7, <1>8, <1>9, <1>10, <1>11, <1>12, <1>13,
     <1>14, <1>15 DEF Step

\* The order of heads: a later one has a higher version, or the same and a
\* later expiry.
Before(g, h) == g.version < h.version \/ (g.version = h.version /\ g.expiry < h.expiry)

Refiling == {"resync", "retire", "renewIndex"}

\* Nobody refiles from a head that is still to come.
Ordered == ~stale => \A c \in Actor : pc[c] \in Refiling => ~Before(head, seen[c])

\* A living head is replaced by a later one, or is deleted.
LEMMA HeadMoves ==
  ASSUME IInv, NEW c \in Actor, Reads(c), Step(c), ~stale', head' # head
  PROVE  \/ head.status = "absent" /\ CreateHead(c)
         \/ /\ Before(head, head') /\ head'.status = head.status /\ head = seen[c]
            /\ head' = seen'[c]
            /\ Promote(c) \/ RenewHead(c)
         \/ /\ head.version = head'.version /\ head.expiry = head'.expiry
            /\ head'.status = "deleted" /\ DeleteHead(c)
<1>0. seen[c] \in Head /\ head \in Head /\ stale \in BOOLEAN
  BY TypedParts DEF IInv
<1>1. CreateHead(c) \/ Promote(c) \/ RenewHead(c) \/ DeleteHead(c)
  BY DEF Step, Arrive, PutBytes, Refused, CreateVersion, InsertVersion, InsertLost, Recover,
         ResyncNew, RetireSkipped, RetireLater, RetireNow, RetireBytes, RetireIndex, UndoBytes,
         RenewIndex, DeleteBytes, CascadeRow, CascadeSkips, CascadeBytes, ReapHead,
         ReapVersion, ReapRow, ReapBytes, Crash, rowVars
<1>2. CASE CreateHead(c)
  <2>1. head = seen[c] /\ seen[c].status = "absent"
    BY <1>0, <1>2 DEF CreateHead, Overtaken, IInv, Placed, Early
  <2> QED BY <1>2, <2>1
<1>3. CASE Promote(c)
  <2>1. head' = Promoted(c) /\ head = seen[c] /\ seen'[c] = Promoted(c)
    BY <1>0, <1>3, TypedParts DEF IInv, Promote, UpsertHead
  <2>2. row[c].version = seen[c].version + 1 /\ row[c].version \in Version
    BY <1>3, TypedParts DEF IInv, Promote, Placed, Row
  <2> QED BY <1>0, <1>3, <2>1, <2>2 DEF Promoted, Before, Head, Version
<1>4. CASE RenewHead(c)
  <2>1. /\ head' = [seen[c] EXCEPT !.expiry = Renewed(c)] /\ head = seen[c]
        /\ seen'[c] = head' /\ pc[c] = "renew"
    BY <1>0, <1>4, TypedParts DEF IInv, RenewHead, UpsertHead, Overtaken
  <2>2. seen[c].expiry < Renewed(c)
    BY <1>0, <2>1, TypedParts, TermAssumption, BoundAssumption
    DEF IInv, Reads, Renewed, Earlier, Later, MaxExpiry, Head, Expiry
  <2> QED BY <1>0, <1>4, <2>1, <2>2 DEF Before, Head, Version
<1>5. CASE DeleteHead(c)
  <2>1. head' = [seen[c] EXCEPT !.status = "deleted"] /\ head = seen[c]
    BY <1>0, <1>5, TypedParts DEF IInv, DeleteHead, UpsertHead, Overwritten
  <2> QED BY <1>0, <1>5, <2>1 DEF Head
<1> QED BY <1>1, <1>2, <1>3, <1>4, <1>5

\* Who comes to refile has just written the head, or goes on.
LEMMA ComesToRefile ==
  ASSUME IInv, NEW c \in Actor, Step(c), pc'[c] \in Refiling
  PROVE  \/ (Promote(c) \/ RenewHead(c)) /\ seen'[c] = head'
         \/ ResyncNew(c) /\ pc'[c] = "retire"
<1>0. /\ pc \in [Actor -> PC] /\ seen \in [Actor -> Head]
      /\ pc'[c] \in {"resync", "retire", "renewIndex"}
  BY TypedParts DEF IInv, Refiling
<1>a. Escape(c) \notin Refiling /\ Return(c) \notin Refiling /\ Finish(c) \notin Refiling
      /\ After(c) \notin Refiling
  BY DEF Escape, Return, Finish, After, Refiling
<1>1. CASE \/ Arrive(c) \/ PutBytes(c) \/ Refused(c) \/ CreateHead(c) \/ CreateVersion(c)
           \/ InsertVersion(c) \/ InsertLost(c) \/ Recover(c)
  <2>1. pc'[c] \notin Refiling
    BY <1>0, <1>1
    DEF Arrive, PutBytes, Refused, CreateHead, CreateVersion, InsertVersion, InsertLost,
        Recover, UpsertHead, InsertRow, Goto, Refiling
  <2> QED BY <2>1
<1>2. CASE Promote(c)
  <2>1. seen'[c] = Promoted(c) /\ (pc'[c] \in {"failed", "undoBytes"} \/ head' = Promoted(c))
    BY <1>0, <1>2 DEF Promote, UpsertHead, Goto
  <2> QED BY <1>0, <1>2, <2>1
<1>3. CASE ResyncNew(c)
  <2>1. pc'[c] \in {"retire", Finish(c)}
    BY <1>0, <1>3 DEF ResyncNew, Resync, Goto
  <2> QED BY <1>3, <1>a, <2>1
<1>4. CASE \/ RetireSkipped(c) \/ RetireLater(c) \/ RetireNow(c) \/ RetireBytes(c)
           \/ RetireIndex(c) \/ UndoBytes(c) \/ RenewIndex(c)
  <2>1. pc'[c] \in {Finish(c), "retireBytes", "retireIndex", "conflict", "done", "failed"}
    BY <1>0, <1>4
    DEF RetireSkipped, RetireLater, RetireNow, RetireBytes, RetireIndex, UndoBytes,
        RenewIndex, DeleteRow, Resync, Goto
  <2> QED BY <1>0, <1>a, <2>1
<1>5. CASE RenewHead(c)
  <2>1. \/ pc'[c] = "failed"
        \/ seen'[c] = [seen[c] EXCEPT !.expiry = Renewed(c)]
           /\ head' = [seen[c] EXCEPT !.expiry = Renewed(c)]
    BY <1>0, <1>5 DEF RenewHead, UpsertHead, Goto
  <2> QED BY <1>0, <1>5, <2>1
<1>6. CASE \/ DeleteHead(c) \/ DeleteBytes(c) \/ CascadeRow(c) \/ CascadeSkips(c)
           \/ CascadeBytes(c)
  <2>1. pc'[c] \in {"deleteBytes", "cascade", "cascadeBytes", Escape(c), Return(c), After(c)}
    BY <1>0, <1>6
    DEF DeleteHead, DeleteBytes, CascadeRow, CascadeSkips, CascadeBytes, UpsertHead,
        DeleteRow, Goto
  <2> QED BY <1>0, <1>a, <2>1
<1>7. CASE ReapHead(c) \/ ReapVersion(c) \/ ReapRow(c) \/ ReapBytes(c) \/ Crash(c)
  <2>1. pc'[c] \in {"idle", "deleteHead", "reapRow", "reapBytes", Escape(c)}
    BY <1>0, <1>7
    DEF ReapHead, ReapVersion, ReapRow, ReapBytes, Crash, DeleteRow, Goto
  <2> QED BY <1>0, <1>a, <2>1
<1> QED BY <1>1, <1>2, <1>3, <1>4, <1>5, <1>6, <1>7 DEF Step

LEMMA OrderedStep ==
  ASSUME IInv, NEW c \in Actor, Reads(c), Ordered, Step(c)
  PROVE  Ordered'
<1> SUFFICES ASSUME ~stale', NEW o \in Actor, pc'[o] \in Refiling
             PROVE  ~Before(head', seen'[o])
  BY DEF Ordered, Before
<1>1. ~stale /\ Alone(c) /\ IInv'
  BY Memory, StepKeeps DEF IInv, Kept
<1>2. /\ head \in Head /\ head' \in Head /\ seen[o] \in Head /\ seen'[o] \in Head
      /\ \A h \in Head : h.version \in Nat /\ h.expiry \in Nat
  <2>1. /\ head \in Head /\ seen \in [Actor -> Head]
        /\ head' \in Head /\ seen' \in [Actor -> Head]
    BY <1>1 DEF IInv, TypeOK
  <2> QED BY <2>1 DEF Head, Version, Expiry
<1>3. CASE o # c
  <2>1. pc[o] \in Refiling /\ seen'[o] = seen[o] /\ ~Before(head, seen[o])
    BY <1>1, <1>3 DEF Alone, Ordered
  <2>2. head.status # "absent"
    BY <2>1 DEF IInv, Unborn, Refiling, Rest, Early
  <2>3. head' = head \/ Before(head, head')
        \/ (head.version = head'.version /\ head.expiry = head'.expiry)
    BY <2>2, HeadMoves
  <2> QED BY <1>2, <2>1, <2>3 DEF Before
<1>4. CASE o = c
  <2>1. CASE seen'[c] = head'
    BY <1>2, <1>4, <2>1 DEF Before
  <2>2. CASE ResyncNew(c)
    BY <1>1, <1>4, <2>2 DEF ResyncNew, Ordered, Refiling, Before
  <2> QED BY <1>4, <2>1, <2>2, ComesToRefile
<1> QED BY <1>3, <1>4

-----------------------------------------------------------------------------
(* No blob is forgotten.                                                   *)

\* The walk of d over the versions has v before it.
Walks(d, v) ==
    \/ pc[d] = "deleteBytes"
    \/ pc[d] = "cascade" /\ row[d].version >= v
    \/ pc[d] = "cascadeBytes" /\ row[d].version > v

\* d has marked v deleted and its bytes are next.
Sweeps(d, v) ==
    \/ pc[d] \in {"cascadeBytes", "reapBytes"} /\ row[d].version = v
    \/ pc[d] = "retireBytes" /\ Superseded(d) = v

\* The request that put c has yet to store it, or to take it back.
Pending(c) ==
    \/ pc[c] \in {"createHead", "createVersion", "insert", "recover", "undoBytes"}
    \/ pc[c] \in Promoting /\ row[c].blob # c

Listed(v) == ver[v].status = "active" /\ (head.status = "active" \/ \E d \in Actor : Walks(d, v))
Swept(v)   == ver[v].status = "deleted" /\ \E d \in Actor : Sweeps(d, v)

Owed(b) ==
    \/ Pending(b)
    \/ \E v \in Version : ver[v].blob = b /\ (Listed(v) \/ Swept(v))

Accounted == healthy /\ ~stale => \A b \in bytes : Owed(b)

LEMMA OwedStays ==
  ASSUME NEW c \in Actor, Alone(c), NEW b \in Call, Owed(b), ver' = ver,
         head.status = "active" => head'.status = "active",
         b = c /\ Pending(c) => Pending(c)',
         \A v \in Version : ver[v].status = "active" /\ Walks(c, v) => Walks(c, v)',
         \A v \in Version : ver[v].blob = b /\ Sweeps(c, v) => Sweeps(c, v)'
  PROVE  Owed(b)'
<1>1. \A o \in Actor \ {c} :
         /\ Pending(o)' = Pending(o)
         /\ \A v \in Version : Walks(o, v)' = Walks(o, v) /\ Sweeps(o, v)' = Sweeps(o, v)
  BY DEF Alone, Pending, Walks, Sweeps, Superseded
<1>2. Pending(b) => Pending(b)'
  BY <1>1, Actors
<1>3. \A v \in Version : Listed(v) => Listed(v)'
  BY <1>1 DEF Listed
<1>4. \A v \in Version : ver[v].blob = b /\ Swept(v) => Swept(v)'
  BY <1>1 DEF Swept
<1> QED BY <1>2, <1>3, <1>4 DEF Owed

\* The same for a step of c that has no versions before it and no bytes.
LEMMA OwedPlain ==
  ASSUME NEW c \in Actor, Alone(c), NEW b \in Call, Owed(b), ver' = ver,
         head.status = "active" => head'.status = "active",
         pc[c] \notin Deleting \cup {"reapBytes", "retireBytes"},
         b = c /\ Pending(c) => Pending(c)'
  PROVE  Owed(b)'
<1>1. \A v : ~Walks(c, v) /\ ~Sweeps(c, v)
  BY DEF Walks, Sweeps, Deleting
<1> QED BY <1>1, OwedStays

LEMMA AccountedStep ==
  ASSUME IInv, NEW c \in Actor, Reads(c), Accounted, Step(c)
  PROVE  Accounted'
<1> SUFFICES ASSUME healthy', ~stale', NEW b \in bytes' PROVE Owed(b)'
  BY DEF Accounted
<1>1. healthy /\ ~stale /\ Kept(c) /\ Alone(c)
  BY Memory, StepKeeps DEF IInv, Kept
<1>2. b \in Call
  BY <1>1 DEF Kept, IInv, TypeOK
<1>3. b \in bytes => Owed(b)
  BY <1>1 DEF Accounted
<1>4. /\ pc \in [Actor -> PC] /\ seen \in [Actor -> Head] /\ row \in [Actor -> Row]
      /\ ver \in [Version -> VerRow] /\ head \in Head
  BY TypedParts DEF IInv
<1>5. ~Fails
  BY DEF Fails
<1>6. \A next : Goto(c, next) => pc'[c] = next
  BY <1>4 DEF Goto
<1>7. CASE Arrive(c) \/ Refused(c)
  <2>1. /\ bytes' = bytes /\ ver' = ver /\ head' = head
        /\ pc[c] \in {"idle", "create", "add", "renew"}
    BY <1>7 DEF Arrive, Refused, rowVars
  <2> QED BY <1>1, <1>2, <1>3, <2>1, OwedPlain DEF Pending, Promoting, Deleting
<1>8. CASE PutBytes(c)
  <2>1. /\ bytes' = bytes \cup {c} /\ ver' = ver /\ head' = head /\ pc[c] \in {"create", "add"}
        /\ pc'[c] \in {"createHead", "insert"}
    BY <1>6, <1>8 DEF PutBytes, rowVars
  <2>2. CASE b = c
    BY <2>1, <2>2 DEF Owed, Pending
  <2>3. CASE b # c
    BY <1>1, <1>2, <1>3, <2>1, <2>3, OwedPlain DEF Deleting
  <2> QED BY <2>2, <2>3
<1>9. CASE CreateHead(c)
  <2>1. /\ bytes' = bytes /\ ver' = ver /\ pc[c] = "createHead" /\ pc'[c] = "createVersion"
        /\ head'.status = "active"
    BY <1>5, <1>6, <1>9 DEF CreateHead, UpsertHead
  <2> QED BY <1>1, <1>2, <1>3, <2>1, OwedPlain DEF Pending, Deleting
<1>10. CASE CreateVersion(c) \/ InsertVersion(c)
  <2> DEFINE w == row[c].version
  <2>1. /\ pc[c] \in {"createVersion", "insert"} /\ bytes' = bytes /\ head' = head
        /\ stale' = (stale \/ head # seen[c]) /\ w \in Version /\ row[c].blob = c
        /\ ver' = [ver EXCEPT ![w] =
                      [status |-> "active", expiry |-> row[c].expiry, blob |-> row[c].blob]]
    BY <1>4, <1>5, <1>10
    DEF CreateVersion, InsertVersion, InsertRow, Overtaken, IInv, Placed, Row
  <2>2. Absent(w)
    BY <1>10 DEF CreateVersion, InsertVersion, IInv, Placed, Absent
  <2>3. head'.status = "active"
    BY <1>1, <2>1 DEF Reads, Living
  <2>4. ver'[w].status = "active" /\ ver'[w].blob = c /\ \A v \in Version \ {w} : ver'[v] = ver[v]
    BY <1>4, <2>1
  <2>5. CASE b = c
    BY <2>1, <2>3, <2>4, <2>5 DEF Owed, Listed
  <2>6. CASE b # c
    <3>1. \A o \in Actor \ {c}, v \in Version : Sweeps(o, v)' = Sweeps(o, v)
      BY <1>1 DEF Alone, Sweeps, Superseded
    <3>2. \A v \in Version : ~Sweeps(c, v)
      BY <2>1 DEF Sweeps
    <3>3. Pending(b) => Pending(b)'
      BY <1>1, <1>2, <2>6, Actors DEF Alone, Pending
    <3>4. \A v \in Version : Listed(v) => Listed(v)'
      BY <2>2, <2>3, <2>4 DEF Listed, Absent
    <3>5. \A v \in Version : Swept(v) => Swept(v)'
      BY <2>2, <2>4, <3>1, <3>2 DEF Swept, Absent
    <3>6. \A v \in Version : Listed(v) \/ Swept(v) => ver'[v].blob = ver[v].blob
      BY <2>2, <2>4 DEF Listed, Swept, Absent
    <3> QED BY <1>3, <2>1, <3>3, <3>4, <3>5, <3>6 DEF Owed
  <2> QED BY <2>5, <2>6
<1>11. CASE InsertLost(c)
  <2>1. /\ bytes' = bytes /\ ver' = ver /\ head' = head /\ pc[c] = "insert" /\ pc'[c] = "recover"
    BY <1>5, <1>6, <1>11 DEF InsertLost, rowVars
  <2> QED BY <1>1, <1>2, <1>3, <2>1, OwedPlain DEF Pending, Deleting
<1>12. CASE Recover(c)
  <2>1. bytes' = bytes /\ ver' = ver /\ head' = head /\ pc[c] = "recover"
    BY <1>12 DEF Recover, rowVars
  <2>2. \/ pc'[c] = "undoBytes"
        \/ /\ pc'[c] = "promote" /\ row'[c].blob = ver[row[c].version].blob
           /\ ver[row[c].version].status = "active"
    BY <1>4, <1>6, <1>12 DEF Recover, Orphaned
  <2>3. b = c => Pending(c)'
    <3> SUFFICES ASSUME b = c PROVE Pending(c)'
      OBVIOUS
    <3>1. ~InVer(c)
      BY <1>2, <2>1 DEF IInv, Fresh, Loose, Known
    <3>2. ver[row[c].version].status = "active" => ver[row[c].version].blob # c
      BY <1>4, <3>1 DEF InVer, Absent, Row
    <3> QED BY <2>2, <3>2 DEF Pending, Promoting
  <2> QED BY <1>1, <1>2, <1>3, <2>1, <2>3, OwedPlain DEF Deleting
<1>13. CASE Promote(c)
  <2>1. /\ bytes' = bytes /\ ver' = ver /\ pc[c] = "promote" /\ pc'[c] = "resync"
        /\ row' = row /\ head' = Promoted(c) /\ (head = seen[c] \/ head = Promoted(c))
    BY <1>1, <1>5, <1>6, <1>13 DEF Promote, UpsertHead
  <2>2. head'.status = head.status
    BY <1>4, <2>1 DEF Promoted, Head
  <2> QED BY <1>1, <1>2, <1>3, <2>1, <2>2, OwedPlain DEF Pending, Promoting, Deleting
<1>14. CASE ResyncNew(c) \/ RetireSkipped(c) \/ RetireLater(c) \/ RetireIndex(c)
  <2>1. /\ bytes' = bytes /\ ver' = ver /\ head' = head /\ row' = row
        /\ pc[c] \in {"resync", "retire", "retireIndex"}
        /\ pc'[c] \in {"retire", Finish(c)}
    BY <1>6, <1>14 DEF ResyncNew, RetireSkipped, RetireLater, RetireIndex, Resync, rowVars
  <2>2. Pending(c) => Pending(c)'
    BY <2>1 DEF Pending, Finish, Own, Promoting
  <2> QED BY <1>1, <1>2, <1>3, <2>1, <2>2, OwedPlain DEF Deleting
<1>15. CASE RenewHead(c) \/ RenewIndex(c)
  <2>1. bytes' = bytes /\ ver' = ver /\ pc[c] \in {"renew", "renewIndex"}
    BY <1>15 DEF RenewHead, RenewIndex
  <2>2. head'.status = head.status
    BY <1>1, <1>4, <1>5, <1>15
    DEF RenewHead, RenewIndex, UpsertHead, Overtaken, Head
  <2> QED BY <1>1, <1>2, <1>3, <2>1, <2>2, OwedPlain DEF Pending, Promoting, Deleting
<1>16. CASE ReapHead(c) \/ ReapVersion(c)
  <2>1. bytes' = bytes /\ ver' = ver /\ head' = head /\ pc[c] = "idle"
    BY <1>16 DEF ReapHead, ReapVersion
  <2> QED BY <1>1, <1>2, <1>3, <2>1, OwedPlain DEF Pending, Promoting, Deleting
<1>17. CASE RetireNow(c) \/ CascadeRow(c) \/ ReapRow(c)
  <2>a. pc[c] = "retire" => Superseded(c) \in Version
    BY AfterInsert DEF Promoting
  <2>b. PICK w \in Version :
           /\ pc[c] = "retire" => w = Superseded(c)
           /\ pc[c] # "retire" => w = row[c].version
    BY <1>4, <2>a DEF Row
  <2>1. /\ pc[c] \in {"retire", "cascade", "reapRow"} /\ bytes' = bytes /\ head' = head
        /\ row' = row /\ ver' = [ver EXCEPT ![w].status = "deleted"]
        /\ pc[c] = "retire" => pc'[c] = "retireBytes"
        /\ pc[c] = "cascade" => pc'[c] = "cascadeBytes"
        /\ pc[c] = "reapRow" => pc'[c] = "reapBytes"
    BY <1>5, <1>6, <1>17, <2>b DEF RetireNow, CascadeRow, ReapRow, DeleteRow
  <2>3. /\ ver'[w].status = "deleted" /\ ver'[w].blob = ver[w].blob
        /\ \A v \in Version \ {w} : ver'[v] = ver[v]
    BY <1>4, <2>1 DEF VerRow
  <2>4. Sweeps(c, w)'
    BY <2>1, <2>b DEF Sweeps, Superseded
  <2>5. /\ \A o \in Actor \ {c} : Pending(o)' = Pending(o)
        /\ \A o \in Actor \ {c}, v \in Version : Walks(o, v)' = Walks(o, v)
        /\ \A o \in Actor \ {c}, v \in Version : Sweeps(o, v)' = Sweeps(o, v)
    BY <1>1 DEF Alone, Pending, Walks, Sweeps, Superseded
  <2>6. /\ Pending(c) => Pending(c)'
        /\ \A v \in Version : ~Sweeps(c, v)
    BY <2>1 DEF Pending, Sweeps, Promoting
  <2>7. \A v \in Version \ {w} : Walks(c, v) => Walks(c, v)'
    <3>1. \A v \in Version \ {w} : row[c].version >= v /\ w = row[c].version => row[c].version > v
      BY <1>4 DEF Row, Version
    <3> QED BY <2>1, <2>b, <3>1 DEF Walks
  <2>8. \A v \in Version \ {w} : Listed(v) => Listed(v)'
    BY <2>1, <2>3, <2>5, <2>7 DEF Listed
  <2>9. \A v \in Version \ {w} : Swept(v) => Swept(v)'
    BY <2>3, <2>5, <2>6 DEF Swept
  <2>10. Swept(w)' /\ \A v \in Version : ver'[v].blob = ver[v].blob
    BY <2>3, <2>4 DEF Swept
  <2>11. Pending(b) => Pending(b)'
    BY <1>2, <2>5, <2>6, Actors
  <2> QED BY <1>3, <2>1, <2>8, <2>9, <2>10, <2>11 DEF Owed
<1>18. CASE RetireBytes(c) \/ ReapBytes(c) \/ UndoBytes(c)
  <2>1. /\ pc[c] \in {"retireBytes", "reapBytes", "undoBytes"} /\ ver' = ver /\ head' = head
        /\ row' = row
        /\ pc[c] = "retireBytes" => bytes' = bytes \ {ver[Superseded(c)].blob}
        /\ pc[c] = "reapBytes" => bytes' = bytes \ {ver[row[c].version].blob}
        /\ pc[c] = "undoBytes" => bytes' = bytes \ {c}
        /\ pc[c] = "retireBytes" => pc'[c] = "retireIndex"
    BY <1>5, <1>6, <1>18 DEF RetireBytes, ReapBytes, UndoBytes, Unlink, rowVars
  <2>2. b \in bytes
    BY <2>1
  <2>3. b = c /\ Pending(c) => Pending(c)'
    BY <2>1 DEF Pending, Promoting
  <2>4. \A v \in Version : ~Walks(c, v) /\ (ver[v].blob = b => ~Sweeps(c, v))
    BY <2>1 DEF Walks, Sweeps
  <2> QED BY <1>1, <1>2, <1>3, <2>1, <2>2, <2>3, <2>4, OwedStays
<1>19. CASE DeleteHead(c)
  <2>1. /\ bytes' = bytes /\ ver' = ver /\ pc[c] = "deleteHead" /\ pc'[c] = "deleteBytes"
    BY <1>5, <1>6, <1>19 DEF DeleteHead, UpsertHead
  <2>2. \A v \in Version : ver[v].status = "active" => Listed(v)'
    BY <2>1 DEF Listed, Walks
  <2>3. \A v \in Version : Swept(v) => Swept(v)'
    <3>1. \A o \in Actor, v \in Version : Sweeps(o, v) => o # c /\ Sweeps(o, v)'
      BY <1>1, <2>1 DEF Alone, Sweeps, Superseded
    <3> QED BY <2>1, <3>1 DEF Swept
  <2>4. Pending(b) => Pending(b)'
    BY <1>1, <1>2, <2>1, Actors DEF Alone, Pending, Promoting
  <2> QED BY <1>3, <2>1, <2>2, <2>3, <2>4 DEF Owed, Listed
<1>20. CASE DeleteBytes(c)
  <2>1. /\ pc[c] = "deleteBytes" /\ ver' = ver /\ head' = head /\ b \in bytes
    BY <1>5, <1>20 DEF DeleteBytes, Unlink, rowVars
  <2>2. \A v \in Version : ver[v].status = "active" => Walks(c, v)'
    <3> SUFFICES ASSUME NEW v \in Version, ver[v].status = "active" PROVE Walks(c, v)'
      OBVIOUS
    <3>1. v \in Stored
      BY DEF Stored
    <3>2. PICK w \in Stored : Newest(w) /\ row' = [row EXCEPT ![c].version = w]
      BY <1>20, <3>1 DEF DeleteBytes
    <3>3. w >= v /\ pc'[c] = "cascade"
      BY <1>6, <1>20, <3>1, <3>2 DEF DeleteBytes, Newest, Stored, Version
    <3> QED BY <1>4, <3>2, <3>3 DEF Walks, Row
  <2> QED
    BY <1>1, <1>2, <1>3, <2>1, <2>2, OwedStays DEF Pending, Promoting, Sweeps
<1>21. CASE CascadeSkips(c) \/ CascadeBytes(c)
  <2>1. /\ pc[c] \in {"cascade", "cascadeBytes"} /\ ver' = ver /\ head' = head
        /\ pc[c] = "cascade" => ver[row[c].version].status # "active" /\ bytes' = bytes
        /\ pc[c] = "cascadeBytes" => bytes' = bytes \ {ver[row[c].version].blob}
        /\ pc'[c] = After(c) /\ row'[c].version = Later(row[c].version - 1, 1)
        /\ row[c].version \in Version
    BY <1>4, <1>5, <1>6, <1>21
    DEF CascadeSkips, CascadeBytes, Unlink, rowVars, Down, Row
  <2>2. b \in bytes
    BY <2>1
  <2>3. \A v \in Version : ver[v].status = "active" /\ Walks(c, v) => Walks(c, v)'
    <3> SUFFICES ASSUME NEW v \in Version, ver[v].status = "active", Walks(c, v)
                 PROVE  Walks(c, v)'
      OBVIOUS
    <3>1. row[c].version >= v /\ row[c].version # v
      BY <2>1 DEF Walks, Version
    <3>2. row[c].version # 1 /\ row[c].version - 1 >= v
      BY <2>1, <3>1 DEF Version
    <3>3. pc'[c] = "cascade" /\ row'[c].version >= v
      BY <2>1, <3>2 DEF After, Later, Version
    <3> QED BY <3>3 DEF Walks
  <2>4. \A v \in Version : ver[v].blob = b => ~Sweeps(c, v)
    BY <2>1 DEF Sweeps
  <2>5. ~Pending(c)
    BY <2>1 DEF Pending, Promoting
  <2> QED BY <1>1, <1>2, <1>3, <2>1, <2>2, <2>3, <2>4, <2>5, OwedStays
<1>22. CASE Crash(c)
  BY <1>5, <1>22 DEF Crash
<1> QED
  BY <1>7, <1>8, <1>9, <1>10, <1>11, <1>12, <1>13, <1>14, <1>15, <1>16, <1>17, <1>18, <1>19,
     <1>20, <1>21, <1>22 DEF Step

-----------------------------------------------------------------------------
(* Everything is filed, or its refiling is still to come.                  *)

IsFiled(v) == <<v, IF v = head.version THEN head.expiry ELSE ver[v].expiry>> \in verIndex

\* c is about to refile, from a head that is no longer there: it will be noticed.
Doomed(c) == pc[c] \in {"resync", "renewIndex"} /\ head # seen[c]

\* c is about to refile v, or will be noticed.
Refiles(c, v) ==
    \/ Doomed(c)
    \/ v = head.version /\ pc[c] \in {"resync", "renewIndex"} /\ row[c].expiry # seen[c].expiry
    \/ /\ v # head.version /\ pc[c] \in {"resync", "retire"} /\ Superseded(c) = v
       /\ head # seen[c] \/ seen[c].expiry # ver[v].expiry

FiledOrSoon(v) == IsFiled(v) \/ \E c \in Actor : Refiles(c, v)

Indexed ==
    healthy /\ ~stale /\ head.status = "active" =>
        /\ head.expiry \in headIndex
        /\ \A v \in Held : FiledOrSoon(v)

LEMMA FiledStays ==
  ASSUME NEW c \in Actor, Alone(c), head' = head, NEW v \in Version, FiledOrSoon(v),
         ver'[v].expiry = ver[v].expiry,
         IsFiled(v) => IsFiled(v)',
         Refiles(c, v) => Refiles(c, v)' \/ IsFiled(v)'
  PROVE  FiledOrSoon(v)'
<1>1. \A o \in Actor \ {c} : Refiles(o, v)' = Refiles(o, v)
  BY DEF Alone, Refiles, Doomed, Superseded
<1> QED BY <1>1 DEF FiledOrSoon

\* The steps that leave the head as it is.
LEMMA SameHeadIndexed ==
  ASSUME IInv, NEW c \in Actor, Reads(c), Indexed, Step(c), healthy', ~stale',
         head' = head, head.status = "active", NEW v \in Held'
  PROVE  FiledOrSoon(v)'
<1>1. healthy /\ ~stale /\ Kept(c) /\ Alone(c)
  BY Memory, StepKeeps DEF IInv, Kept
<1>2. v \in Version /\ ver'[v].status = "active"
  BY DEF Held
<1>3. v \in Held => FiledOrSoon(v)
  BY <1>1 DEF Indexed
<1>4. /\ pc \in [Actor -> PC] /\ seen \in [Actor -> Head] /\ row \in [Actor -> Row]
      /\ ver \in [Version -> VerRow] /\ head \in Head
      /\ verIndex \in SUBSET (Version \X Expiry)
  BY TypedParts DEF IInv
<1>5. ~Fails
  BY DEF Fails
<1>6. \A next : Goto(c, next) => pc'[c] = next
  BY <1>4 DEF Goto
<1>7. pc[c] \notin Refiling => ~Refiles(c, v)
  BY DEF Refiles, Doomed, Refiling
<1>8. CASE \/ Arrive(c) \/ PutBytes(c) \/ Refused(c) \/ InsertLost(c) \/ Recover(c)
           \/ RetireBytes(c) \/ UndoBytes(c) \/ DeleteBytes(c) \/ CascadeSkips(c)
           \/ CascadeBytes(c) \/ ReapHead(c) \/ ReapBytes(c) \/ Promote(c)
  <2>1. verIndex' = verIndex /\ ver' = ver /\ pc[c] \notin Refiling
    BY <1>8
    DEF Arrive, PutBytes, Refused, InsertLost, Recover, RetireBytes, UndoBytes, DeleteBytes,
        CascadeSkips, CascadeBytes, ReapHead, ReapBytes, Promote, rowVars, Refiling
  <2>2. v \in Held /\ (IsFiled(v) => IsFiled(v)')
    BY <1>2, <2>1 DEF Held, IsFiled
  <2> QED BY <1>1, <1>2, <1>3, <1>7, <2>1, <2>2, FiledStays
<1>9. CASE CreateVersion(c) \/ InsertVersion(c)
  <2>1. PICK w \in Version : w = row[c].version
    BY <1>4 DEF Row
  <2>2. /\ pc[c] \in {"createVersion", "insert"} /\ head = seen[c]
        /\ verIndex' = verIndex \cup {<<w, row[c].expiry>>}
        /\ ver' = [ver EXCEPT ![w] =
                      [status |-> "active", expiry |-> row[c].expiry, blob |-> row[c].blob]]
    BY <1>1, <1>5, <1>9, <2>1 DEF CreateVersion, InsertVersion, InsertRow, Overtaken
  <2>3. ver'[w].expiry = row[c].expiry /\ \A u \in Version \ {w} : ver'[u] = ver[u]
    BY <1>4, <2>2
  <2>4. CASE v = w
    <3>1. w = head.version => head.expiry = row[c].expiry
      <4>1. CASE pc[c] = "createVersion"
        BY <2>2, <4>1 DEF Reads
      <4>2. CASE pc[c] = "insert"
        <5>1. row[c].version = seen[c].version + 1
          BY <4>2 DEF IInv, Placed
        <5>2. seen[c].version \in Nat
          BY <1>4 DEF Head, Version
        <5> QED BY <2>1, <2>2, <5>1, <5>2
      <4> QED BY <2>2, <4>1, <4>2
    <3>2. IsFiled(v)'
      BY <2>2, <2>3, <2>4, <3>1 DEF IsFiled
    <3> QED BY <3>2 DEF FiledOrSoon
  <2>5. CASE v # w
    <3>1. v \in Held /\ (IsFiled(v) => IsFiled(v)') /\ ver'[v].expiry = ver[v].expiry
      BY <1>2, <2>2, <2>3, <2>5 DEF Held, IsFiled
    <3> QED BY <1>1, <1>2, <1>3, <1>7, <2>2, <3>1, FiledStays DEF Refiling
  <2> QED BY <2>4, <2>5
<1>10. CASE RetireNow(c) \/ ReapRow(c)
  <2>a. pc[c] = "retire" => Superseded(c) \in Version
    BY AfterInsert DEF Promoting
  <2>1. PICK w \in Version :
           /\ pc[c] = "retire" => w = Superseded(c)
           /\ pc[c] # "retire" => w = row[c].version
    BY <1>4, <2>a DEF Row
  <2>2. /\ pc[c] \in {"retire", "reapRow"}
        /\ verIndex' = verIndex \ {<<w, ver[w].expiry>>}
        /\ ver' = [ver EXCEPT ![w].status = "deleted"]
    BY <1>5, <1>10, <2>1 DEF RetireNow, ReapRow, DeleteRow
  <2>3. v # w /\ ver'[v] = ver[v]
    BY <1>2, <1>4, <2>2 DEF VerRow
  <2>4. v \in Held /\ (IsFiled(v) => IsFiled(v)')
    BY <1>2, <2>2, <2>3 DEF Held, IsFiled
  <2>5. ~Refiles(c, v)
    <3>1. CASE pc[c] = "retire"
      BY <1>1, <1>10, <2>1, <2>3, <3>1 DEF Refiles, Doomed
    <3>2. CASE pc[c] = "reapRow"
      BY <1>7, <3>2 DEF Refiling
    <3> QED BY <2>2, <3>1, <3>2
  <2> QED BY <1>1, <1>2, <1>3, <2>3, <2>4, <2>5, FiledStays
<1>11. CASE ResyncNew(c)
  <2>1. PICK u \in Version : u = row[c].version
    BY <1>4 DEF Row
  <2>a. row[c].version = seen[c].version
    BY <1>11 DEF ResyncNew, IInv, Placed, Promoting
  <2>2. /\ pc[c] = "resync" /\ pc'[c] = "retire" /\ head = seen[c] /\ u = head.version
        /\ verIndex' = Moved(u, row[c].expiry, seen[c].expiry) /\ ver' = ver
        /\ row' = row /\ seen' = seen
    BY <1>1, <1>5, <1>6, <1>11, <2>1, <2>a DEF ResyncNew, Resync, Overtaken
  <2>3. v \in Held
    BY <1>2, <2>2 DEF Held
  <2>4. IsFiled(v) => IsFiled(v)'
    BY <2>2 DEF IsFiled, Moved
  <2>5. Refiles(c, v) => Refiles(c, v)' \/ IsFiled(v)'
    <3>1. CASE v = u
      BY <2>2, <3>1 DEF Refiles, Doomed, IsFiled, Moved
    <3>2. CASE v # u
      BY <2>2, <3>2 DEF Refiles, Doomed, Superseded
    <3> QED BY <3>1, <3>2
  <2> QED BY <1>1, <1>2, <1>3, <2>2, <2>3, <2>4, <2>5, FiledStays
<1>12. CASE RetireLater(c)
  <2>1. PICK w \in Version : w = Superseded(c) /\ w # row[c].version
    BY <1>12, AfterInsert DEF RetireLater, Promoting
  <2>a. row[c].version = seen[c].version
    BY <1>12 DEF RetireLater, IInv, Placed, Promoting
  <2>2. /\ pc[c] = "retire" /\ head = seen[c] /\ w # head.version
        /\ verIndex' = Moved(w, seen[c].expiry, ver[w].expiry) /\ ver' = ver
    BY <1>1, <1>5, <1>12, <2>1, <2>a DEF RetireLater, Resync, Overtaken
  <2>3. v \in Held
    BY <1>2, <2>2 DEF Held
  <2>4. IsFiled(v) => IsFiled(v)'
    BY <2>2 DEF IsFiled, Moved
  <2>5. Refiles(c, v) => IsFiled(v)'
    BY <2>1, <2>2 DEF Refiles, Doomed, IsFiled, Moved
  <2> QED BY <1>1, <1>2, <1>3, <2>2, <2>3, <2>4, <2>5, FiledStays
<1>13. CASE RetireSkipped(c)
  <2>1. pc[c] = "retire" /\ verIndex' = verIndex /\ ver' = ver
        /\ ver[Superseded(c)].status # "active"
    BY <1>5, <1>13 DEF RetireSkipped, rowVars
  <2>2. v \in Held /\ (IsFiled(v) => IsFiled(v)') /\ ~Refiles(c, v)
    BY <1>2, <2>1 DEF Held, IsFiled, Refiles, Doomed
  <2> QED BY <1>1, <1>2, <1>3, <2>1, <2>2, FiledStays
<1>14. CASE RetireIndex(c)
  <2>1. /\ pc[c] = "retireIndex" /\ ver' = ver /\ ver[Superseded(c)].status = "deleted"
        /\ verIndex' = verIndex \/ verIndex' = verIndex \ {<<Superseded(c), seen[c].expiry>>}
    BY <1>1, <1>14 DEF RetireIndex, Reads
  <2>2. v \in Held /\ (IsFiled(v) => IsFiled(v)')
    BY <1>2, <2>1 DEF Held, IsFiled
  <2> QED BY <1>1, <1>2, <1>3, <1>7, <2>1, <2>2, FiledStays DEF Refiling
<1>15. CASE RenewIndex(c)
  <2>1. PICK u \in Version : u = row[c].version
    BY <1>4 DEF Row
  <2>2. /\ pc[c] = "renewIndex" /\ head = seen[c] /\ u = head.version /\ ver' = ver
        /\ verIndex' = Moved(u, row[c].expiry, seen[c].expiry)
    BY <1>1, <1>5, <1>15, <2>1 DEF RenewIndex, Resync, Overtaken, Reads
  <2>3. v \in Held
    BY <1>2, <2>2 DEF Held
  <2>4. IsFiled(v) => IsFiled(v)'
    BY <2>2 DEF IsFiled, Moved
  <2>5. Refiles(c, v) => IsFiled(v)'
    BY <2>2 DEF Refiles, Doomed, IsFiled, Moved
  <2> QED BY <1>1, <1>2, <1>3, <2>2, <2>3, <2>4, <2>5, FiledStays
<1>16. CASE ReapVersion(c)
  <2>1. pc[c] = "idle" /\ ver' = ver
    BY <1>16 DEF ReapVersion
  <2>2. v \in Held
    BY <1>2, <2>1 DEF Held
  <2>3. IsFiled(v) => IsFiled(v)'
    <3> DEFINE entry == <<v, IF v = head.version THEN head.expiry ELSE ver[v].expiry>>
    <3> SUFFICES ASSUME entry \in verIndex PROVE entry \in verIndex'
      BY <2>1 DEF IsFiled
    <3>1. PICK other \in verIndex :
             \/ /\ \/ ver[other[1]].status # "active"
                   \/ (IF Current(other[1]) THEN head.expiry ELSE ver[other[1]].expiry) # other[2]
                /\ verIndex' = verIndex \ {other}
             \/ verIndex' = verIndex
      BY <1>16 DEF ReapVersion
    <3>2. other = entry => verIndex' = verIndex
      BY <1>2, <2>1, <3>1 DEF Current
    <3> QED BY <3>1, <3>2
  <2> QED BY <1>1, <1>2, <1>3, <1>7, <2>1, <2>2, <2>3, FiledStays DEF Refiling
<1>17. CASE \/ CascadeRow(c) \/ CreateHead(c) \/ RenewHead(c) \/ DeleteHead(c)
  <2>1. CASE CascadeRow(c)
    BY <1>1, <2>1 DEF CascadeRow, Overtaken, IInv, Placed, Deleting
  <2>2. CASE CreateHead(c)
    <3>1. head = seen[c] /\ seen[c].status = "absent"
      BY <1>1, <2>2 DEF CreateHead, Overtaken, IInv, Placed, Early
    <3> QED BY <3>1
  <2>3. CASE RenewHead(c)
    <3>1. pc[c] = "renew" /\ ver' = ver /\ verIndex' = verIndex
      BY <2>3 DEF RenewHead
    <3>2. v \in Held /\ (IsFiled(v) => IsFiled(v)')
      BY <1>2, <3>1 DEF Held, IsFiled
    <3> QED BY <1>1, <1>2, <1>3, <1>7, <3>1, <3>2, FiledStays DEF Refiling
  <2>4. CASE DeleteHead(c)
    BY <1>4, <1>5, <2>4 DEF DeleteHead, UpsertHead, Head
  <2> QED BY <1>17, <2>1, <2>2, <2>3, <2>4
<1>18. CASE Crash(c)
  BY <1>5, <1>18 DEF Crash
<1> QED
  BY <1>8, <1>9, <1>10, <1>11, <1>12, <1>13, <1>14, <1>15, <1>16, <1>17, <1>18 DEF Step

\* The head is filed under its expiry.
LEMMA HeadStaysFiled ==
  ASSUME IInv, NEW c \in Actor, Reads(c), Indexed, Step(c), healthy', ~stale',
         head'.status = "active"
  PROVE  head'.expiry \in headIndex'
<1>1. healthy /\ ~stale
  BY Memory DEF IInv
<1>2. head \in Head /\ seen[c] \in Head /\ ~Fails
  BY TypedParts DEF IInv, Fails
<1>3. CASE CreateHead(c) \/ Promote(c) \/ RenewHead(c)
  <2>1. PICK new : head' = new /\ headIndex' = Filed(new)
    BY <1>2, <1>3 DEF CreateHead, Promote, RenewHead, UpsertHead
  <2> QED BY <2>1 DEF Filed
<1>4. CASE DeleteHead(c)
  BY <1>2, <1>4 DEF DeleteHead, UpsertHead, Head
<1>5. CASE ~(CreateHead(c) \/ Promote(c) \/ RenewHead(c) \/ DeleteHead(c))
  <2>1. head' = head
    BY <1>5, HeadMoves
  <2>2. head.expiry \in headIndex
    BY <1>1, <2>1 DEF Indexed
  <2>3. CASE ReapHead(c)
    BY <2>1, <2>2, <2>3 DEF ReapHead
  <2>4. CASE ~ReapHead(c)
    BY <1>5, <2>1, <2>2, <2>4
    DEF Step, Arrive, PutBytes, Refused, CreateVersion, InsertVersion, InsertLost, Recover,
        ResyncNew, RetireSkipped, RetireLater, RetireNow, RetireBytes, RetireIndex, UndoBytes,
        RenewIndex, DeleteBytes, CascadeRow, CascadeSkips, CascadeBytes, ReapVersion, ReapRow,
        ReapBytes, Crash, rowVars
  <2> QED BY <2>3, <2>4
<1> QED BY <1>3, <1>4, <1>5

\* A head that is replaced leaves whoever was to refile from it doomed.
LEMMA NewHeadIndexed ==
  ASSUME IInv, NEW c \in Actor, Reads(c), Ordered, Indexed, Step(c), healthy', ~stale',
         head' # head, head'.status = "active", NEW v \in Held'
  PROVE  FiledOrSoon(v)'
<1>1. healthy /\ ~stale /\ Kept(c) /\ Alone(c)
  BY Memory, StepKeeps DEF IInv, Kept
<1>2. /\ pc \in [Actor -> PC] /\ seen \in [Actor -> Head] /\ row \in [Actor -> Row]
      /\ head \in Head /\ ~Fails
  BY TypedParts DEF IInv, Fails
<1>3. v \in Version /\ ver'[v].status = "active"
  BY DEF Held
<1>4. CASE head.status = "absent"
  <2>1. ver' = ver
    BY <1>4, HeadMoves, <1>2, <1>1 DEF CreateHead, Promote, RenewHead, DeleteHead
  <2> QED BY <1>3, <1>4, <2>1 DEF IInv, Unborn, Absent
<1>5. CASE head.status # "absent"
  <2>1. /\ Before(head, head') /\ head.status = "active" /\ head = seen[c] /\ head' = seen'[c]
        /\ Promote(c) \/ RenewHead(c)
    BY <1>5, HeadMoves
  <2>2. /\ verIndex' = verIndex /\ ver' = ver /\ pc[c] \notin Refiling
    BY <2>1 DEF Promote, RenewHead, Refiling
  <2>3. v \in Held /\ FiledOrSoon(v)
    BY <1>1, <1>3, <2>1, <2>2 DEF Held, Indexed
  <2>4. /\ head'.version \in Nat /\ head'.expiry \in Nat
        /\ \A o \in Actor : seen[o].version \in Nat /\ seen[o].expiry \in Nat
        /\ head.version \in Nat /\ head.expiry \in Nat
    <3>1. head' \in Head
      BY <1>1 DEF Kept, IInv, TypeOK
    <3> QED BY <1>2, <3>1 DEF Head, Version, Expiry
  \* Nobody is about to refile from the new head.
  <2>5. \A o \in Actor \ {c} : pc[o] \in Refiling =>
           /\ seen'[o] = seen[o] /\ seen'[o] # head' /\ ~Before(head, seen[o])
           /\ pc'[o] = pc[o] /\ Superseded(o)' = Superseded(o)
    BY <1>1, <2>1, <2>4 DEF Ordered, Before, Alone, Superseded
  <2>6. ASSUME NEW o \in Actor, Refiles(o, v), pc[o] \in {"resync", "renewIndex"}
        PROVE  FiledOrSoon(v)'
    BY <2>2, <2>5, <2>6 DEF Doomed, Refiles, Refiling, FiledOrSoon
  <2>7. ASSUME NEW o \in Actor, Refiles(o, v), pc[o] = "retire", v # head'.version
        PROVE  FiledOrSoon(v)'
    BY <2>2, <2>5, <2>7 DEF Doomed, Refiles, Refiling, FiledOrSoon
  <2>8. CASE RenewHead(c)
    <3>1. /\ pc'[c] = "renewIndex" /\ row'[c].expiry = seen[c].expiry
          /\ head'.version = head.version
      BY <1>2, <2>1, <2>8 DEF RenewHead, UpsertHead, Goto, Row, Head
    <3>2. CASE v = head.version
      <4>1. row'[c].expiry # seen'[c].expiry
        BY <2>1, <2>4, <3>1 DEF Before
      <4> QED BY <3>1, <3>2, <4>1 DEF Refiles, FiledOrSoon
    <3>3. CASE v # head.version
      <4>1. IsFiled(v) => IsFiled(v)'
        BY <2>2, <3>1, <3>3 DEF IsFiled
      <4>2. \A o \in Actor : Refiles(o, v) => pc[o] \in {"resync", "renewIndex", "retire"}
        BY DEF Refiles, Doomed
      <4> QED BY <2>3, <2>6, <2>7, <3>1, <3>3, <4>1, <4>2 DEF FiledOrSoon
    <3> QED BY <3>2, <3>3
  <2>9. CASE Promote(c)
    <3>1. /\ pc[c] = "promote" /\ pc'[c] = "resync" /\ row' = row
          /\ head'.version = row[c].version /\ head'.expiry = head.expiry
          /\ seen'[c].expiry = head.expiry
      BY <1>2, <2>1, <2>9 DEF Promote, UpsertHead, Goto, Promoted, Head
    <3>2. row[c].version = head.version + 1 /\ Superseded(c)' = head.version
          /\ row[c].expiry = ver[row[c].version].expiry
      BY <2>1, <2>4, <3>1 DEF IInv, Placed, Reads, Superseded
    <3>3. CASE v = row[c].version
      <4>1. CASE row[c].expiry # head.expiry
        BY <3>1, <3>3, <4>1 DEF Refiles, FiledOrSoon
      <4>2. CASE row[c].expiry = head.expiry
        <5>1. v # head.version /\ (IsFiled(v) => IsFiled(v)')
          BY <2>2, <2>4, <3>1, <3>2, <3>3, <4>2 DEF IsFiled
        <5>2. ASSUME NEW o \in Actor, Refiles(o, v), pc[o] = "retire" PROVE FALSE
          <6>1. Superseded(o) = v /\ pc[o] \in Refiling /\ pc[o] \in Promoting
            BY <5>2 DEF Refiles, Doomed, Refiling, Promoting
          <6>2. row[o].version = seen[o].version
            BY <5>2 DEF IInv, Placed, Promoting
          <6>3. seen[o].version = v + 1
            BY <2>4, <6>1, <6>2 DEF Superseded
          <6> QED BY <2>2, <2>4, <2>5, <3>2, <3>3, <6>1, <6>3 DEF Before
        <5>3. \A o \in Actor : Refiles(o, v) => pc[o] \in {"resync", "renewIndex", "retire"}
          BY DEF Refiles, Doomed
        <5> QED BY <2>3, <2>6, <5>1, <5>2, <5>3 DEF FiledOrSoon
      <4> QED BY <4>1, <4>2
    <3>4. CASE v = head.version
      <4>1. v # head'.version
        BY <2>4, <3>1, <3>2, <3>4
      <4>2. CASE ver[v].expiry # head.expiry
        BY <2>2, <3>1, <3>2, <3>4, <4>1, <4>2 DEF Refiles, FiledOrSoon
      <4>3. CASE ver[v].expiry = head.expiry
        <5>1. IsFiled(v) => IsFiled(v)'
          BY <2>2, <3>4, <4>1, <4>3 DEF IsFiled
        <5>2. \A o \in Actor : Refiles(o, v) => pc[o] \in {"resync", "renewIndex", "retire"}
          BY DEF Refiles, Doomed
        <5> QED BY <2>3, <2>6, <2>7, <4>1, <5>1, <5>2 DEF FiledOrSoon
      <4> QED BY <4>2, <4>3
    <3>5. CASE v # row[c].version /\ v # head.version
      <4>1. IsFiled(v) => IsFiled(v)'
        BY <2>2, <3>1, <3>5 DEF IsFiled
      <4>2. \A o \in Actor : Refiles(o, v) => pc[o] \in {"resync", "renewIndex", "retire"}
        BY DEF Refiles, Doomed
      <4> QED BY <2>3, <2>6, <2>7, <3>1, <3>5, <4>1, <4>2 DEF FiledOrSoon
    <3> QED BY <3>3, <3>4, <3>5
  <2> QED BY <2>1, <2>8, <2>9
<1> QED BY <1>4, <1>5

LEMMA IndexedStep ==
  ASSUME IInv, NEW c \in Actor, Reads(c), Ordered, Indexed, Step(c)
  PROVE  Indexed'
<1> SUFFICES ASSUME healthy', ~stale', head'.status = "active"
             PROVE  head'.expiry \in headIndex' /\ \A v \in Held' : FiledOrSoon(v)'
  BY DEF Indexed
<1>1. head'.expiry \in headIndex'
  BY HeadStaysFiled
<1>2. ASSUME NEW v \in Held' PROVE FiledOrSoon(v)'
  BY <1>2, SameHeadIndexed, NewHeadIndexed
<1> QED BY <1>1, <1>2

-----------------------------------------------------------------------------
(* What follows while nothing has failed.                                  *)

Keeping == (\A c \in Actor : Reads(c)) /\ Ordered /\ Accounted /\ Indexed

LEMMA InitKeeping == Init => Keeping
<1> SUFFICES ASSUME Init PROVE Keeping
  OBVIOUS
<1>1. \A c \in Actor : pc[c] \in {"create", "idle"}
  BY DEF Init
<1>2. \A c \in Actor : Reads(c)
  BY <1>1 DEF Reads, Living
<1>3. Ordered /\ Accounted /\ Indexed
  BY <1>1 DEF Init, NoHead, Ordered, Refiling, Accounted, Indexed
<1> QED BY <1>2, <1>3 DEF Keeping

LEMMA TickKeeping ==
  ASSUME IInv, Keeping, Tick
  PROVE  Keeping'
<1>1. \A c \in Actor : Reads(c)'
  <2>1. MaxExpiry' = MaxExpiry + 1 /\ MaxExpiry \in Int
    BY TypedParts, TermAssumption DEF IInv, Tick, MaxExpiry
  <2>2. \A c \in Actor : seen[c].expiry \in Int
    BY TypedParts DEF IInv, Head, Expiry
  <2> QED
    BY <2>1, <2>2 DEF Keeping, Reads, Tick, rowVars, histVars, Superseded
<1>2. Ordered'
  BY DEF Keeping, Ordered, Tick, rowVars, histVars, Before
<1>3. Accounted'
  BY DEF Keeping, Accounted, Owed, Pending, Listed, Swept, Walks, Sweeps, Superseded,
         Tick, rowVars, histVars
<1>4. Indexed'
  BY DEF Keeping, Indexed, FiledOrSoon, IsFiled, Refiles, Doomed, Superseded, Held,
         Tick, rowVars, histVars
<1> QED BY <1>1, <1>2, <1>3, <1>4 DEF Keeping

LEMMA StepKeeping ==
  ASSUME IInv, Keeping, NEW c \in Actor, Step(c)
  PROVE  Keeping'
<1>1. \A o \in Actor : Reads(o)'
  BY StepKeeps, Memory, OthersRead, ReadsStep DEF Keeping, IInv
<1> QED BY <1>1, OrderedStep, AccountedStep, IndexedStep DEF Keeping

\* While nothing fails, every blob is owed to somebody and every version is
\* filed or about to be.
THEOREM BooksKept == Spec => []Keeping
<1>1. IInv /\ Keeping /\ [Next]_vars => Keeping'
  <2> SUFFICES ASSUME IInv, Keeping, [Next]_vars PROVE Keeping'
    OBVIOUS
  <2>1. CASE Next
    BY <2>1, StepKeeping, TickKeeping DEF Next
  <2>2. CASE UNCHANGED vars
    BY <2>2
    DEF vars, rowVars, histVars, Keeping, Reads, MaxExpiry, Superseded, Ordered, Before,
        Accounted, Owed, Pending, Listed, Swept, Walks, Sweeps, Indexed, FiledOrSoon,
        IsFiled, Refiles, Doomed, Held
  <2> QED BY <2>1, <2>2
<1> QED BY <1>1, InitKeeping, InvariantHolds, PTL DEF Spec

\* NothingLeaks: without faults, once the requests have ended, what is on disk
\* is an active version of an active head, whatever races they ran.
THEOREM NoOrphanedBytes == Spec => []NothingLeaks
<1>1. IInv /\ Keeping => NothingLeaks
  <2> SUFFICES ASSUME IInv, Keeping, healthy, ~stale, Resting, NEW b \in bytes
               PROVE  head.status = "active" /\ \E v \in Held : ver[v].blob = b
    BY DEF NothingLeaks
  <2>1. Owed(b) /\ b \in Actor
    BY Actors DEF Keeping, Accounted, IInv, TypeOK
  <2>2. ~Pending(b) /\ \A d \in Actor, v \in Version : ~Walks(d, v) /\ ~Sweeps(d, v)
    BY <2>1 DEF Resting, Rest, Pending, Walks, Sweeps, Promoting
  <2> QED BY <2>1, <2>2 DEF Owed, Listed, Swept, Held
<1> QED BY <1>1, InvariantHolds, BooksKept, PTL

\* Findable: on the same condition the head and each of its versions is filed
\* where the reaper looks for it.
THEOREM ReaperFindsAll == Spec => []Findable
<1>1. Keeping => Findable
  <2> SUFFICES ASSUME Keeping, healthy, ~stale, Resting, head.status = "active"
               PROVE  head.expiry \in headIndex /\ \A v \in Held : IsFiled(v)
    BY DEF Findable, IsFiled
  <2>1. \A c \in Actor, v \in Held : ~Refiles(c, v)
    BY DEF Resting, Rest, Refiles, Doomed
  <2> QED BY <2>1 DEF Keeping, Indexed, FiledOrSoon
<1> QED BY <1>1, BooksKept, PTL

=============================================================================
