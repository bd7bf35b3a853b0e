-------------------------- MODULE IngestionProofs --------------------------
(***************************************************************************)
(* What the scripts guarantee for any rows, chunk size and failures.       *)
(***************************************************************************)
EXTENDS Ingestion, FiniteSetTheorems, TLAPS

Rows(t) == files[t].rows

TypesOK ==
    /\ db \in [Tables -> SUBSET Row]
    /\ indexed \in BOOLEAN
    /\ files \in [Tables -> [state : {"absent", "unreadable", "readable"}, rows : SUBSET Row]]
    /\ pc \in {"idle"} \cup Extracting \cup Restoring
    /\ rest \subseteq Row /\ done \subseteq Row
    /\ restored \in {"never", "well", "badly"}
    /\ quiet \in BOOLEAN /\ current \in BOOLEAN

\* Where the scripts are in their lists of tables.
PlaceOK ==
    /\ pc \in {"idle", "wipe"} => at = 0
    /\ pc \in {"query", "open"} => at \in 1 .. 8
    /\ pc \in {"create", "write", "insert"} => at \in 1 .. 7
    /\ pc \notin {"create", "write", "insert"} => rest = {}
    /\ pc # "write" => done = {}

\* No rows are where no readable file is, and a file is made for some.
FilesHaveRows ==
    /\ \A t \in Tables : Rows(t) # {} => files[t].state = "readable"
    /\ pc \in {"create", "write"} => rest \cup done # {}

\* A restore has filled the tables before the one it is at, and not yet those
\* after it.
FilledSoFar ==
    pc \in {"open", "insert"} =>
        /\ \A i \in 1 .. 7 : i < at => db[MAPPING[i]] = Rows(MAPPING[i])
        /\ \A i \in 1 .. 7 : i > at => db[MAPPING[i]] = {}
        /\ pc = "open" /\ at < 8 => db[MAPPING[at]] = {}
        /\ pc = "insert" => /\ db[MAPPING[at]] \cap rest = {}
                            /\ db[MAPPING[at]] \cup rest = Rows(MAPPING[at])

\* An extraction that nothing disturbed has copied the tables before the one it
\* is at, and of that one what it has not still to write.
CopiedSoFar ==
    /\ quiet => pc \in Extracting
    /\ pc \in Extracting \cup {"open", "insert"} => ~current
    /\ quiet =>
        /\ \A i \in 1 .. 7 : i < at =>
               db[DB_TABLES[i]] = {} \/ files[DB_TABLES[i]] = File(db[DB_TABLES[i]])
        /\ pc \in {"create", "write"} => done \cup rest = db[DB_TABLES[at]]

\* Keys are unique in the database, and so in every file.
UniqueKeys(t, rows) == \A r, s \in rows : Key(t, r) = Key(t, s) => r = s
KeysAreUnique ==
    /\ \A t \in Tables : UniqueKeys(t, db[t]) /\ UniqueKeys(t, Rows(t))
    /\ pc \in {"create", "write"} => UniqueKeys(DB_TABLES[at], done \cup rest)

\* A restore only passes the large table by without indices when its file has no rows.
IndicesAccounted == (pc = "open" /\ at = 8) => (indexed \/ Rows(LargeTable) = {})

IInv ==
    /\ TypesOK /\ PlaceOK /\ FilesHaveRows /\ FilledSoFar /\ CopiedSoFar
    /\ KeysAreUnique /\ IndicesAccounted

\* Only so many rows are ever stored, so that a table has a greatest key.
AllFinite ==
    /\ seq \in [Tables -> Nat]
    /\ \A t \in Tables : IsFiniteSet(db[t]) /\ IsFiniteSet(Rows(t))
    /\ IsFiniteSet(rest) /\ IsFiniteSet(done)

FInv == AllFinite /\ NextKeyIsFree

(***************************************************************************)
(* The two lists                                                           *)
(***************************************************************************)
\* Both scripts deal with every table once, a table after the one it refers to.
LEMMA Lists ==
    /\ Len(MAPPING) = 7 /\ Len(DB_TABLES) = 7
    /\ \A i \in 1 .. 7 : MAPPING[i] \in Tables /\ DB_TABLES[i] \in Tables
    /\ \A t \in Tables : \E i \in 1 .. 7 : MAPPING[i] = t
    /\ \A t \in Tables : \E i \in 1 .. 7 : DB_TABLES[i] = t
    /\ \A i, j \in 1 .. 7 : MAPPING[i] = MAPPING[j] => i = j
    /\ \A i, j \in 1 .. 7 : DB_TABLES[i] = DB_TABLES[j] => i = j
  BY DEF MAPPING, DB_TABLES, Tables

LEMMA ParentsFirst ==
    \A i \in 1 .. 7 : MAPPING[i] # Root =>
        \E j \in 1 .. 7 : j < i /\ MAPPING[j] = Parent(MAPPING[i])
  BY DEF MAPPING, Root, Parent

LEMMA LargeTableLast == MAPPING[7] = LargeTable /\ LargeTable \in Tables
  BY DEF MAPPING, LargeTable, Tables

(***************************************************************************)
(* The invariant                                                           *)
(***************************************************************************)
LEMMA InitIInv == Init => IInv
<1> SUFFICES ASSUME Init PROVE IInv
  OBVIOUS
<1> USE DEF Init
<1>1. \A t \in Tables : db[t] = {} /\ files[t] = NoFile
  OBVIOUS
<1>2. TypesOK /\ PlaceOK
  BY DEF TypesOK, PlaceOK, NoFile
<1>3. FilesHaveRows /\ KeysAreUnique
  BY <1>1 DEF FilesHaveRows, KeysAreUnique, UniqueKeys, Rows, NoFile
<1>4. FilledSoFar /\ CopiedSoFar /\ IndicesAccounted
  BY DEF FilledSoFar, CopiedSoFar, IndicesAccounted, Extracting
<1> QED
  BY <1>2, <1>3, <1>4 DEF IInv

\* Steps that change none of the rows a part of the invariant speaks of.
LEMMA InsertInv == ASSUME IInv, NEW t \in Tables, Insert(t) PROVE IInv'
<1> USE DEF IInv
<1>1. PICK id \in 1 .. MaxId[t], parent \in IF t = Root THEN {NoParent} ELSE {q.id : q \in db[Parent(t)]} :
          db' = IF Accepts(t, {[id |-> id, parent |-> parent]})
                THEN [db EXCEPT ![t] = @ \cup {[id |-> id, parent |-> parent]}] ELSE db
  BY DEF Insert
<1> DEFINE row == [id |-> id, parent |-> parent]
<1>2. /\ pc \notin Restoring /\ quiet' = FALSE /\ current' = FALSE
      /\ UNCHANGED <<indexed, files, pc, at, rest, done, restored>>
  BY DEF Insert
<1>3. row \in Row
  <2>1. MaxId[t] \in Nat /\ id \in Nat \ {0}
    BY MaxIdAssumption
  <2>2. parent \in Nat
    <3>1. CASE t = Root
      BY <3>1 DEF NoParent
    <3>2. CASE t # Root
      <4>1. Parent(t) \in Tables
        BY DEF Parent, Root, Tables
      <4> QED
        BY <3>2, <4>1 DEF TypesOK, Row
    <3> QED
      BY <3>1, <3>2
  <2> QED
    BY <2>1, <2>2 DEF Row
<1>4. /\ db' \in [Tables -> SUBSET Row]
      /\ \A u \in Tables : db'[u] = db[u] \/ (u = t /\ db'[u] = db[u] \cup {row} /\ Accepts(t, {row}))
  BY <1>1, <1>3 DEF TypesOK
<1>5. (TypesOK /\ PlaceOK /\ FilesHaveRows /\ FilledSoFar)'
  <2>1. TypesOK'
    BY <1>2, <1>4 DEF TypesOK, Extracting, Restoring
  <2>2. PlaceOK'
    BY <1>2 DEF PlaceOK
  <2>3. FilesHaveRows'
    BY <1>2 DEF FilesHaveRows, Rows
  <2>4. FilledSoFar'
    BY <1>2 DEF FilledSoFar, Restoring
  <2> QED
    BY <2>1, <2>2, <2>3, <2>4
<1>6. CopiedSoFar' /\ IndicesAccounted'
  BY <1>2 DEF CopiedSoFar, IndicesAccounted, Restoring
<1>7. KeysAreUnique'
  <2>1. ASSUME NEW u \in Tables PROVE UniqueKeys(u, db'[u])
    BY <1>4 DEF KeysAreUnique, UniqueKeys, Accepts
  <2> QED
    BY <1>2, <2>1 DEF KeysAreUnique, UniqueKeys, Rows
<1> QED
  BY <1>5, <1>6, <1>7

\* A step that leaves the database and the files alone, or only begins or ends
\* a script.
LEMMA MigrateInv == IInv /\ Migrate => IInv'
<1> SUFFICES ASSUME IInv, Migrate PROVE IInv'
  OBVIOUS
<1> USE DEF IInv, Migrate
<1>1. \A t \in Tables : db'[t] = {}
  OBVIOUS
<1>2. (TypesOK /\ PlaceOK /\ FilesHaveRows)'
  <2>1. TypesOK'
    BY DEF TypesOK, Extracting, Restoring
  <2>2. PlaceOK'
    BY DEF PlaceOK, Extracting, Restoring
  <2>3. FilesHaveRows'
    BY DEF TypesOK, PlaceOK, FilesHaveRows, Rows, Extracting, Restoring
  <2> QED
    BY <2>1, <2>2, <2>3
<1>3. (FilledSoFar /\ CopiedSoFar /\ IndicesAccounted)'
  BY DEF FilledSoFar, CopiedSoFar, IndicesAccounted, Extracting
<1>4. KeysAreUnique'
  BY <1>1 DEF KeysAreUnique, UniqueKeys, Rows
<1> QED
  BY <1>2, <1>3, <1>4

LEMMA StartInv == IInv /\ (StartExtract \/ StartRestore) => IInv'
<1> SUFFICES ASSUME IInv, StartExtract \/ StartRestore PROVE IInv'
  OBVIOUS
<1> USE DEF IInv, StartExtract, StartRestore
<1>1. (TypesOK /\ PlaceOK /\ FilesHaveRows)'
  <2>1. TypesOK'
    BY DEF TypesOK, Extracting, Restoring
  <2>2. PlaceOK'
    BY DEF PlaceOK, Extracting, Restoring
  <2>3. FilesHaveRows'
    BY DEF TypesOK, PlaceOK, FilesHaveRows, Rows, Extracting, Restoring
  <2> QED
    BY <2>1, <2>2, <2>3
<1>2. (FilledSoFar /\ CopiedSoFar /\ IndicesAccounted)'
  BY DEF FilledSoFar, CopiedSoFar, IndicesAccounted, Extracting, Restoring
<1>3. KeysAreUnique'
  BY DEF KeysAreUnique, UniqueKeys, Rows
<1> QED
  BY <1>1, <1>2, <1>3

LEMMA QueryInv == IInv /\ QueryTable => IInv'
<1> SUFFICES ASSUME IInv, QueryTable PROVE IInv'
  OBVIOUS
<1> USE Lists DEF IInv, QueryTable
<1>1. at \in 1 .. 7 /\ DB_TABLES[at] \in Tables /\ pc = "query"
  BY DEF PlaceOK
<1>2. (TypesOK /\ PlaceOK /\ FilesHaveRows)'
  <2>1. TypesOK'
    BY <1>1 DEF TypesOK, Extracting, Restoring
  <2>2. PlaceOK'
    BY <1>1 DEF PlaceOK, Extracting, Restoring
  <2>3. FilesHaveRows'
    BY <1>1 DEF TypesOK, PlaceOK, FilesHaveRows, Rows, Extracting, Restoring
  <2> QED
    BY <2>1, <2>2, <2>3
<1>3. (FilledSoFar /\ IndicesAccounted)'
  BY <1>1 DEF FilledSoFar, IndicesAccounted, Restoring
<1>4. CopiedSoFar'
  BY <1>1 DEF CopiedSoFar, Extracting, PlaceOK
<1>5. KeysAreUnique'
  BY <1>1 DEF KeysAreUnique, UniqueKeys, Rows, PlaceOK
<1> QED
  BY <1>2, <1>3, <1>4, <1>5

LEMMA OpenWriterInv == IInv /\ OpenWriter => IInv'
<1> SUFFICES ASSUME IInv, OpenWriter PROVE IInv'
  OBVIOUS
<1> USE Lists DEF IInv, OpenWriter
<1>1. at \in 1 .. 7 /\ DB_TABLES[at] \in Tables /\ pc = "create"
  BY DEF PlaceOK
<1>2. \A t \in Tables :
          files'[t] = IF t = DB_TABLES[at] THEN Unreadable ELSE files[t]
  BY DEF TypesOK
<1>3. TypesOK'
  BY <1>1 DEF TypesOK, Unreadable, Extracting
<1>4. (PlaceOK /\ FilesHaveRows)'
  BY <1>1, <1>2 DEF PlaceOK, FilesHaveRows, Rows, Unreadable
<1>5. (FilledSoFar /\ IndicesAccounted)'
  BY <1>1 DEF FilledSoFar, IndicesAccounted
<1>6. CopiedSoFar'
  BY <1>1, <1>2 DEF CopiedSoFar, Extracting
<1>7. KeysAreUnique'
  BY <1>1, <1>2 DEF KeysAreUnique, UniqueKeys, Rows, Unreadable
<1> QED
  BY <1>3, <1>4, <1>5, <1>6, <1>7

LEMMA WriteInv == IInv /\ WriteChunk => IInv'
<1> SUFFICES ASSUME IInv, WriteChunk PROVE IInv'
  OBVIOUS
<1> USE Lists DEF IInv, WriteChunk
<1>1. at \in 1 .. 7 /\ DB_TABLES[at] \in Tables /\ pc = "write"
  BY DEF PlaceOK
<1>2. PICK chunk \in SUBSET rest : chunk # {} /\ done' = done \cup chunk /\ rest' = rest \ chunk
  BY DEF Chunks, kSubset
<1>3. TypesOK'
  BY <1>1, <1>2 DEF TypesOK
<1>4. (PlaceOK /\ FilesHaveRows)'
  BY <1>1, <1>2 DEF PlaceOK, FilesHaveRows, Rows
<1>5. (FilledSoFar /\ IndicesAccounted)'
  BY <1>1 DEF FilledSoFar, IndicesAccounted
<1>6. CopiedSoFar'
  BY <1>1, <1>2 DEF CopiedSoFar, Extracting
<1>7. KeysAreUnique'
  BY <1>1, <1>2 DEF KeysAreUnique, UniqueKeys, Rows
<1> QED
  BY <1>3, <1>4, <1>5, <1>6, <1>7

\* Closing the file, with all the rows of the table or with those before an error.
LEMMA CloseFileInv == IInv /\ (CloseFile \/ ExtractRaises) => IInv'
<1> SUFFICES ASSUME IInv, CloseFile \/ ExtractRaises PROVE IInv'
  OBVIOUS
<1> USE Lists DEF IInv
<1>1. CASE pc # "write"
  <2>1. /\ pc \in Extracting /\ pc' = "idle" /\ at' = 0 /\ rest' = {} /\ done' = {} /\ quiet' = FALSE
        /\ UNCHANGED <<db, indexed, files, restored, current>>
    BY <1>1 DEF CloseFile, ExtractRaises, Idle
  <2>2. (TypesOK /\ PlaceOK /\ FilesHaveRows)'
    <3>1. TypesOK'
      BY <2>1 DEF TypesOK, Extracting, Restoring
    <3>2. PlaceOK'
      BY <2>1 DEF PlaceOK, Extracting, Restoring
    <3>3. FilesHaveRows'
      BY <2>1 DEF TypesOK, PlaceOK, FilesHaveRows, Rows, Extracting, Restoring
    <3> QED
      BY <3>1, <3>2, <3>3
  <2>3. (FilledSoFar /\ CopiedSoFar /\ IndicesAccounted)'
    BY <2>1 DEF FilledSoFar, CopiedSoFar, IndicesAccounted, Extracting, Restoring
  <2>4. KeysAreUnique'
    BY <2>1 DEF KeysAreUnique, UniqueKeys, Rows
  <2> QED
    BY <2>2, <2>3, <2>4
<1>2. CASE pc = "write"
  <2>1. at \in 1 .. 7 /\ DB_TABLES[at] \in Tables /\ pc = "write"
    BY <1>2 DEF PlaceOK
  <2>2. /\ done' = {} /\ rest' = {} /\ UNCHANGED <<db, indexed, restored, current>>
        /\ files' = [files EXCEPT ![DB_TABLES[at]] = File(done)]
    BY <1>2 DEF CloseFile, ExtractRaises, Idle
  <2>3. \A t \in Tables : files'[t] = IF t = DB_TABLES[at] THEN File(done) ELSE files[t]
    BY <2>2 DEF TypesOK
  <2>4. \/ pc' = "idle" /\ at' = 0 /\ quiet' = FALSE
        \/ pc' = "query" /\ at' = at + 1 /\ rest = {} /\ quiet' = quiet
    BY DEF CloseFile, ExtractRaises, Idle
  <2>5. TypesOK'
    <3>1. files' \in [Tables -> [state : {"absent", "unreadable", "readable"}, rows : SUBSET Row]]
      BY <2>1, <2>2 DEF TypesOK, File
    <3>2. pc' \in {"idle"} \cup Extracting \cup Restoring /\ quiet' \in BOOLEAN
      BY <2>4 DEF TypesOK, Extracting
    <3>3. rest' \subseteq Row /\ done' \subseteq Row
      BY <2>2
    <3> QED
      BY <2>2, <3>1, <3>2, <3>3 DEF TypesOK
  <2>6. (PlaceOK /\ FilesHaveRows)'
    BY <1>2, <2>1, <2>2, <2>3, <2>4 DEF PlaceOK, FilesHaveRows, Rows, File
  <2>7. (FilledSoFar /\ IndicesAccounted)'
    BY <2>1, <2>2, <2>3, <2>4, LargeTableLast
    DEF FilledSoFar, IndicesAccounted, Restoring, File
  <2>8. CopiedSoFar'
    <3>1. CASE pc' = "idle" /\ at' = 0 /\ quiet' = FALSE
      BY <2>1, <2>2, <3>1 DEF CopiedSoFar, Extracting
    <3>2. CASE pc' = "query" /\ at' = at + 1 /\ rest = {} /\ quiet' = quiet
      <4>1. ~current' /\ (quiet' => quiet)
        BY <2>1, <2>2, <3>2 DEF CopiedSoFar, Extracting
      <4>2. ASSUME quiet', NEW i \in 1 .. 7, i < at'
            PROVE db'[DB_TABLES[i]] = {} \/ files'[DB_TABLES[i]] = File(db'[DB_TABLES[i]])
        <5>1. CASE i < at
          BY <2>1, <2>2, <2>3, <4>1, <4>2, <5>1 DEF CopiedSoFar
        <5>2. CASE i = at
          BY <2>1, <2>2, <2>3, <3>2, <4>1, <4>2, <5>2 DEF CopiedSoFar
        <5> QED
          BY <2>1, <3>2, <4>2, <5>1, <5>2
      <4> QED
        BY <3>2, <4>1, <4>2 DEF CopiedSoFar, Extracting
    <3> QED
      BY <2>4, <3>1, <3>2
  <2>9. KeysAreUnique'
    BY <2>1, <2>2, <2>3, <2>4 DEF KeysAreUnique, UniqueKeys, Rows, File
  <2> QED
    BY <2>5, <2>6, <2>7, <2>8, <2>9
<1> QED
  BY <1>1, <1>2

LEMMA FinishExtractInv == IInv /\ (FinishExtract \/ ExtractIsKilled) => IInv'
<1> SUFFICES ASSUME IInv, FinishExtract \/ ExtractIsKilled PROVE IInv'
  OBVIOUS
<1> USE DEF IInv, FinishExtract, ExtractIsKilled, Idle
<1>1. (TypesOK /\ PlaceOK /\ FilesHaveRows)'
  <2>1. TypesOK'
    BY DEF TypesOK, Extracting, Restoring
  <2>2. PlaceOK'
    BY DEF PlaceOK, Extracting, Restoring
  <2>3. FilesHaveRows'
    BY DEF TypesOK, PlaceOK, FilesHaveRows, Rows, Extracting, Restoring
  <2> QED
    BY <2>1, <2>2, <2>3
<1>2. (FilledSoFar /\ CopiedSoFar /\ IndicesAccounted)'
  BY DEF FilledSoFar, CopiedSoFar, IndicesAccounted, Extracting, Restoring
<1>3. KeysAreUnique'
  BY DEF KeysAreUnique, UniqueKeys, Rows
<1> QED
  BY <1>1, <1>2, <1>3

LEMMA WipeInv == IInv /\ Wipe => IInv'
<1> SUFFICES ASSUME IInv, Wipe PROVE IInv'
  OBVIOUS
<1> USE DEF IInv, Wipe
<1>1. \A t \in Tables : db'[t] = {}
  OBVIOUS
<1>2. (TypesOK /\ PlaceOK /\ FilesHaveRows)'
  <2>1. TypesOK'
    BY DEF TypesOK, Extracting, Restoring
  <2>2. PlaceOK'
    BY DEF PlaceOK, Extracting, Restoring
  <2>3. FilesHaveRows'
    BY DEF TypesOK, PlaceOK, FilesHaveRows, Rows, Extracting, Restoring
  <2> QED
    BY <2>1, <2>2, <2>3
<1>3. (FilledSoFar /\ CopiedSoFar /\ IndicesAccounted)'
  BY <1>1, Lists DEF FilledSoFar, CopiedSoFar, IndicesAccounted, Extracting, Restoring
<1>4. KeysAreUnique'
  BY <1>1 DEF KeysAreUnique, UniqueKeys, Rows
<1> QED
  BY <1>2, <1>3, <1>4

LEMMA OpenInv == IInv /\ OpenFile => IInv'
<1> SUFFICES ASSUME IInv, OpenFile PROVE IInv'
  OBVIOUS
<1> USE Lists DEF IInv, OpenFile
<1> DEFINE t == MAPPING[at]
<1>1. at \in 1 .. 7 /\ t \in Tables /\ pc = "open"
  BY DEF PlaceOK
<1>2. UNCHANGED <<db, files, done, restored, quiet, current>> /\ ~quiet
  BY <1>1 DEF CopiedSoFar, Extracting
<1>3. \/ Rows(t) = {} /\ at' = at + 1 /\ pc' = "open" /\ rest' = {} /\ indexed' = indexed
      \/ Rows(t) # {} /\ at' = at /\ pc' = "insert" /\ rest' = Rows(t)
         /\ indexed' = (indexed /\ t # LargeTable)
  BY <1>1 DEF Rows, PlaceOK
<1>4. indexed' \in BOOLEAN /\ (t # LargeTable => indexed' = indexed)
  BY <1>3, Zenon DEF TypesOK
<1>5. (TypesOK /\ PlaceOK /\ FilesHaveRows)'
  <2>1. TypesOK'
    BY <1>1, <1>2, <1>3, <1>4 DEF TypesOK, Rows, Restoring
  <2>2. PlaceOK'
    BY <1>1, <1>2, <1>3 DEF PlaceOK
  <2>3. FilesHaveRows'
    BY <1>2, <1>3 DEF FilesHaveRows, Rows
  <2> QED
    BY <2>1, <2>2, <2>3
<1>6. FilledSoFar'
  <2>1. db[t] = {}
    BY <1>1 DEF FilledSoFar
  <2>2. CASE Rows(t) = {}
    <3>1. UNCHANGED <<db, files>> /\ pc' = "open" /\ at' = at + 1
      BY <1>2, <1>3, <2>2
    <3>2. ASSUME NEW i \in 1 .. 7, i < at + 1 PROVE db[MAPPING[i]] = files[MAPPING[i]].rows
      <4>1. CASE i = at
        BY <2>1, <2>2, <4>1 DEF Rows
      <4>2. CASE i < at
        BY <1>1, <4>2 DEF FilledSoFar, Rows
      <4> QED
        BY <1>1, <3>2, <4>1, <4>2
    <3>3. \A i \in 1 .. 7 : i > at => db[MAPPING[i]] = {}
      BY <1>1 DEF FilledSoFar
    <3> QED
      BY <1>1, <3>1, <3>2, <3>3 DEF FilledSoFar, Rows
  <2>3. CASE Rows(t) # {}
    BY <1>1, <1>2, <1>3, <2>1, <2>3 DEF FilledSoFar, Rows
  <2> QED
    BY <2>2, <2>3
<1>7. CopiedSoFar'
  BY <1>1, <1>2, <1>3 DEF CopiedSoFar, Extracting
<1>8. IndicesAccounted'
  <2> SUFFICES ASSUME pc' = "open", at' = 8 PROVE Rows(LargeTable)' = {}
    BY DEF IndicesAccounted
  <2>1. Rows(t) = {} /\ at = 7
    BY <1>1, <1>3
  <2> QED
    BY <1>2, <2>1, LargeTableLast DEF Rows
<1>9. KeysAreUnique'
  BY <1>1, <1>2, <1>3 DEF KeysAreUnique, UniqueKeys, Rows
<1> QED
  BY <1>5, <1>6, <1>7, <1>8, <1>9

LEMMA InsertChunkInv == IInv /\ InsertChunk => IInv'
<1> SUFFICES ASSUME IInv, InsertChunk PROVE IInv'
  OBVIOUS
<1> USE Lists DEF IInv, InsertChunk
<1> DEFINE t == MAPPING[at]
<1>1. at \in 1 .. 7 /\ t \in Tables /\ pc = "insert"
  BY DEF PlaceOK
<1>2. PICK chunk \in SUBSET rest :
          Accepts(t, chunk) /\ rest' = rest \ chunk /\ db' = [db EXCEPT ![t] = @ \cup chunk]
  BY DEF Chunks, kSubset
<1>3. UNCHANGED <<indexed, files, pc, at, done, restored, quiet, current>> /\ ~quiet
  BY <1>1 DEF CopiedSoFar, Extracting
<1>4. /\ db' \in [Tables -> SUBSET Row]
      /\ \A u \in Tables : db'[u] = IF u = t THEN db[t] \cup chunk ELSE db[u]
  BY <1>1, <1>2 DEF TypesOK
<1>5. (TypesOK /\ PlaceOK /\ FilesHaveRows)'
  <2>1. TypesOK'
    BY <1>1, <1>2, <1>3, <1>4 DEF TypesOK, Extracting, Restoring
  <2>2. PlaceOK'
    BY <1>1, <1>2, <1>3, <1>4 DEF PlaceOK, Extracting, Restoring
  <2>3. FilesHaveRows'
    BY <1>1, <1>2, <1>3, <1>4 DEF TypesOK, PlaceOK, FilesHaveRows, Rows, Extracting, Restoring
  <2> QED
    BY <2>1, <2>2, <2>3
<1>6. FilledSoFar'
  BY <1>1, <1>2, <1>3, <1>4 DEF FilledSoFar, Rows
<1>7. (CopiedSoFar /\ IndicesAccounted)'
  BY <1>1, <1>3 DEF CopiedSoFar, IndicesAccounted, Extracting
<1>8. KeysAreUnique'
  <2>1. \A r \in db[t] \cup chunk : r \in Rows(t)
    BY <1>1, <1>2 DEF FilledSoFar
  <2> QED
    BY <1>1, <1>3, <1>4, <2>1 DEF KeysAreUnique, UniqueKeys, Rows
<1> QED
  BY <1>5, <1>6, <1>7, <1>8

LEMMA CloseTableInv == IInv /\ CloseTable => IInv'
<1> SUFFICES ASSUME IInv, CloseTable PROVE IInv'
  OBVIOUS
<1> USE Lists DEF IInv, CloseTable
<1>1. at \in 1 .. 7 /\ MAPPING[at] \in Tables /\ pc = "insert" /\ rest = {}
  BY DEF PlaceOK
<1>2. ~quiet
  BY <1>1 DEF CopiedSoFar, Extracting
<1>3. (TypesOK /\ PlaceOK /\ FilesHaveRows)'
  <2>1. TypesOK'
    BY <1>1 DEF TypesOK, Extracting, Restoring
  <2>2. PlaceOK'
    BY <1>1 DEF PlaceOK, Extracting, Restoring
  <2>3. FilesHaveRows'
    BY <1>1 DEF TypesOK, PlaceOK, FilesHaveRows, Rows, Extracting, Restoring
  <2> QED
    BY <2>1, <2>2, <2>3
<1>4. FilledSoFar'
  BY <1>1 DEF FilledSoFar, Rows
<1>5. CopiedSoFar'
  BY <1>1, <1>2 DEF CopiedSoFar, Extracting
<1>6. IndicesAccounted'
  <2>1. MAPPING[at] = LargeTable => indexed'
    BY Zenon
  <2>2. at' = 8 => at = 7
    BY <1>1
  <2> QED
    BY <2>1, <2>2, LargeTableLast DEF IndicesAccounted
<1>7. KeysAreUnique'
  BY <1>1 DEF KeysAreUnique, UniqueKeys, Rows
<1> QED
  BY <1>3, <1>4, <1>5, <1>6, <1>7

LEMMA EndRestoreInv == IInv /\ (SetSequences \/ RestoreFails) => IInv'
<1> SUFFICES ASSUME IInv, SetSequences \/ RestoreFails PROVE IInv'
  OBVIOUS
<1> USE DEF IInv
<1>1. /\ pc \in Restoring /\ pc' = "idle" /\ at' = 0 /\ rest' = {} /\ done' = {} /\ quiet' = FALSE
      /\ UNCHANGED <<db, indexed, files, current>>
      /\ restored' \in {"well", "badly"}
  BY DEF SetSequences, RestoreFails, Idle, Restoring
<1>2. (TypesOK /\ PlaceOK /\ FilesHaveRows)'
  <2>1. TypesOK'
    BY <1>1 DEF TypesOK, Extracting, Restoring
  <2>2. PlaceOK'
    BY <1>1 DEF PlaceOK, Extracting, Restoring
  <2>3. FilesHaveRows'
    BY <1>1 DEF TypesOK, PlaceOK, FilesHaveRows, Rows, Extracting, Restoring
  <2> QED
    BY <2>1, <2>2, <2>3
<1>3. (FilledSoFar /\ CopiedSoFar)'
  BY <1>1 DEF FilledSoFar, CopiedSoFar, Extracting
<1>4. IndicesAccounted'
  BY <1>1, Lists DEF IndicesAccounted, SetSequences, RestoreFails, PlaceOK, Idle
<1>5. KeysAreUnique'
  BY <1>1 DEF KeysAreUnique, UniqueKeys, Rows
<1> QED
  BY <1>2, <1>3, <1>4, <1>5

LEMMA StutterInv == IInv /\ UNCHANGED vars => IInv'
<1> SUFFICES ASSUME IInv, UNCHANGED vars PROVE IInv'
  OBVIOUS
<1> USE DEF IInv, vars
<1>1. (TypesOK /\ PlaceOK /\ FilesHaveRows)'
  <2>1. TypesOK'
    BY DEF TypesOK, Extracting, Restoring
  <2>2. PlaceOK'
    BY DEF PlaceOK, Extracting, Restoring
  <2>3. FilesHaveRows'
    BY DEF TypesOK, PlaceOK, FilesHaveRows, Rows, Extracting, Restoring
  <2> QED
    BY <2>1, <2>2, <2>3
<1>2. (FilledSoFar /\ CopiedSoFar /\ IndicesAccounted)'
  BY DEF FilledSoFar, CopiedSoFar, IndicesAccounted, Rows
<1>3. KeysAreUnique'
  BY DEF KeysAreUnique, UniqueKeys, Rows
<1> QED
  BY <1>1, <1>2, <1>3

LEMMA SpecIInv == Spec => []IInv
<1>1. IInv /\ [Next]_vars => IInv'
  BY InsertInv, MigrateInv, StartInv, QueryInv, OpenWriterInv, WriteInv, CloseFileInv,
     FinishExtractInv, WipeInv, OpenInv, InsertChunkInv, CloseTableInv, EndRestoreInv, StutterInv DEF Next
<1> QED
  BY <1>1, InitIInv, PTL DEF Spec

(***************************************************************************)
(* What follows from it                                                    *)
(***************************************************************************)
\* A restore that gets to its end has put back what the files hold and nothing
\* else, whatever state the database was in.
THEOREM RestoresAreComplete == Spec => []RestoreIsComplete
<1>1. IInv => RestoreIsComplete
  BY Lists DEF IInv, RestoreIsComplete, FilledSoFar, PlaceOK, Rows
<1> QED
  BY <1>1, SpecIInv, PTL

\* Files that obey the foreign keys are never rejected by the database.
THEOREM ClosedFilesGoThrough == Spec => []ClosedFilesAreAccepted
<1>1. IInv => ClosedFilesAreAccepted
  <2> SUFFICES ASSUME IInv, pc = "insert", FilesAreClosed PROVE Accepts(MAPPING[at], rest)
    BY DEF ClosedFilesAreAccepted
  <2> DEFINE t == MAPPING[at]
  <2>1. at \in 1 .. 7 /\ t \in Tables
    BY Lists DEF IInv, PlaceOK
  <2>2. /\ db[t] \cap rest = {} /\ db[t] \cup rest = Rows(t)
        /\ \A i \in 1 .. 7 : i < at => db[MAPPING[i]] = Rows(MAPPING[i])
    BY DEF IInv, FilledSoFar
  <2>3. \A row \in rest : \A old \in db[t] : Key(t, row) # Key(t, old)
    BY <2>1, <2>2 DEF IInv, KeysAreUnique, UniqueKeys
  <2>4. ASSUME t # Root, NEW row \in rest PROVE \E q \in db[Parent(t)] : q.id = row.parent
    <3>1. db[Parent(t)] = Rows(Parent(t))
      BY <2>1, <2>2, <2>4, ParentsFirst
    <3> QED
      BY <2>1, <2>2, <2>4, <3>1 DEF FilesAreClosed, Rows
  <2> QED
    BY <2>3, <2>4 DEF Accepts
<1> QED
  BY <1>1, SpecIInv, PTL

\* An extraction that nothing disturbed leaves the database's rows in the files,
\* however large the tables and the chunks, and they stay so until a row is
\* inserted, a script begins or another database is set.
THEOREM ExtractionsAreFaithful == Spec => []ExtractIsFaithful
<1>1. Init => ExtractIsFaithful
  BY DEF Init, ExtractIsFaithful
<1>2. ASSUME IInv, ExtractIsFaithful, [Next]_vars PROVE ExtractIsFaithful'
  <2>1. CASE FinishExtract
    <3> SUFFICES ASSUME current', NEW t \in Tables PROVE db[t] = {} \/ files[t] = File(db[t])
      BY <2>1 DEF FinishExtract, ExtractIsFaithful
    <3>1. quiet /\ pc = "query" /\ at = 8
      <4>1. at \in 1 .. 8 /\ at > 7
        BY <1>2, <2>1, Lists DEF FinishExtract, IInv, PlaceOK
      <4> QED
        BY <2>1, <4>1 DEF FinishExtract
    <3>2. PICK i \in 1 .. 7 : DB_TABLES[i] = t
      BY Lists
    <3> QED
      BY <1>2, <3>1, <3>2 DEF IInv, CopiedSoFar
  <2>2. CASE \/ \E t \in Tables : Insert(t)
             \/ Migrate \/ StartExtract \/ Wipe
    BY <2>2 DEF Insert, Migrate, StartExtract, Wipe, ExtractIsFaithful
  <2>3. CASE \/ QueryTable \/ OpenWriter \/ WriteChunk \/ CloseFile \/ ExtractRaises
             \/ ExtractIsKilled
             \/ OpenFile \/ InsertChunk \/ CloseTable
    <3>1. pc \in Extracting \cup {"open", "insert"} /\ UNCHANGED current
      BY <2>3 DEF QueryTable, OpenWriter, WriteChunk, CloseFile, ExtractRaises,
                  ExtractIsKilled, OpenFile, InsertChunk, CloseTable, Extracting
    <3> QED
      BY <1>2, <3>1 DEF IInv, CopiedSoFar, ExtractIsFaithful
  <2>4. CASE StartRestore \/ SetSequences \/ RestoreFails \/ UNCHANGED vars
    BY <1>2, <2>4 DEF StartRestore, SetSequences, RestoreFails, vars, ExtractIsFaithful
  <2> QED
    BY <1>2, <2>1, <2>2, <2>3, <2>4 DEF Next
<1> QED
  BY <1>1, <1>2, SpecIInv, PTL DEF Spec

\* No succession of failed restores leaves one that comes to its end with rows in the
\* large table and no indices.
THEOREM IndicesReturn == Spec => []IndicesComeBack
<1>1. IInv => IndicesComeBack
  <2> SUFFICES ASSUME IInv, pc = "open", at > 7 PROVE indexed \/ db[LargeTable] = {}
    BY Lists DEF IndicesComeBack
  <2>1. at = 8
    BY DEF IInv, PlaceOK
  <2>2. db[LargeTable] = Rows(LargeTable)
    BY <2>1, LargeTableLast DEF IInv, FilledSoFar
  <2> QED
    BY <2>1, <2>2 DEF IInv, IndicesAccounted
<1> QED
  BY <1>1, SpecIInv, PTL

\* A restore that ends well is whole, after any number that did not, and whatever an
\* extraction that raised left in the files (restore_database: deletion, chunks,
\* indices and sequences are committed one by one).
THEOREM RestoresAreWhole == Spec => []RestoreIsWhole
<1>1. RestoreIsComplete /\ IndicesComeBack => RestoreIsWhole
  BY DEF RestoreIsWhole
<1> QED
  BY <1>1, RestoresAreComplete, IndicesReturn, PTL

\* Tables, files and the scripts' own state keep their types; outside the loop over
\* chunks no rows are under way.
THEOREM TypeCorrect == Spec => []TypeOK
<1>1. IInv => TypeOK
  BY Lists DEF IInv, TypesOK, PlaceOK, TypeOK, Extracting, Restoring
<1> QED
  BY <1>1, SpecIInv, PTL

(***************************************************************************)
(* Keys and sequences                                                      *)
(***************************************************************************)
\* A finite set of integers that has an element has a greatest one, the one that
\* has the fewest elements above it.
LEMMA MaxExists ==
    ASSUME NEW S \in SUBSET Int, IsFiniteSet(S), S # {}
    PROVE  Max(S) \in S /\ \A y \in S : Max(S) >= y
<1> DEFINE From(x) == {y \in S : y >= x}
<1> DEFINE T == {From(x) : x \in S}
<1>1. T \subseteq FiniteSubsetsOf(S) /\ T # {}
  <2>1. ASSUME NEW x \in S PROVE From(x) \in SUBSET S
    OBVIOUS
  <2>2. T \subseteq SUBSET S /\ T # {}
    BY <2>1
  <2>3. FiniteSubsetsOf(S) = SUBSET S
    BY FS_FiniteSubsetsOfFinite, Zenon
  <2> QED
    BY <2>2, <2>3
<1>2. IsWellFoundedOn(StrictSubsetOrdering(S), FiniteSubsetsOf(S))
  BY FS_StrictSubsetOrderingWellFounded, Zenon
<1>3. PICK U \in T : \A V \in T : <<V, U>> \notin StrictSubsetOrdering(S)
  <2> HIDE DEF T
  <2> QED
    BY <1>1, <1>2, WFMin, Zenon
<1>4. PICK x \in S : U = From(x)
  BY <1>3
<1>5. ASSUME NEW y \in S, y > x PROVE FALSE
  <2>1. From(y) \in T /\ From(y) \subseteq U /\ x \in U /\ x \notin From(y)
    <3>1. y \in Int /\ x \in Int /\ \A z \in S : z \in Int
      OBVIOUS
    <3>2. From(y) \in T
      OBVIOUS
    <3>3. \A z \in From(y) : z >= x
      BY <1>5, <3>1
    <3>4. From(y) \subseteq U
      BY <1>4, <3>3
    <3>5. x \in U /\ x \notin From(y)
      BY <1>4, <1>5, <3>1
    <3> QED
      BY <3>2, <3>4, <3>5, Zenon
  <2>2. <<From(y), U>> \in (SUBSET S) \X (SUBSET S)
    BY <1>4
  <2> QED
    BY <1>3, <2>1, <2>2 DEF StrictSubsetOrdering
<1>6. x \in S /\ \A y \in S : x >= y
  BY <1>5
<1> QED
  BY <1>6 DEF Max

\* No row has a key beyond the one a restore gives the sequence.
LEMMA MaxKeyBounds ==
    ASSUME TypesOK, AllFinite, NEW t \in Tables
    PROVE  MaxKey(t) \in Nat /\ \A row \in db[t] : row.id <= MaxKey(t)
<1> DEFINE Ids == {row.id : row \in db[t]}
<1> DEFINE S == {0} \cup Ids
<1>1. S \in SUBSET Nat /\ S # {}
  BY DEF TypesOK, Row
<1>2. IsFiniteSet(S)
  <2>1. IsFiniteSet(Ids)
    <3> DEFINE f == [row \in db[t] |-> row.id]
    <3>1. f \in Surjection(db[t], Ids)
      BY DEF Surjection
    <3> QED
      BY <3>1, FS_Surjection DEF AllFinite
  <2>2. IsFiniteSet({0})
    BY FS_Singleton
  <2> QED
    BY <2>1, <2>2, FS_Union
<1>3. Max(S) \in S /\ \A y \in S : Max(S) >= y
  <2> HIDE DEF S
  <2> QED
    BY <1>1, <1>2, MaxExists
<1>4. MaxKey(t) = Max(S)
  BY DEF MaxKey
<1> QED
  BY <1>1, <1>3, <1>4

\* The sequences a restore has set are at their tables' greatest keys or beyond,
\* and all of them are numbers.
LEMMA RestartBounds ==
    ASSUME TypesOK, AllFinite, NEW tables \in SUBSET Tables
    PROVE  /\ Restart(tables) \in [Tables -> Nat]
           /\ \A t \in tables : HasSequence(t) =>
                  \A row \in db[t] : row.id <= Restart(tables)[t]
<1>1. \A t \in Tables : MaxKey(t) \in Nat /\ \A row \in db[t] : row.id <= MaxKey(t)
  BY MaxKeyBounds
<1> QED
  BY <1>1 DEF Restart, AllFinite

LEMMA InitFInv == Init => FInv
<1> SUFFICES ASSUME Init PROVE FInv
  OBVIOUS
<1> USE DEF Init
<1>1. IsFiniteSet({})
  BY FS_EmptySet
<1> QED
  BY <1>1 DEF FInv, AllFinite, NextKeyIsFree, Rows, NoFile

\* A row keeps to the sequence it was numbered from.
LEMMA InsertFInv == ASSUME IInv, FInv, NEW t \in Tables, Insert(t) PROVE FInv'
<1> USE DEF IInv, FInv
<1>1. PICK id \in 1 .. MaxId[t], parent \in IF t = Root THEN {NoParent} ELSE {q.id : q \in db[Parent(t)]} :
          /\ HasSequence(t) => id = seq[t] + 1
          /\ db' = IF Accepts(t, {[id |-> id, parent |-> parent]})
                   THEN [db EXCEPT ![t] = @ \cup {[id |-> id, parent |-> parent]}] ELSE db
          /\ seq' = IF HasSequence(t) THEN [seq EXCEPT ![t] = id] ELSE seq
  BY DEF Insert
<1> DEFINE row == [id |-> id, parent |-> parent]
<1>2. UNCHANGED <<files, rest, done, restored, pc>>
  BY DEF Insert
<1>3. id \in Nat
  BY MaxIdAssumption
<1>4. \A u \in Tables : db'[u] = db[u] \/ (u = t /\ db'[u] = db[u] \cup {row})
  BY <1>1 DEF TypesOK
<1>5. /\ seq' \in [Tables -> Nat]
      /\ \A u \in Tables : seq[u] \in Nat /\ seq'[u] >= seq[u]
      /\ HasSequence(t) => seq'[t] = id
  BY <1>1, <1>3 DEF AllFinite
<1>6. AllFinite'
  <2>1. \A u \in Tables : IsFiniteSet(db'[u])
    <3>1. IsFiniteSet(db[t] \cup {row})
      BY FS_AddElement DEF AllFinite
    <3> QED
      BY <1>4, <3>1 DEF AllFinite
  <2> QED
    BY <1>2, <1>5, <2>1 DEF AllFinite, Rows
<1>7. NextKeyIsFree'
  <2> SUFFICES ASSUME pc \notin Restoring, restored # "badly", NEW u \in Tables, HasSequence(u),
                      NEW r \in db'[u]
               PROVE  r.id <= seq'[u]
    BY <1>2 DEF NextKeyIsFree
  <2>1. CASE r \in db[u]
    <3>1. r.id <= seq[u] /\ r.id \in Nat
      BY <2>1 DEF NextKeyIsFree, TypesOK, Row
    <3> QED
      BY <1>5, <3>1
  <2>2. CASE u = t /\ r = row
    BY <1>3, <1>5, <2>2
  <2> QED
    BY <1>4, <2>1, <2>2
<1> QED
  BY <1>6, <1>7

LEMMA CopyFInv ==
    IInv /\ FInv /\ (StartExtract \/ QueryTable \/ OpenWriter \/ WriteChunk \/ CloseFile
                     \/ FinishExtract \/ ExtractRaises \/ ExtractIsKilled) => FInv'
<1> SUFFICES ASSUME IInv, FInv,
                    StartExtract \/ QueryTable \/ OpenWriter \/ WriteChunk \/ CloseFile
                    \/ FinishExtract \/ ExtractRaises \/ ExtractIsKilled
             PROVE  FInv'
  OBVIOUS
<1> USE Lists DEF IInv, FInv
<1>1. UNCHANGED <<db, seq, restored>> /\ pc \notin Restoring
  BY DEF StartExtract, QueryTable, OpenWriter, WriteChunk, CloseFile, FinishExtract,
         ExtractRaises, ExtractIsKilled, Extracting, Restoring
<1>2. NextKeyIsFree'
  BY <1>1 DEF NextKeyIsFree
<1>3. IsFiniteSet({}) /\ IsFiniteSet(done) /\ IsFiniteSet(rest)
  BY FS_EmptySet DEF AllFinite
<1>4. CASE StartExtract
  BY <1>1, <1>2, <1>4 DEF StartExtract, AllFinite, Rows
<1>5. CASE QueryTable
  <2>1. at \in 1 .. 7
    BY <1>5 DEF QueryTable, PlaceOK
  <2>2. DB_TABLES[at] \in Tables
    BY <2>1
  <2>3. rest' \in {rest, db[DB_TABLES[at]]} /\ UNCHANGED <<files, done>>
    BY <1>5 DEF QueryTable
  <2> QED
    BY <1>1, <1>2, <2>2, <2>3 DEF AllFinite, Rows
<1>6. CASE WriteChunk
  <2>1. PICK chunk \in SUBSET rest : done' = done \cup chunk /\ rest' = rest \ chunk
    BY <1>6 DEF WriteChunk, Chunks, kSubset
  <2>2. IsFiniteSet(chunk) /\ IsFiniteSet(rest')
    BY <1>3, <2>1, FS_Subset, FS_Difference
  <2>3. IsFiniteSet(done')
    BY <1>3, <2>1, <2>2, FS_Union
  <2> QED
    BY <1>1, <1>2, <1>6, <2>2, <2>3 DEF WriteChunk, AllFinite, Rows
<1>7. CASE CloseFile \/ FinishExtract \/ ExtractRaises \/ ExtractIsKilled
  <2>1. rest' \in {rest, {}} /\ done' = {}
    BY <1>7 DEF CloseFile, FinishExtract, ExtractRaises, ExtractIsKilled, Idle
  <2>2. \A t \in Tables : files'[t] \in {files[t], File(done)}
    BY <1>7 DEF CloseFile, FinishExtract, ExtractRaises, ExtractIsKilled, TypesOK
  <2>3. \A t \in Tables : IsFiniteSet(files'[t].rows)
    BY <1>3, <2>2 DEF AllFinite, Rows, File
  <2>4. IsFiniteSet(rest') /\ IsFiniteSet(done')
    BY <1>3, <2>1
  <2> QED
    BY <1>1, <1>2, <2>3, <2>4 DEF AllFinite, Rows
<1>8. CASE OpenWriter
  <2>1. \A t \in Tables : files'[t] \in {files[t], Unreadable}
    BY <1>8 DEF OpenWriter, TypesOK
  <2>2. \A t \in Tables : IsFiniteSet(files'[t].rows)
    <3>1. Unreadable.rows = {}
      BY DEF Unreadable
    <3> QED
      BY <1>3, <2>1, <3>1 DEF AllFinite, Rows
  <2> QED
    BY <1>1, <1>2, <1>8, <2>2 DEF OpenWriter, AllFinite, Rows
<1> QED
  BY <1>4, <1>5, <1>6, <1>7, <1>8

LEMMA RestoreFInv ==
    IInv /\ FInv /\ (Migrate \/ StartRestore \/ Wipe \/ OpenFile \/ InsertChunk \/ CloseTable) => FInv'
<1> SUFFICES ASSUME IInv, FInv,
                    Migrate \/ StartRestore \/ Wipe \/ OpenFile \/ InsertChunk \/ CloseTable
             PROVE  FInv'
  OBVIOUS
<1> USE Lists DEF IInv, FInv
<1>1. UNCHANGED <<files, done>>
  BY DEF Migrate, StartRestore, Wipe, OpenFile, InsertChunk, CloseTable
<1>2. IsFiniteSet({})
  BY FS_EmptySet
<1>3. CASE Migrate
  BY <1>1, <1>2, <1>3 DEF Migrate, AllFinite, NextKeyIsFree, Rows
<1>4. CASE StartRestore
  BY <1>1, <1>4 DEF StartRestore, AllFinite, NextKeyIsFree, Rows, Restoring
<1>5. CASE Wipe
  BY <1>1, <1>2, <1>5 DEF Wipe, AllFinite, NextKeyIsFree, Rows, Restoring
<1>6. CASE OpenFile
  <2>1. at \in 1 .. 7
    BY <1>6 DEF OpenFile, PlaceOK
  <2>2. rest' \in {rest, Rows(MAPPING[at])} /\ UNCHANGED <<db, seq>> /\ pc' \in Restoring
    BY <1>6 DEF OpenFile, Rows, Restoring
  <2>3. MAPPING[at] \in Tables
    BY <2>1
  <2> QED
    BY <1>1, <2>2, <2>3 DEF AllFinite, NextKeyIsFree, Rows
<1>7. CASE InsertChunk
  <2>1. PICK chunk \in SUBSET rest : rest' = rest \ chunk /\ db' = [db EXCEPT ![MAPPING[at]] = @ \cup chunk]
    BY <1>7 DEF InsertChunk, Chunks, kSubset
  <2>2. IsFiniteSet(chunk) /\ IsFiniteSet(rest')
    BY <2>1, FS_Subset, FS_Difference DEF AllFinite
  <2>3. \A t \in Tables : db'[t] \in {db[t], db[t] \cup chunk}
    BY <2>1 DEF TypesOK
  <2>4. \A t \in Tables : IsFiniteSet(db'[t])
    <3>1. \A t \in Tables : IsFiniteSet(db[t]) /\ IsFiniteSet(db[t] \cup chunk)
      BY <2>2, FS_Union DEF AllFinite
    <3> QED
      BY <2>3, <3>1
  <2>5. seq' = seq /\ pc' \in Restoring
    BY <1>7 DEF InsertChunk, Restoring
  <2> QED
    BY <1>1, <2>2, <2>4, <2>5 DEF AllFinite, NextKeyIsFree, Rows
<1>8. CASE CloseTable
  BY <1>1, <1>8 DEF CloseTable, AllFinite, NextKeyIsFree, Rows, Restoring
<1> QED
  BY <1>3, <1>4, <1>5, <1>6, <1>7, <1>8

\* A restore that ends well has set every sequence; one that fails is not spoken of.
LEMMA EndRestoreFInv == IInv /\ FInv /\ (SetSequences \/ RestoreFails) => FInv'
<1> SUFFICES ASSUME IInv, FInv, SetSequences \/ RestoreFails PROVE FInv'
  OBVIOUS
<1> USE DEF IInv, FInv
<1>1. UNCHANGED <<db, files>> /\ rest' = {} /\ done' = {}
  BY DEF SetSequences, RestoreFails, Idle
<1>2. IsFiniteSet({})
  BY FS_EmptySet
<1>3. CASE SetSequences
  <2>1. seq' = Restart(Tables)
    BY <1>3 DEF SetSequences
  <2>2. /\ seq' \in [Tables -> Nat]
        /\ \A t \in Tables : HasSequence(t) => \A row \in db[t] : row.id <= seq'[t]
    BY <2>1, RestartBounds
  <2> QED
    BY <1>1, <1>2, <2>2 DEF AllFinite, NextKeyIsFree, Rows
<1>4. CASE RestoreFails
  <2>1. PICK n \in 0 .. 7 : seq' = Restart({MAPPING[i] : i \in 1 .. n})
    BY <1>4, Lists DEF RestoreFails
  <2>2. {MAPPING[i] : i \in 1 .. n} \in SUBSET Tables
    BY Lists
  <2>3. seq' \in [Tables -> Nat] /\ restored' = "badly"
    BY <1>4, <2>1, <2>2, RestartBounds DEF RestoreFails
  <2> QED
    BY <1>1, <1>2, <2>3 DEF AllFinite, NextKeyIsFree, Rows
<1> QED
  BY <1>3, <1>4

\* Unless the last restore failed, the next row of a table finds its key free:
\* whatever the rows of the files, and however often the database was filled and
\* wiped before (the setval loop of restore_database).
THEOREM NextKeysAreFree == Spec => []NextKeyIsFree
<1>1. IInv /\ FInv /\ UNCHANGED vars => FInv'
  BY DEF FInv, AllFinite, NextKeyIsFree, Rows, vars
<1>2. IInv /\ FInv /\ [Next]_vars => FInv'
  BY <1>1, InsertFInv, CopyFInv, RestoreFInv, EndRestoreFInv DEF Next
<1>3. FInv => NextKeyIsFree
  BY DEF FInv
<1> QED
  BY <1>2, <1>3, InitFInv, SpecIInv, PTL DEF Spec
=============================================================================
