----------------------------- MODULE Ingestion -----------------------------
(***************************************************************************)
(* The two ingestion scripts: extract.py copies the OLTP tables to Parquet  *)
(* files one after the other, restore.py deletes what a PostgreSQL database *)
(* holds and fills it from the files.  They are run by hand, one at a time;  *)
(* rows may be inserted while an extraction runs.  A step of a script ends   *)
(* where it commits, or where others can see or break what it does: it may   *)
(* raise or be killed between any two steps.                                *)
(*                                                                          *)
(* A row is its key and the key of the row it refers to, which is all that  *)
(* the constraints in the way of a restore look at.                         *)
(***************************************************************************)
EXTENDS Integers, Sequences, FiniteSets, FiniteSetsExt

CONSTANTS
    ChunkSize,  \* rows per chunk, when reading, writing and inserting
    MaxId       \* the bound on the identifiers of each table

\* Mutant: invoices are restored before the contracts they belong to.
MappingInvoicesEarly ==
    <<"companies", "financial_statements", "invoices", "energy_contracts", "payments",
      "crm_support_tickets", "user_web_logins">>

\* The order in which restore.py fills the tables, and deletes them in reverse.
MAPPING ==
    <<"companies", "financial_statements", "energy_contracts", "invoices", "payments",
      "crm_support_tickets", "user_web_logins">>

\* The order in which extract.py reads them.
DB_TABLES ==
    <<"companies", "energy_contracts", "financial_statements", "invoices", "payments",
      "crm_support_tickets", "user_web_logins">>

Tables == {"companies", "energy_contracts", "financial_statements", "invoices", "payments",
           "crm_support_tickets", "user_web_logins"}

ASSUME ChunkSizeAssumption == ChunkSize \in Nat \ {0}
ASSUME MaxIdAssumption == MaxId \in [Tables -> Nat]

Root == "companies"
Parent(t) ==
    CASE t = "invoices" -> "energy_contracts"
      [] t = "payments" -> "invoices"
      [] OTHER          -> Root

\* Statements are keyed by company and year, the other tables by a sequence.
HasSequence(t) == t # "financial_statements"

\* Whose indices are dropped around its bulk insert (LARGE_TABLE_INDICES).
LargeTable == "user_web_logins"

NoParent == 0
Row == [id : Nat \ {0}, parent : Nat]
Key(t, row) == IF HasSequence(t) THEN <<row.id>> ELSE <<row.id, row.parent>>

\* A file whose writer was never closed is unreadable; one whose writer was closed
\* before its first write is readable and has no rows.
NoFile == [state |-> "absent", rows |-> {}]
Unreadable == [state |-> "unreadable", rows |-> {}]
File(rows) == [state |-> "readable", rows |-> rows]

VARIABLES
    db,         \* the rows of each table of the database the scripts are set to
    seq,        \* the last value of each table's sequence
    indexed,    \* whether the indices of the large table exist
    files,      \* what data/raw has for each table
    pc,         \* what the running script does next
    at,         \* how many tables it has dealt with, the current one included
    rest, done, \* the rows of the current table it has still to copy, has copied
    restored,   \* how the last restore of this database ended
    quiet,      \* no row was inserted since the running extraction began
    current     \* the files are those of an extraction of this database

vars == <<db, seq, indexed, files, pc, at, rest, done, restored, quiet, current>>

Extracting == {"query", "create", "write"}
Restoring == {"wipe", "open", "insert"}

TypeOK ==
    /\ db \in [Tables -> SUBSET Row]
    /\ indexed \in BOOLEAN
    /\ files \in [Tables -> [state : {"absent", "unreadable", "readable"}, rows : SUBSET Row]]
    /\ pc \in {"idle"} \cup Extracting \cup Restoring
    /\ at \in 0 .. Len(MAPPING) + 1
    /\ rest \subseteq Row /\ (pc \notin {"create", "write", "insert"} => rest = {})
    /\ done \subseteq Row /\ (pc # "write" => done = {})
    /\ restored \in {"never", "well", "badly"}
    /\ quiet \in BOOLEAN /\ current \in BOOLEAN

Init ==
    /\ db = [t \in Tables |-> {}]
    /\ seq = [t \in Tables |-> 0]
    /\ indexed = TRUE /\ restored = "never"
    /\ files = [t \in Tables |-> NoFile]
    /\ pc = "idle" /\ at = 0 /\ rest = {} /\ done = {}
    /\ quiet = FALSE /\ current = FALSE

Idle == pc' = "idle" /\ at' = 0 /\ rest' = {} /\ done' = {} /\ quiet' = FALSE

\* The next rows of what is left, as many as a chunk takes.
Chunks == kSubset(Min({ChunkSize, Cardinality(rest)}), rest) \ {{}}

\* The database accepts rows with new keys that refer to rows that exist.
Accepts(t, rows) ==
    /\ \A row \in rows : \A old \in db[t] : Key(t, row) # Key(t, old)
    /\ t = Root \/ \A row \in rows : \E p \in db[Parent(t)] : p.id = row.parent

(***************************************************************************)
(* The database without the scripts                                        *)
(***************************************************************************)
\* Another row, by the seed or a session: the sequence goes on even when the
\* key is taken and the insert fails.
Insert(t) ==
    /\ pc \notin Restoring
    /\ \E id \in 1 .. MaxId[t] :
       \E parent \in IF t = Root THEN {NoParent} ELSE {p.id : p \in db[Parent(t)]} :
           /\ HasSequence(t) => id = seq[t] + 1
           /\ LET row == [id |-> id, parent |-> parent]
              IN  db' = IF Accepts(t, {row}) THEN [db EXCEPT ![t] = @ \cup {row}] ELSE db
           /\ seq' = IF HasSequence(t) THEN [seq EXCEPT ![t] = id] ELSE seq
    /\ quiet' = FALSE /\ current' = FALSE
    /\ UNCHANGED <<indexed, files, pc, at, rest, done, restored>>

\* The scripts are pointed at another, new database (the migration to RDS).
Migrate ==
    /\ pc = "idle"
    /\ db' = [t \in Tables |-> {}]
    /\ seq' = [t \in Tables |-> 0]
    /\ indexed' = TRUE /\ restored' = "never"
    /\ current' = FALSE
    /\ UNCHANGED <<files, pc, at, rest, done, quiet>>

(***************************************************************************)
(* extract.py                                                              *)
(***************************************************************************)
StartExtract ==
    /\ pc = "idle"
    /\ pc' = "query" /\ at' = 1
    /\ quiet' = TRUE /\ current' = FALSE
    /\ UNCHANGED <<db, seq, indexed, files, rest, done, restored>>

\* One query per table, in a session of its own.  A table without rows opens no
\* writer, so that a file it had before stays.
QueryTable ==
    /\ pc = "query" /\ at <= Len(DB_TABLES)
    /\ LET rows == db[DB_TABLES[at]]
       IN  IF rows = {}
           THEN at' = at + 1 /\ UNCHANGED <<pc, rest>>
           ELSE pc' = "create" /\ rest' = rows /\ UNCHANGED at
    /\ UNCHANGED <<db, seq, indexed, files, done, restored, quiet, current>>

\* The first chunk opens the writer, over the file of an earlier extraction.
OpenWriter ==
    /\ pc = "create"
    /\ files' = [files EXCEPT ![DB_TABLES[at]] = Unreadable]
    /\ pc' = "write"
    /\ UNCHANGED <<db, seq, indexed, at, rest, done, restored, quiet, current>>

\* Mutant: every chunk opens the file anew.
WriteChunkOver ==
    /\ pc = "write"
    /\ \E chunk \in Chunks :
           /\ done' = chunk
           /\ rest' = rest \ chunk
    /\ UNCHANGED <<db, seq, indexed, files, pc, at, restored, quiet, current>>

WriteChunk ==
    /\ pc = "write"
    /\ \E chunk \in Chunks :
           /\ done' = done \cup chunk
           /\ rest' = rest \ chunk
    /\ UNCHANGED <<db, seq, indexed, files, pc, at, restored, quiet, current>>

\* The writer is closed in any case, before the next table is queried.
CloseFile ==
    /\ pc = "write" /\ rest = {}
    /\ files' = [files EXCEPT ![DB_TABLES[at]] = File(done)]
    /\ pc' = "query" /\ at' = at + 1 /\ done' = {}
    /\ UNCHANGED <<db, seq, indexed, rest, restored, quiet, current>>

FinishExtract ==
    /\ pc = "query" /\ at > Len(DB_TABLES)
    /\ current' = quiet
    /\ Idle
    /\ UNCHANGED <<db, seq, indexed, files, restored>>

\* An error closes the writer if it is open: what was written becomes a readable
\* file, also when that is nothing.
ExtractRaises ==
    /\ pc \in Extracting
    /\ files' = IF pc = "write" THEN [files EXCEPT ![DB_TABLES[at]] = File(done)] ELSE files
    /\ Idle
    /\ UNCHANGED <<db, seq, indexed, restored, current>>

\* Also an error of the writer as it opens the file or closes it.
ExtractIsKilled ==
    /\ pc \in Extracting
    /\ Idle
    /\ UNCHANGED <<db, seq, indexed, files, restored, current>>

(***************************************************************************)
(* restore.py                                                              *)
(***************************************************************************)
StartRestore ==
    /\ pc = "idle"
    /\ pc' = "wipe"
    /\ UNCHANGED <<db, seq, indexed, files, at, rest, done, restored, quiet, current>>

\* Mutant: only tables that will be filled are deleted.
WipeWhatHasFiles ==
    /\ pc = "wipe"
    /\ db' = [t \in Tables |-> IF files[t] = NoFile THEN db[t] ELSE {}]
    /\ pc' = "open" /\ at' = 1
    /\ current' = FALSE
    /\ UNCHANGED <<seq, indexed, files, rest, done, restored, quiet>>

\* Every table is deleted, children first, and this is committed.
Wipe ==
    /\ pc = "wipe"
    /\ db' = [t \in Tables |-> {}]
    /\ pc' = "open" /\ at' = 1
    /\ current' = FALSE
    /\ UNCHANGED <<seq, indexed, files, rest, done, restored, quiet>>

\* A table without a file, or with an empty one, is passed over, in whatever state
\* its indices are; else those of the large table are dropped, and this is committed.
OpenFile ==
    /\ pc = "open" /\ at <= Len(MAPPING)
    /\ LET t == MAPPING[at]
       IN  /\ files[t] # Unreadable
           /\ IF files[t].rows = {}
              THEN at' = at + 1 /\ UNCHANGED <<pc, rest, indexed>>
              ELSE /\ pc' = "insert" /\ rest' = files[t].rows /\ UNCHANGED at
                   /\ indexed' = (indexed /\ t # LargeTable)
    /\ UNCHANGED <<db, seq, files, done, restored, quiet, current>>

\* One chunk, committed.
InsertChunk ==
    /\ pc = "insert"
    /\ \E chunk \in Chunks :
           /\ Accepts(MAPPING[at], chunk)
           /\ db' = [db EXCEPT ![MAPPING[at]] = @ \cup chunk]
           /\ rest' = rest \ chunk
    /\ UNCHANGED <<seq, indexed, files, pc, at, done, restored, quiet, current>>

\* The table is full, and its indices are built again.
CloseTable ==
    /\ pc = "insert" /\ rest = {}
    /\ indexed' = (indexed \/ MAPPING[at] = LargeTable)
    /\ pc' = "open" /\ at' = at + 1
    /\ UNCHANGED <<db, seq, files, rest, done, restored, quiet, current>>

MaxKey(t) == Max({0} \cup {row.id : row \in db[t]})

\* Mutant: the last identifier is given out once more.
SetSequencesTooLow ==
    /\ pc = "open" /\ at > Len(MAPPING)
    /\ seq' = [t \in Tables |-> IF HasSequence(t) /\ db[t] # {} THEN MaxKey(t) - 1 ELSE seq[t]]
    /\ restored' = "well"
    /\ Idle
    /\ UNCHANGED <<db, indexed, files, current>>

\* setval(COALESCE(MAX(id), 1)): an empty table gives out 2 next.
Restart(tables) ==
    [t \in Tables |-> IF t \notin tables \/ ~HasSequence(t) THEN seq[t]
                      ELSE IF db[t] = {} THEN 1 ELSE MaxKey(t)]

SetSequences ==
    /\ pc = "open" /\ at > Len(MAPPING)
    /\ seq' = Restart(Tables)
    /\ restored' = "well"
    /\ Idle
    /\ UNCHANGED <<db, indexed, files, current>>

\* A file that cannot be read, rows the database rejects, any other error, or
\* the end of the process: what is not committed is rolled back, the rest stays,
\* and so do the sequences already set, which no rollback undoes.
RestoreFails ==
    /\ pc \in Restoring
    /\ \E n \in 0 .. Len(MAPPING) :
           /\ n > 0 => (pc = "open" /\ at > Len(MAPPING))
           /\ seq' = Restart({MAPPING[i] : i \in 1 .. n})
    /\ restored' = "badly"
    /\ Idle
    /\ UNCHANGED <<db, indexed, files, current>>

Next ==
    \/ \E t \in Tables : Insert(t)
    \/ Migrate
    \/ StartExtract \/ QueryTable \/ OpenWriter \/ WriteChunk \/ CloseFile \/ FinishExtract
    \/ ExtractRaises \/ ExtractIsKilled
    \/ StartRestore \/ Wipe \/ OpenFile \/ InsertChunk \/ CloseTable \/ SetSequences
    \/ RestoreFails

Spec == Init /\ [][Next]_vars

(***************************************************************************)
(* Properties                                                              *)
(***************************************************************************)
\* The files together obey the foreign keys.
FilesAreClosed ==
    \A t \in Tables \ {Root} :
        \A row \in files[t].rows : \E p \in files[Parent(t)].rows : p.id = row.parent

\* When a restore comes to its end the database holds what the files hold, and
\* nothing else, after however many that failed half-way.
RestoreIsComplete ==
    (pc = "open" /\ at > Len(MAPPING)) =>
        \A t \in Tables : db[t] = files[t].rows

\* No order of tables or chunks makes the database reject files that obey the
\* foreign keys.
ClosedFilesAreAccepted ==
    (pc = "insert" /\ FilesAreClosed) => Accepts(MAPPING[at], rest)

\* Unless the last restore failed, the next insert finds its key free
\* (test_restore.py: a company inserted after 42 gets 43).
NextKeyIsFree ==
    (pc \notin Restoring /\ restored # "badly") =>
        \A t \in Tables : HasSequence(t) => \A row \in db[t] : row.id <= seq[t]

\* A restore that comes to its end leaves no rows in the large table without its
\* indices, after however many that dropped them and failed.
IndicesComeBack ==
    (pc = "open" /\ at > Len(MAPPING)) => (indexed \/ db[LargeTable] = {})

\* A restore that ends well has made good whatever earlier ones left behind: rows
\* committed before an error, and indices dropped before it, unless there is nothing
\* to index.
RestoreIsWhole == RestoreIsComplete /\ IndicesComeBack

\* An extraction nothing was inserted during leaves files that agree with the
\* database, but for tables that have no rows.
ExtractIsFaithful ==
    current => \A t \in Tables : db[t] = {} \/ files[t] = File(db[t])
=============================================================================
