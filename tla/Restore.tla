------------------------------ MODULE Restore ------------------------------
(***************************************************************************)
(* The database file across exports, uploads, restores, migrations and     *)
(* crashes (backup/, store/store.go, store/migrate.go, api/ops_backup.go). *)
(*                                                                         *)
(* A database is what a reader would find in it: the acknowledged writes,  *)
(* the schema's DDL, its version number, and whether the file is sound.    *)
(* SQLite keeps the newest state in the WAL file until a checkpoint.  The  *)
(* end of the process loses what is in memory and keeps every file; a loss *)
(* of power is not modelled.  The startup hook that calls Restore is not   *)
(* in the repository: ops_backup.go and validate.go say what it does.      *)
(* backup.go asks a caller to close the store that it holds; nothing says  *)
(* that the hook holds one, so it may or may not check the WAL in.         *)
(***************************************************************************)
EXTENDS Integers, FiniteSets

CONSTANTS
  Current,         \* CurrentVersion(): the newest migration in the binary
  Offered,         \* archives that an operator has from elsewhere
  Handlers,        \* concurrent requests to POST /backup/restore
  None,
  MaxWrites,       \* bound of the writes of a behaviour
  Budget           \* bound of its crashes, failed calls and exports

Versions == 0 .. Current
Writes == 1 .. MaxWrites
Dbs(versions) == [writes : SUBSET (Writes \cup {0}), ddl : versions, version : versions,
                  sound : BOOLEAN]
\* The writes of an archive from elsewhere are the write 0; whole is FALSE for
\* a truncated download; meta is the schema_version of its meta.json, which need
\* not be the user_version of its database.
Archives == [whole : BOOLEAN, meta : 0 .. Current + 1, db : Dbs(0 .. Current + 1)]

\* What an instance of this module gives its parameters.
RestoreAssumption ==
  /\ Current \in Nat \ {0}
  /\ Offered \subseteq Archives
  /\ None \notin Archives /\ None \notin Dbs(Versions)
  /\ MaxWrites \in Nat /\ Budget \in Nat

VARIABLES
  main,      \* relay.db
  wal,       \* the newest state in relay.db-wal, None if it is all in main
  txn,       \* the uncommitted transaction of a migration
  pending,   \* restore-pending.zip
  safety,    \* data/backups/auto-*.db: copies and whether they are complete
  staged,    \* .relay-restore-*.db
  at,        \* where the process is
  upload,    \* the restore requests: archive at hand, None when there is none
  exported,  \* archives made by Export
  acked,     \* history: the acknowledged writes
  walLeft,   \* history: a file was replaced while its WAL lay beside it
  spent      \* how much of Budget is used

files == <<main, wal, pending, safety>>
vars == <<main, wal, txn, pending, safety, staged, at, upload, exported, acked, walLeft,
          spent>>

Booting == {"hook", "meta", "extract", "validate", "backup", "copying", "swap", "reopen",
            "restored", "failed"}

TypeOK ==
  /\ main \in Dbs(Versions) \cup {None}
  /\ wal \in Dbs(Versions) \cup {None} /\ txn \in Dbs(Versions) \cup {None}
  /\ pending \in Archives \cup {None}
  /\ safety \subseteq [db : Dbs(Versions), whole : BOOLEAN]
  /\ staged \in Dbs(0 .. Current + 1) \cup {None}
  /\ at \in Booting \cup {"down", "open", "up"}
  /\ upload \in [Handlers -> [archive : Archives \cup {None}, written : BOOLEAN]]
  /\ exported \subseteq Archives
  /\ acked \subseteq Writes /\ walLeft \in BOOLEAN
  /\ spent \in 0 .. Budget

Idle == [archive |-> None, written |-> FALSE]
EmptyDatabase == [writes |-> {}, ddl |-> 0, version |-> 0, sound |-> TRUE]

\* What a reader of the live database finds.
Content == IF wal = None THEN main ELSE wal

Init ==
  /\ main = None /\ wal = None /\ txn = None
  /\ pending = None /\ safety = {} /\ staged = None
  /\ at = "down"
  /\ upload = [h \in Handlers |-> Idle]
  /\ exported = {} /\ acked = {} /\ walLeft = FALSE /\ spent = 0

Spend == spent < Budget /\ spent' = spent + 1
-----------------------------------------------------------------------------
(* The running server.                                                       *)

Write(w) ==
  /\ at = "up" /\ w \notin acked
  /\ wal' = [Content EXCEPT !.writes = @ \cup {w}]
  /\ acked' = acked \cup {w}
  /\ UNCHANGED <<main, txn, pending, safety, staged, at, upload, exported, walLeft, spent>>

\* SQLite checkpoints by itself.
Checkpoint ==
  /\ at = "up" /\ wal # None
  /\ main' = wal /\ wal' = None
  /\ UNCHANGED <<txn, pending, safety, staged, at, upload, exported, acked, walLeft, spent>>

\* Export: one snapshot of the live database, by VACUUM INTO.
Export ==
  /\ at = "up" /\ Spend
  /\ exported' = exported \cup {[whole |-> TRUE, meta |-> Content.version, db |-> Content]}
  /\ UNCHANGED <<main, wal, txn, pending, safety, staged, at, upload, acked, walLeft>>

\* ValidateZip, and Restore again: the meta.json, not the database.
MetaAccepted(archive) == archive.whole /\ archive.meta \in 1 .. Current

\* restoreBackup: ValidateZip, then a temporary file of its own, then a rename.
BeginUpload(h, archive) ==
  /\ at = "up" /\ upload[h] = Idle
  /\ MetaAccepted(archive)
  /\ upload' = [upload EXCEPT ![h].archive = archive]
  /\ UNCHANGED <<main, wal, txn, pending, safety, staged, at, exported, acked, walLeft, spent>>

WriteUpload(h) ==
  /\ upload[h].archive # None /\ ~upload[h].written
  /\ \/ upload' = [upload EXCEPT ![h].written = TRUE] /\ UNCHANGED spent
     \/ upload' = [upload EXCEPT ![h] = Idle] /\ Spend
  /\ UNCHANGED <<main, wal, txn, pending, safety, staged, at, exported, acked, walLeft>>

FinishUpload(h) ==
  /\ upload[h].written
  /\ pending' = upload[h].archive
  /\ upload' = [upload EXCEPT ![h] = Idle]
  /\ UNCHANGED <<main, wal, txn, safety, staged, at, exported, acked, walLeft, spent>>

\* Store.Close at the end of the process checkpoints.
Close ==
  /\ at = "up"
  /\ main' = Content /\ wal' = None
  /\ at' = "down"
  /\ upload' = [h \in Handlers |-> Idle]
  /\ UNCHANGED <<txn, pending, safety, staged, exported, acked, walLeft, spent>>

Crash ==
  /\ at # "down" /\ Spend
  /\ at' = "down"
  /\ txn' = None /\ staged' = None
  /\ upload' = [h \in Handlers |-> Idle]
  /\ UNCHANGED <<files, exported, acked, walLeft>>

-----------------------------------------------------------------------------
(* The startup hook and Restore.                                             *)

\* The hook: a pending archive is restored before the server opens its store.
Boot ==
  /\ at = "down"
  /\ at' = IF pending = None THEN "open" ELSE "hook"
  /\ UNCHANGED <<files, txn, staged, upload, exported, acked, walLeft, spent>>

HookBegins ==
  /\ at = "hook"
  /\ (main' = Content /\ wal' = None) \/ UNCHANGED <<main, wal>>
  /\ at' = "meta"
  /\ UNCHANGED <<txn, pending, safety, staged, upload, exported, acked, walLeft, spent>>

CheckMeta ==
  /\ at = "meta"
  /\ at' = IF MetaAccepted(pending) THEN "extract" ELSE "failed"
  /\ UNCHANGED <<files, txn, staged, upload, exported, acked, walLeft, spent>>

Extract ==
  /\ at = "extract"
  /\ \/ staged' = pending.db /\ at' = "validate" /\ UNCHANGED spent
     \/ at' = "failed" /\ UNCHANGED staged /\ Spend
  /\ UNCHANGED <<files, txn, upload, exported, acked, walLeft>>

ValidateRestoredDB ==
  /\ at = "validate"
  /\ at' = IF staged.version <= Current /\ staged.sound THEN "backup" ELSE "failed"
  /\ UNCHANGED <<files, txn, staged, upload, exported, acked, walLeft, spent>>

\* autoBackup copies the file main, not its WAL.
BeginCopy ==
  /\ at = "backup"
  /\ safety' = IF main = None THEN safety ELSE safety \cup {[db |-> main, whole |-> FALSE]}
  /\ at' = IF main = None THEN "swap" ELSE "copying"
  /\ UNCHANGED <<main, wal, txn, pending, staged, upload, exported, acked, walLeft, spent>>

\* Fault for mutation: a failed copy does not end the restore.
EndCopyAnyhow ==
  /\ at = "copying"
  /\ \/ /\ safety' = (safety \ {[db |-> main, whole |-> FALSE]})
                       \cup {[db |-> main, whole |-> TRUE]}
        /\ UNCHANGED spent
     \/ UNCHANGED safety /\ Spend
  /\ at' = "swap"
  /\ UNCHANGED <<main, wal, txn, pending, staged, upload, exported, acked, walLeft>>

\* A failed copy stays behind incomplete.
EndCopy ==
  /\ at = "copying"
  /\ \/ /\ safety' = (safety \ {[db |-> main, whole |-> FALSE]})
                       \cup {[db |-> main, whole |-> TRUE]}
        /\ at' = "swap" /\ UNCHANGED spent
     \/ at' = "failed" /\ UNCHANGED safety /\ Spend
  /\ UNCHANGED <<main, wal, txn, pending, staged, upload, exported, acked, walLeft>>

\* The rename replaces the main file only: a WAL that is left there is read
\* over a database that it does not belong to.
Swap ==
  /\ at = "swap"
  /\ main' = staged
  /\ wal' = IF wal = None THEN None ELSE [wal EXCEPT !.sound = FALSE]
  /\ walLeft' = (walLeft \/ wal # None)
  /\ staged' = None
  /\ at' = "reopen"
  /\ UNCHANGED <<txn, pending, safety, upload, exported, acked, spent>>

SwapFails ==
  /\ at = "swap" /\ Spend
  /\ staged' = None
  /\ at' = "failed"
  /\ UNCHANGED <<files, txn, upload, exported, acked, walLeft>>

\* What the hook does with the archive after an error is its own business.
HookEnds ==
  /\ \/ at = "restored" /\ pending' = None
     \/ at = "failed" /\ pending' \in {None, pending}
  /\ at' = "open" /\ staged' = None
  /\ UNCHANGED <<main, wal, txn, safety, upload, exported, acked, walLeft, spent>>

-----------------------------------------------------------------------------
(* store.Open and its migrations, by Restore and by the server.              *)

Opening == at \in {"reopen", "open"} /\ txn = None

\* migrateFS skips what user_version covers.
MigrationsLeft == Content.version < Current

CreateDatabase ==
  /\ Opening /\ main = None
  /\ main' = EmptyDatabase
  /\ UNCHANGED <<wal, txn, pending, safety, staged, at, upload, exported, acked, walLeft, spent>>

\* applyMigration: the statements, the version, the commit.
ApplyDDL ==
  /\ Opening /\ main # None /\ MigrationsLeft
  /\ txn' = [Content EXCEPT !.ddl = Content.version + 1]
  /\ UNCHANGED <<files, staged, at, upload, exported, acked, walLeft, spent>>

SetVersion ==
  /\ txn # None /\ txn.version # txn.ddl
  /\ txn' = [txn EXCEPT !.version = @ + 1]
  /\ UNCHANGED <<files, staged, at, upload, exported, acked, walLeft, spent>>

Commit ==
  /\ txn # None /\ txn.version = txn.ddl
  /\ wal' = txn /\ txn' = None
  /\ UNCHANGED <<main, pending, safety, staged, at, upload, exported, acked, walLeft, spent>>

\* An error rolls back; it ends Restore after the swap, and the server's start.
\* A damaged database can be the reason again and again.
OpenFails ==
  /\ at \in {"reopen", "open"}
  /\ Spend \/ (Content # None /\ ~Content.sound /\ UNCHANGED spent)
  /\ txn' = None
  /\ at' = IF at = "reopen" THEN "failed" ELSE "down"
  /\ UNCHANGED <<files, staged, upload, exported, acked, walLeft>>

\* Restore closes its store again, the server keeps it open.
Opened ==
  /\ Opening /\ main # None /\ ~MigrationsLeft
  /\ IF at = "reopen"
       THEN at' = "restored" /\ main' = Content /\ wal' = None
       ELSE at' = "up" /\ UNCHANGED <<main, wal>>
  /\ UNCHANGED <<txn, pending, safety, staged, upload, exported, acked, walLeft, spent>>

BootStep ==
  \/ Boot \/ HookBegins \/ CheckMeta \/ Extract \/ ValidateRestoredDB
  \/ BeginCopy \/ EndCopy \/ Swap \/ HookEnds
  \/ CreateDatabase \/ ApplyDDL \/ SetVersion \/ Commit \/ Opened

Next ==
  \/ BootStep \/ SwapFails \/ OpenFails
  \/ Checkpoint \/ Export \/ Close \/ Crash
  \/ \E w \in Writes : Write(w)
  \/ \E h \in Handlers :
       \/ \E archive \in Offered \cup exported : BeginUpload(h, archive)
       \/ WriteUpload(h) \/ FinishUpload(h)

Spec == Init /\ [][Next]_vars

\* A boot goes on until it fails or ends; nothing else need ever happen.
FairSpec == Spec /\ WF_vars(BootStep)
-----------------------------------------------------------------------------
(* Properties.  A file that is replaced while its WAL lies beside it loses  *)
(* what the WAL holds, and is damaged by it: what is promised of the data is *)
(* promised until that happens.                                              *)

\* Every acknowledged write is in the live database or in a complete and sound
\* safety copy, through restores that fail or crash at any step
\* (backup.go: autoBackup before the rename).
NothingLost ==
  LET kept == {c.db : c \in {c \in safety : c.whole}} \cup ({Content} \ {None}) IN
    ~walLeft => acked \subseteq UNION {db.writes : db \in {db \in kept : db.sound}}

\* The live database is sound whatever archive was restored, and a server that
\* is up has the schema of its binary (backup.go: validateRestoredDB).
LiveSound ==
  /\ ~walLeft /\ Content # None => Content.sound
  /\ at = "up" => Content.version = Current

\* The version number and the DDL agree in every file a crash can leave behind,
\* and none is newer than the binary (migrate.go: applyMigration's transaction;
\* validateRestoredDB).
SchemaMatchesVersion ==
  \A db \in {main, wal} \cup {c.db : c \in safety} :
    db # None => db.ddl = db.version /\ db.version <= Current

\* When Restore returns nil, the live database is the archive's, migrated, and
\* nothing of the replaced one shines through (backup.go: Restore).
RestoredIsArchive ==
  at = "restored" => /\ ~walLeft => Content.writes = pending.db.writes
                     /\ Content.version = Current
                     /\ wal = None

\* A pending archive with a sound database that is not newer than the binary is
\* restored if the process is started again and again, unless it is replaced or
\* given up, or the WAL of a replaced file damages what it is restored to
\* (validate.go: the startup hook).
PendingRestored ==
  \A archive \in {a \in Offered : MetaAccepted(a) /\ a.db.version <= Current /\ a.db.sound} :
    []<>(at = "down")
      => [](pending = archive => <>(at = "restored" \/ pending # archive \/ walLeft))
=============================================================================
