------------------------- MODULE DatabaseLifecycle -------------------------
(***************************************************************************)
(* The database file over the life of the installation: the bootstrap that  *)
(* opens or migrates it (infrastructure/database_bootstrap.rs), the         *)
(* operation gate every command passes (state.rs, ipc.rs), backup, restore  *)
(* with its recovery copy (backup_service.rs, restore_service.rs) and       *)
(* delete-all-data (settings_service.rs).                                   *)
(*                                                                         *)
(* Every step that touches a file is an action, because the process can be  *)
(* stopped or a file operation can fail between any two of them.  Of the    *)
(* contents of a database only their version is kept: 0 is a fresh          *)
(* database, and every commit makes a new one.                              *)
(***************************************************************************)
EXTENDS Integers, Sequences, FiniteSets

CONSTANTS
  Commands,      \* ordinary commands that may be in flight
  Schemas,       \* migration versions an installed application supports
  MaxVersion,    \* bound on the commits
  MaxStops       \* bound on quits, crashes and power failures

ASSUME LifecycleConstants ==
  /\ Schemas \subseteq Nat \ {0} /\ Schemas # {}
  /\ MaxVersion \in Nat /\ MaxStops \in Nat
  /\ "replacement" \notin Commands

Absent   == -1                 \* no such file
Partial  == -2                 \* a file whose copy was not finished
Versions == 0 .. MaxVersion
Present  == Versions \cup {Absent}

VARIABLES
  \* files
  live,          \* nestworth.sqlite3
  wal,           \* the committed frames in its -wal, not yet checkpointed
  walBase,       \* the database file those frames were written against
  schema,        \* migration version of the live database
  snapshots,     \* found version -> its .pre-migrate copy
  recoveries,    \* recovery bundles of earlier databases
  backup,        \* the bundle at the path the user selects
  strays,        \* other copies of the database lying in its directory
  mayRevert,     \* what a power failure may put back in place of `live`
  \* process
  supported,     \* max_supported_migration of the installed application
  process,       \* bootstrap step, "ready" or "blocked", or "down"
  terminal,      \* OperationGate.terminal_reason
  pool,          \* the SqlitePool
  token,         \* the inspection token the user holds
  \* operations
  stage,         \* command -> where it is
  draft,         \* command -> the copy its backup is writing
  queue,         \* waiters of the RwLock, first come first served
  op,            \* the exclusive operation
  outcome,       \* its last answer in this process
  \* history
  seen,          \* the last version the user saw as the household's data
  clean,         \* did the last close leave no frames in the -wal?
  nextVersion,
  stops

files   == <<live, wal, walBase, schema, snapshots, recoveries, backup, strays, mayRevert>>
gate    == <<stage, draft, queue>>
history == <<seen, clean, nextVersion, stops>>
vars    == <<files, supported, process, terminal, pool, token, gate, op, outcome, history>>

Booting == {"inspecting", "copying", "copyingWal", "opening"}
Steps   == {"queued", "stage", "rescue", "publish", "mark", "close", "sidecars", "rollback",
            "rename", "sync", "extract", "putback", "snapshots", "artifacts", "database"}
NoToken == [content |-> Absent, recovery |-> FALSE, changed |-> FALSE]
NoOp    == [kind |-> "none", at |-> "none", chosen |-> Absent, rescue |-> Absent]

-----------------------------------------------------------------------------

\* What opening the database shows: the file and the frames beside it.
Content == IF wal # Absent THEN wal ELSE live

Up == process \in {"ready", "blocked"}

\* AppState::writable_db
WritableDb == process = "ready" /\ terminal = "ready"

At(step)   == op.at = step
GoTo(step) == op' = [op EXCEPT !.at = step]

\* Where a restore holds its staged database, and a command its copy.
Unfinished ==
  (IF op.kind = "restore" /\ op.at \in {"rescue", "publish", "mark", "close", "sidecars",
                                        "rollback", "rename"}
   THEN {"staging"} ELSE {})
  \cup (IF At("publish") \/ \E c \in Commands : draft[c] # Absent THEN {"create"} ELSE {})

\* Mutant: the exclusive permit does not wait for the shared ones.
NobodyMatters == TRUE

\* No shared permit is held.
NobodyInside == \A c \in Commands : stage[c] # "running"

\* Mutant: the terminal reason is not looked at again.
GateOpenAlways == TRUE

\* restart_reason, looked at once the permit is held.
GateOpen == terminal = "ready"

\* Mutant: the last to ask is the first to enter.
JoinInFront(w) == <<w>> \o queue

\* tokio's RwLock admits in the order of the requests.
Join(w)     == Append(queue, w)
MayEnter(w) == queue # <<>> /\ Head(queue) = w

Init ==
  /\ live = Absent /\ wal = Absent /\ walBase = Absent
  /\ schema \in Schemas /\ supported \in Schemas
  /\ snapshots = [s \in Schemas |-> Absent]
  /\ recoveries = {} /\ backup = Absent /\ strays = {} /\ mayRevert = {}
  /\ process = "down" /\ terminal = "ready" /\ pool = "closed" /\ token = NoToken
  /\ stage = [c \in Commands |-> "idle"]
  /\ draft = [c \in Commands |-> Absent]
  /\ queue = <<>> /\ op = NoOp /\ outcome = "none"
  /\ seen = Absent /\ clean = TRUE /\ nextVersion = 1 /\ stops = 0

-----------------------------------------------------------------------------
(* Bootstrap                                                                 *)

Idle == UNCHANGED <<terminal, token, gate, op, outcome>>

Install(v) ==
  /\ process = "down" /\ v # supported
  /\ supported' = v
  /\ UNCHANGED <<files, process, pool, history>> /\ Idle

Launch ==
  /\ process = "down"
  /\ process' = "inspecting"
  /\ UNCHANGED <<files, supported, pool, history>> /\ Idle

\* The migration version is read through a read-only connection.
Inspect ==
  /\ process = "inspecting"
  /\ \/ process' = IF live = Absent THEN "opening"
                   ELSE IF schema > supported THEN "blocked"
                   ELSE IF schema < supported /\ snapshots[schema] = Absent THEN "copying"
                   ELSE "opening"
     \/ live # Absent /\ process' = "blocked"
  /\ UNCHANGED <<files, supported, pool, history>> /\ Idle

\* copy_pre_migration_snapshot: fs::copy creates the file, then fills it.
BeginSnapshot ==
  /\ process = "copying" /\ snapshots[schema] = Absent
  /\ snapshots' = [snapshots EXCEPT ![schema] = Partial]
  /\ UNCHANGED <<live, wal, walBase, schema, recoveries, backup, strays, mayRevert,
                 supported, process, pool, history>> /\ Idle

FinishSnapshot ==
  /\ process = "copying" /\ snapshots[schema] = Partial
  /\ \/ /\ snapshots' = [snapshots EXCEPT ![schema] = live]
        /\ process' = "copyingWal"
     \/ /\ process' = "blocked"
        /\ UNCHANGED snapshots
  /\ UNCHANGED <<live, wal, walBase, schema, recoveries, backup, strays, mayRevert,
                 supported, pool, history>> /\ Idle

\* The copied -wal makes the snapshot the whole content.
CopySidecars ==
  /\ process = "copyingWal"
  /\ \/ /\ snapshots' = [snapshots EXCEPT ![schema] = Content]
        /\ process' = "opening"
     \/ /\ process' = "blocked"
        /\ UNCHANGED snapshots
  /\ UNCHANGED <<live, wal, walBase, schema, recoveries, backup, strays, mayRevert,
                 supported, pool, history>> /\ Idle

\* Connect, migrate, verify, initialise; a late step may fail after the migration.
Open ==
  /\ process = "opening"
  /\ live' = IF live = Absent THEN 0 ELSE live
  /\ schema' = supported
  /\ process' = "ready" /\ pool' = "open"
  /\ seen' = IF live = Absent THEN 0 ELSE Content
  /\ UNCHANGED <<wal, walBase, snapshots, recoveries, backup, strays, mayRevert, supported,
                 clean, nextVersion, stops>> /\ Idle

OpenFails ==
  /\ process = "opening"
  /\ process' = "blocked"
  /\ \/ UNCHANGED <<live, schema>>
     \/ live' = (IF live = Absent THEN 0 ELSE live) /\ schema' = supported
  /\ UNCHANGED <<wal, walBase, snapshots, recoveries, backup, strays, mayRevert, supported,
                 pool, history>> /\ Idle

\* The process ends, however it ends.  Memory and temporary-file guards are
\* gone; files stay.  A power failure may also undo a rename not yet synced.
Stop(after) ==
  /\ process # "down" /\ stops < MaxStops
  /\ stops' = stops + 1
  /\ live' = after /\ mayRevert' = {}
  /\ strays' = strays \cup Unfinished
  /\ process' = "down" /\ terminal' = "ready" /\ pool' = "closed" /\ token' = NoToken
  /\ stage' = [c \in Commands |-> "idle"]
  /\ draft' = [c \in Commands |-> Absent]
  /\ queue' = <<>> /\ op' = NoOp /\ outcome' = "none"
  /\ UNCHANGED <<wal, walBase, schema, snapshots, recoveries, backup, supported, seen, clean,
                 nextVersion>>

-----------------------------------------------------------------------------
(* Ordinary commands                                                         *)

Running(c) == stage[c] = "running" /\ draft[c] = Absent

Ask(c) ==
  /\ Up /\ stage[c] = "idle"
  /\ stage' = [stage EXCEPT ![c] = "waiting"]
  /\ queue' = Join(c)
  /\ UNCHANGED <<files, supported, process, terminal, pool, token, draft, op, outcome, history>>

\* acquire_shared: the lock first, then the terminal reason.
Enter(c) ==
  /\ stage[c] = "waiting" /\ MayEnter(c)
  /\ op.at \in {"none", "queued"}
  /\ queue' = Tail(queue)
  /\ stage' = [stage EXCEPT ![c] = IF GateOpen THEN "running" ELSE "idle"]
  /\ UNCHANGED <<files, supported, process, terminal, pool, token, draft, op, outcome, history>>

\* A transaction of the command commits, into the -wal.
Commit(c) ==
  /\ Running(c) /\ WritableDb /\ nextVersion <= MaxVersion
  /\ wal' = nextVersion /\ seen' = nextVersion /\ nextVersion' = nextVersion + 1
  /\ walBase' = live
  /\ UNCHANGED <<live, schema, snapshots, recoveries, backup, strays, mayRevert, supported,
                 process, terminal, pool, token, gate, op, outcome, clean, stops>>

\* SQLite moves the frames into the database file.
Checkpoint ==
  /\ pool = "open" /\ wal # Absent
  /\ live' = wal /\ wal' = Absent /\ walBase' = Absent
  /\ UNCHANGED <<schema, snapshots, recoveries, backup, strays, mayRevert, supported, process,
                 terminal, pool, token, gate, op, outcome, history>>

\* create_verified_backup_to: VACUUM INTO a temporary directory beside the database...
CopyOut(c) ==
  /\ Running(c) /\ WritableDb
  /\ draft' = [draft EXCEPT ![c] = Content]
  /\ UNCHANGED <<files, supported, process, terminal, pool, token, stage, queue, op, outcome,
                 history>>

\* ...and the verified bundle is renamed to the path the user selected.
PutBackup(c) ==
  /\ draft[c] # Absent
  /\ backup' = draft[c]
  /\ draft' = [draft EXCEPT ![c] = Absent]
  /\ token' = IF token = NoToken \/ token.recovery THEN token ELSE [token EXCEPT !.changed = TRUE]
  /\ UNCHANGED <<live, wal, walBase, schema, snapshots, recoveries, strays, mayRevert,
                 supported, process, terminal, pool, stage, queue, op, outcome, history>>

\* inspect_backup, inspect_recovery_backup; the dialog that confirms a restore
\* is modal, so its token is not exchanged under it.
InspectBundle(c, fromRecovery) ==
  /\ Running(c) /\ op = NoOp
  /\ \E v \in (IF fromRecovery THEN recoveries ELSE {backup} \ {Absent}) :
       token' = [content |-> v, recovery |-> fromRecovery, changed |-> FALSE]
  /\ UNCHANGED <<files, supported, process, terminal, pool, gate, op, outcome, history>>

\* INSPECTION_TOKEN_TTL
Expire ==
  /\ token # NoToken
  /\ token' = NoToken
  /\ UNCHANGED <<files, supported, process, terminal, pool, gate, op, outcome, history>>

\* The command returns; what its backup was writing is dropped.
Return(c) ==
  /\ stage[c] = "running"
  /\ stage' = [stage EXCEPT ![c] = "idle"]
  /\ draft' = [draft EXCEPT ![c] = Absent]
  /\ UNCHANGED <<files, supported, process, terminal, pool, token, queue, op, outcome, history>>

-----------------------------------------------------------------------------
(* The exclusive operations                                                  *)

Answer(o) == op' = NoOp /\ outcome' = o

AskExclusive(kind) ==
  /\ Up /\ op = NoOp
  /\ op' = [NoOp EXCEPT !.kind = kind, !.at = "queued"]
  /\ queue' = Join("replacement")
  /\ UNCHANGED <<files, supported, process, terminal, pool, token, stage, draft, outcome,
                 history>>

\* acquire_exclusive; a reset goes on only with a writable database.
EnterExclusive ==
  /\ At("queued") /\ MayEnter("replacement") /\ NobodyInside
  /\ queue' = Tail(queue)
  /\ IF GateOpen /\ (op.kind = "reset" => WritableDb)
     THEN /\ GoTo(IF op.kind = "restore" THEN "stage" ELSE "mark")
          /\ UNCHANGED outcome
     ELSE Answer("refused")
  /\ UNCHANGED <<files, supported, process, terminal, pool, token, stage, draft, history>>

\* The token is still known and revalidate_inspection_source finds its bundle.
SourceUnchanged == token # NoToken /\ ~token.changed

\* The bundle is extracted, checked and migrated aside.
Stage ==
  /\ At("stage")
  /\ \/ /\ SourceUnchanged /\ WritableDb
        /\ op' = [op EXCEPT !.at = "rescue",
                            !.chosen = IF token.recovery THEN token.content ELSE backup]
        /\ UNCHANGED outcome
     \/ Answer("refused")
  /\ UNCHANGED <<files, supported, process, terminal, pool, token, gate, history>>

\* create_recovery_backup: a copy is taken in a temporary directory...
BeginRescue ==
  /\ At("rescue")
  /\ \/ GoTo("publish") /\ UNCHANGED outcome
     \/ Answer("refused")
  /\ UNCHANGED <<files, supported, process, terminal, pool, token, gate, history>>

\* ...verified, and renamed into place as a recovery bundle.
PublishRescue ==
  /\ At("publish")
  /\ \/ /\ recoveries' = recoveries \cup {Content}
        /\ op' = [op EXCEPT !.at = "mark", !.rescue = Content]
        /\ UNCHANGED outcome
     \/ Answer("refused") /\ UNCHANGED recoveries
  /\ UNCHANGED <<live, wal, walBase, schema, snapshots, backup, strays, mayRevert, supported,
                 process, terminal, pool, token, gate, history>>

\* mark_restart_required; a confirmed reset gives the household's data up.
Mark ==
  /\ At("mark")
  /\ terminal' = op.kind
  /\ seen' = IF op.kind = "reset" THEN Absent ELSE seen
  /\ GoTo("close")
  /\ UNCHANGED <<files, supported, process, pool, token, gate, outcome, clean, nextVersion, stops>>

\* What SqlitePool::close leaves of the pool.
PoolAfterClose == "closed"

\* SqlitePool::close: SQLite checkpoints on the last close, unless another
\* reader of the file or an I/O error keeps it from doing so.
ClosePool ==
  /\ At("close")
  /\ pool' = PoolAfterClose
  /\ \/ /\ live' = Content /\ wal' = Absent /\ walBase' = Absent
        /\ clean' = TRUE
     \/ /\ wal # Absent
        /\ clean' = FALSE
        /\ UNCHANGED <<live, wal, walBase>>
  /\ GoTo(IF op.kind = "restore" THEN "sidecars" ELSE "snapshots")
  /\ UNCHANGED <<schema, snapshots, recoveries, backup, strays, mayRevert, supported, process,
                 terminal, token, gate, outcome, seen, nextVersion, stops>>

Failure == Answer(IF op.kind = "restore" THEN "failed" ELSE "resetFailed")

\* Mutant: the frames stay beside the file.
FramesKept == wal

\* What remove_sidecars leaves of the frames.
FramesLeft == Absent

RemoveSidecars ==
  /\ At("sidecars")
  /\ \/ /\ wal' = FramesLeft
        /\ walBase' = IF wal' = Absent THEN Absent ELSE walBase
        /\ GoTo(IF op.kind = "restore" THEN "rollback" ELSE "database") /\ UNCHANGED outcome
     \/ Failure /\ UNCHANGED <<wal, walBase>>
  /\ UNCHANGED <<live, schema, snapshots, recoveries, backup, strays, mayRevert, supported,
                 process, terminal, pool, token, gate, history>>

\* The raw copy that guards the rename; a failed copy stays where it is.
CopyRollback ==
  /\ At("rollback")
  /\ strays' = strays \cup {"rollback"}
  /\ \/ GoTo("rename") /\ UNCHANGED outcome
     \/ Failure
  /\ UNCHANGED <<live, wal, walBase, schema, snapshots, recoveries, backup, mayRevert, supported,
                 process, terminal, pool, token, gate, history>>

\* fs::rename of the staged database over the live one.
Replace ==
  /\ At("rename")
  /\ \/ /\ live' = op.chosen /\ schema' = supported
        /\ mayRevert' = mayRevert \cup {live}
        /\ GoTo("sync")
     \/ GoTo("extract") /\ UNCHANGED <<live, schema, mayRevert>>
  /\ UNCHANGED <<wal, walBase, snapshots, recoveries, backup, strays, supported, process,
                 terminal, pool, token, gate, outcome, history>>

\* Mutant: success is reported before the rename is on disk.
RenamePending == mayRevert

\* What the sync of the file and its directory leaves to lose.
Synced == {}

SyncLive ==
  /\ At("sync")
  /\ \/ /\ mayRevert' = Synced
        /\ strays' = strays \ {"rollback"}
        /\ Answer("restored")
     \/ GoTo("extract") /\ UNCHANGED <<mayRevert, strays, outcome>>
  /\ UNCHANGED <<live, wal, walBase, schema, snapshots, recoveries, backup, supported, process,
                 terminal, pool, token, gate, history>>

\* restore_live_from_recovery: the recovery bundle is extracted beside the
\* database; what a failure wrote of it stays.
Extract ==
  /\ At("extract")
  /\ strays' = strays \cup {"extract"}
  /\ \/ GoTo("putback") /\ UNCHANGED outcome
     \/ Answer("unrecovered")
  /\ UNCHANGED <<live, wal, walBase, schema, snapshots, recoveries, backup, mayRevert, supported,
                 process, terminal, pool, token, gate, history>>

\* Mutant: the staged database, not the recovery copy, is put back.
StagedAgain == op.chosen

\* What the recovery bundle of this restore holds.
Rescued == op.rescue

\* The extracted database is renamed over the live one, and synced.
PutBack ==
  /\ At("putback")
  /\ \/ /\ live' = Rescued /\ schema' = supported
        /\ \/ /\ mayRevert' = {} /\ strays' = strays \ {"extract", "rollback"}
              /\ Answer("failed")
           \/ /\ mayRevert' = mayRevert \cup {live} /\ strays' = strays \ {"extract"}
              /\ Answer("unrecovered")
     \/ /\ Answer("unrecovered")
        /\ UNCHANGED <<live, schema, mayRevert, strays>>
  /\ UNCHANGED <<wal, walBase, snapshots, recoveries, backup, supported, process, terminal, pool,
                 token, gate, history>>

\* remove_pre_migration_snapshots, one file at a time
DropSnapshots ==
  /\ At("snapshots")
  /\ \/ /\ \E some \in SUBSET Schemas :
             snapshots' = [s \in Schemas |-> IF s \in some THEN snapshots[s] ELSE Absent]
        /\ Failure
     \/ /\ snapshots' = [s \in Schemas |-> Absent]
        /\ GoTo("artifacts") /\ UNCHANGED outcome
  /\ UNCHANGED <<live, wal, walBase, schema, recoveries, backup, strays, mayRevert, supported,
                 process, terminal, pool, token, gate, history>>

\* remove_owned_restore_artifacts: what it knows by the prefix of its name.
Owned == {"staging", "rollback"}

DropArtifacts ==
  /\ At("artifacts")
  /\ \/ /\ recoveries' \in SUBSET recoveries
        /\ \E some \in SUBSET Owned : strays' = strays \ some
        /\ Failure
     \/ /\ recoveries' = {} /\ strays' = strays \ Owned
        /\ GoTo("sidecars") /\ UNCHANGED outcome
  /\ UNCHANGED <<live, wal, walBase, schema, snapshots, backup, mayRevert, supported, process,
                 terminal, pool, token, gate, history>>

DropDatabase ==
  /\ At("database")
  /\ \/ live' = Absent /\ Answer("reset")
     \/ Failure /\ UNCHANGED live
  /\ UNCHANGED <<wal, walBase, schema, snapshots, recoveries, backup, strays, mayRevert,
                 supported, process, terminal, pool, token, gate, history>>

Boot == Inspect \/ BeginSnapshot \/ FinishSnapshot \/ CopySidecars \/ Open \/ OpenFails

Replacing ==
  \/ EnterExclusive \/ Stage \/ BeginRescue \/ PublishRescue \/ Mark \/ ClosePool
  \/ RemoveSidecars \/ CopyRollback \/ Replace \/ SyncLive \/ Extract \/ PutBack
  \/ DropSnapshots \/ DropArtifacts \/ DropDatabase

Next ==
  \/ \E v \in Schemas : Install(v)
  \/ Launch \/ Boot \/ Checkpoint \/ Expire \/ Replacing
  \/ \E v \in mayRevert \cup {live} : Stop(v)
  \/ \E c \in Commands : Ask(c) \/ Enter(c) \/ Commit(c) \/ CopyOut(c) \/ PutBackup(c) \/ Return(c)
  \/ \E c \in Commands, r \in BOOLEAN : InspectBundle(c, r)
  \/ \E k \in {"restore", "reset"} : AskExclusive(k)

Spec == Init /\ [][Next]_vars

\* The runtime polls every call it has accepted until it answers.
Polled ==
  /\ WF_vars(Replacing)
  /\ \A c \in Commands : WF_vars(Enter(c)) /\ WF_vars(Return(c))

FairSpec == Spec /\ Polled

-----------------------------------------------------------------------------
(* Properties                                                                *)

TypeOK ==
  /\ live \in Present /\ wal \in Present /\ walBase \in Present
  /\ schema \in Schemas /\ supported \in Schemas
  /\ snapshots \in [Schemas -> Present \cup {Partial}]
  /\ recoveries \subseteq Versions /\ backup \in Present
  /\ strays \subseteq {"staging", "rollback", "extract", "create"}
  /\ mayRevert \subseteq Versions
  /\ process \in Booting \cup {"down", "ready", "blocked"}
  /\ terminal \in {"ready", "restore", "reset"} /\ pool \in {"open", "closed"}
  /\ pool = "open" => live \in Versions
  /\ token \in [content : Present, recovery : BOOLEAN, changed : BOOLEAN]
  /\ stage \in [Commands -> {"idle", "waiting", "running"}]
  /\ draft \in [Commands -> Present]
  /\ queue \in Seq(Commands \cup {"replacement"})
  /\ op \in [kind : {"none", "restore", "reset"}, at : Steps \cup {"none"}, chosen : Present,
            rescue : Present]
  /\ outcome \in {"none", "refused", "restored", "failed", "unrecovered", "reset", "resetFailed"}
  /\ seen \in Present /\ clean \in BOOLEAN
  /\ nextVersion \in 1 .. MaxVersion + 1 /\ stops \in 0 .. MaxStops

\* At every instant, hence after a stop at any of them, the household's data as
\* the user last saw it is what the database holds or a recovery bundle of it:
\* no restore, failed, interrupted or repeated, loses it.
SeenIsSafe == seen = Absent \/ Content = seen \/ seen \in recoveries

\* Frames of a -wal are only ever beside the database file they belong to: a
\* stop between two file operations never leaves SQLite a foreign -wal.
WalBelongs == wal # Absent => live = walBase

\* No command is inside the gate once the terminal state is set: none touches
\* a pool that is closing or a file that is being replaced.
GateHolds == terminal # "ready" => NobodyInside

\* A restore that reports a failed replacement has left the current data in
\* place (if SQLite's close had checkpointed).
FailedRestoreKeepsCurrent == outcome = "failed" /\ clean => Content = seen

\* A restore that reports success survives a power failure.
RestoredIsDurable == outcome = "restored" => mayRevert = {}

\* A restore takes the very bundle the user inspected.
RestoresInspected == op.chosen # Absent /\ token # NoToken => op.chosen = token.content

\* A restore or a reset that was asked for is answered: commands that keep
\* coming cannot keep it waiting for ever, and it waits for nothing else.
ReplacementAnswered == (op # NoOp) ~> (op = NoOp)

\* A migration starts with a copy of the whole content it migrates.
MigrationKeepsCopy ==
  [][process # "ready" /\ process' = "ready" /\ live # Absent /\ schema # supported
       => snapshots[schema] = Content]_vars

\* After a reset that reported success no copy of the household's data is left
\* in the application's directory.
ResetLeavesNothing ==
  outcome = "reset" =>
    /\ Content = Absent /\ recoveries = {} /\ strays = {}
    /\ \A s \in Schemas : snapshots[s] = Absent
=============================================================================
