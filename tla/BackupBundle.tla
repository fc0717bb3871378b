---------------------------- MODULE BackupBundle ----------------------------
(***************************************************************************)
(* The backup file: how it is written and verified, inspected, and read      *)
(* again by a restore (application/backup_service.rs, restore_service.rs,    *)
(* the inspections of state.rs).                                             *)
(*                                                                         *)
(* The file lies at a path the user chose, where any other program may       *)
(* replace it, rewrite it in place or remove it between two steps of the     *)
(* application.  A file is an inode: a reader that opened it keeps reading   *)
(* it after the path names another.  DatabaseLifecycle has what happens to   *)
(* the live database; here it is one row.                                    *)
(*                                                                         *)
(* A digest stands for what it is a digest of.  A file that is rewritten     *)
(* changes its length or its modification time.  What has left the path does *)
(* not come back to it: a file that is moved away while the application      *)
(* reads its successor and then put back is not noticed.                     *)
(***************************************************************************)
EXTENDS Integers, Sequences

CONSTANTS
  Supported,    \* max_supported_migration
  Households,
  Foreign,      \* archives other programs put at the path
  NoHousehold,  \* before onboarding
  Nobody,       \* no file, no inspection, no replacement
  MaxVersion,   \* bound on the commits
  MaxFiles,     \* bound on the files
  MaxRewrites   \* bound on the rewrites of a file

Databases ==
  [version : Nat, household : Households \cup {NoHousehold}, migration : Nat, objects : Nat,
   state : {"sound", "inconsistent", "damaged"}]

\* BackupManifestDto: what it says of the database entry.
Manifests == [household : Households, migration : Nat \ {0}, digest : Databases]

\* One name stands for all that neither entry has.
EntryNames == {"manifest.json", "nestworth.sqlite3", "other"}
Archives   == Seq([name : EntryNames, holds : Manifests \cup Databases])

ASSUME BundleConstants ==
  /\ Supported \in Nat \ {0} /\ Foreign \subseteq Archives
  /\ MaxVersion \in Nat /\ MaxFiles \in Nat /\ MaxRewrites \in Nat
  /\ NoHousehold \notin Households /\ Nobody \notin Nat

VARIABLES
  current,     \* the live database
  path,        \* the file the path names, or Nobody
  contents,    \* the files there have been: [rewrites, archive]
  made,        \* the files create_backup has put there
  writer,      \* a create_backup in progress
  inspection,  \* an inspect_backup in progress
  token,       \* the StoredBackupInspection the user holds, with what it showed
  restore,     \* a restore_backup in progress
  replaced     \* the last replacement of the live database

bundleFiles == <<path, contents, made>>
bundleVars  == <<current, bundleFiles, writer, inspection, token, restore, replaced>>

Off == [at |-> "idle"]

-----------------------------------------------------------------------------
(* Archives                                                                  *)

Manifest(d) == [household |-> d.household, migration |-> d.migration, digest |-> d]

\* write_bundle: the manifest first.
Bundle(d) == <<[name |-> "manifest.json", holds |-> Manifest(d)],
               [name |-> "nestworth.sqlite3", holds |-> d]>>

\* An archive with no directory at its end: cut short, or not an archive.
Broken == <<>>

\* read_bundle, up to the manifest: exactly two entries, the manifest first.
Opens(archive) ==
  /\ Len(archive) = 2
  /\ archive[1].name = "manifest.json" /\ archive[2].name = "nestworth.sqlite3"
  /\ archive[1].holds \in Manifests

\* read_bundle, from there: the database entry has the length and the digest of
\* the manifest.
Matches(archive, manifest) == Opens(archive) /\ archive[2].holds = manifest.digest

\* expected_schema_objects_for: every migration has a set of objects of its own.
ExpectedObjects(migration) == migration

\* What only a database of a known migration is asked for.
Recognised(d) == d.migration <= Supported

\* inspect_database_copy, against the migration of the manifest.
InspectCopy(d, manifest) ==
  /\ d \in Databases
  /\ d.migration = manifest.migration
  /\ d.state # "damaged"
  /\ Recognised(d) => d.objects = ExpectedObjects(d.migration) /\ d.household # NoHousehold

\* The household of the manifest is that of the database.
SameHousehold(d, manifest) == Recognised(d) => d.household = manifest.household

\* migrate_staged_database; validate_application_consistency may refuse it.
Consistent(d) == d.state = "sound"
Migrated(d)   == [d EXCEPT !.migration = Supported, !.objects = ExpectedObjects(Supported)]

\* file_metadata of a file; the device goes with the inode, the length with the time.
Metadata(f) == [file |-> f, rewrites |-> contents[f].rewrites]

\* same_file_metadata: the path names the file that was seen, as it was.
Same(source) == path = source.file /\ Metadata(path) = source

-----------------------------------------------------------------------------
(* The file, in the hands of others                                          *)

NewFile(archive) ==
  /\ Len(contents) < MaxFiles
  /\ contents' = Append(contents, [rewrites |-> 0, archive |-> archive])
  /\ path' = Len(contents) + 1

ReplaceFile ==
  /\ \E archive \in Foreign : NewFile(archive)
  /\ UNCHANGED <<current, made, writer, inspection, token, restore, replaced>>

\* Half of a rewrite leaves the archive broken.
RewriteFile ==
  /\ path # Nobody /\ contents[path].rewrites < MaxRewrites
  /\ \E archive \in Foreign \cup {Broken} :
       contents' = [contents EXCEPT ![path] = [rewrites |-> @.rewrites + 1, archive |-> archive]]
  /\ UNCHANGED <<current, path, made, writer, inspection, token, restore, replaced>>

RemoveFile ==
  /\ path # Nobody
  /\ path' = Nobody
  /\ UNCHANGED <<current, contents, made, writer, inspection, token, restore, replaced>>

-----------------------------------------------------------------------------
(* create_backup                                                             *)

\* Shared commands run beside each other; a restore excludes them.
Shared == restore.at = "idle"

Commit ==
  /\ Shared /\ current.version < MaxVersion
  /\ \E h \in Households :
       current' = [current EXCEPT !.version = @ + 1,
                                  !.household = IF @ = NoHousehold THEN h ELSE @]
  /\ UNCHANGED <<bundleFiles, writer, inspection, token, restore, replaced>>

\* VACUUM INTO a temporary directory, and the inspection of that copy.
CopyDatabase ==
  /\ Shared /\ writer.at = "idle"
  /\ InspectCopy(current, Manifest(current)) /\ current.migration = Supported
  /\ writer' = [at |-> "writing", database |-> current]
  /\ UNCHANGED <<current, bundleFiles, inspection, token, restore, replaced>>

\* The storage may lose what is written to the temporary file.
WriteBundle ==
  /\ writer.at = "writing"
  /\ \E archive \in {Bundle(writer.database), Broken} :
       writer' = [at |-> "written", database |-> writer.database, archive |-> archive]
  /\ UNCHANGED <<current, bundleFiles, inspection, token, restore, replaced>>

\* Mutant of ReadBack: what was written is not read again.
ReadBackNothing == TRUE

\* The bundle is read back and compared with what was to be written.
ReadBack == Opens(writer.archive) /\ Matches(writer.archive, Manifest(writer.database))

\* The rename over the path.
PublishBundle ==
  /\ writer.at = "written"
  /\ ReadBack
  /\ NewFile(writer.archive)
  /\ made' = made \cup {path'}
  /\ writer' = Off
  /\ UNCHANGED <<current, inspection, token, restore, replaced>>

\* An error at any step: the temporary file and directory are dropped.
FailBackup ==
  /\ writer.at # "idle"
  /\ writer' = Off
  /\ UNCHANGED <<current, bundleFiles, inspection, token, restore, replaced>>

-----------------------------------------------------------------------------
(* inspect_backup                                                            *)

\* validate_source
SelectFile ==
  /\ Shared /\ inspection.at = "idle" /\ path # Nobody
  /\ inspection' = [at |-> "selected", source |-> Metadata(path)]
  /\ UNCHANGED <<current, bundleFiles, writer, token, restore, replaced>>

\* The file is opened and its manifest read.
OpenBundle ==
  /\ inspection.at = "selected"
  /\ path # Nobody /\ Opens(contents[path].archive)
  /\ inspection' = [at |-> "opened", source |-> inspection.source, file |-> path,
                    manifest |-> contents[path].archive[1].holds]
  /\ UNCHANGED <<current, bundleFiles, writer, token, restore, replaced>>

\* The database is copied out of the file that was opened, and inspected.
ReadDatabase ==
  /\ inspection.at = "opened"
  /\ LET archive == contents[inspection.file].archive IN
       /\ Matches(archive, inspection.manifest)
       /\ InspectCopy(archive[2].holds, inspection.manifest)
       /\ SameHousehold(archive[2].holds, inspection.manifest)
  /\ inspection' = [inspection EXCEPT !.at = "read"]
  /\ UNCHANGED <<current, bundleFiles, writer, token, restore, replaced>>

\* The path still names the file that was selected, as it was.
CompareSource ==
  /\ inspection.at = "read"
  /\ Same(inspection.source)
  /\ inspection' = [inspection EXCEPT !.at = "compared"]
  /\ UNCHANGED <<current, bundleFiles, writer, token, restore, replaced>>

\* The hash of whatever the path names now.
IssueToken ==
  /\ inspection.at = "compared" /\ path # Nobody
  /\ token' = [source |-> inspection.source, hash |-> contents[path].archive,
               shown |-> inspection.manifest]
  /\ inspection' = Off
  /\ UNCHANGED <<current, bundleFiles, writer, restore, replaced>>

\* Refused, or an error at any step.
FailInspection ==
  /\ inspection.at # "idle"
  /\ inspection' = Off
  /\ UNCHANGED <<current, bundleFiles, writer, token, restore, replaced>>

\* INSPECTION_TOKEN_TTL has gone by, or the application ends.
ExpireToken ==
  /\ token # Nobody
  /\ token' = Nobody
  /\ UNCHANGED <<current, bundleFiles, writer, inspection, restore, replaced>>

-----------------------------------------------------------------------------
(* restore_backup                                                            *)

GoOn(step) == restore' = [restore EXCEPT !.at = step]

\* The exclusive permit, and the token.
ConfirmRestore ==
  /\ Shared /\ writer.at = "idle" /\ inspection.at = "idle"
  /\ token # Nobody
  /\ restore' = [at |-> "metadata", token |-> token]
  /\ UNCHANGED <<current, bundleFiles, writer, inspection, token, replaced>>

\* revalidate_inspection_source: the metadata, then the hash, of the path.
CheckMetadata(step, next) ==
  /\ restore.at = step
  /\ Same(restore.token.source)
  /\ GoOn(next)
  /\ UNCHANGED <<current, bundleFiles, writer, inspection, token, replaced>>

CheckHash(step, next) ==
  /\ restore.at = step
  /\ path # Nobody /\ contents[path].archive = restore.token.hash
  /\ GoOn(next)
  /\ UNCHANGED <<current, bundleFiles, writer, inspection, token, replaced>>

OpenStaged ==
  /\ restore.at = "open"
  /\ path # Nobody /\ Opens(contents[path].archive)
  /\ restore' = [at |-> "extract", token |-> restore.token, file |-> path,
                 manifest |-> contents[path].archive[1].holds]
  /\ UNCHANGED <<current, bundleFiles, writer, inspection, token, replaced>>

\* Mutant of AfterStaging: the source is not checked a second time.
StraightOn == "replace"

\* The source is checked a second time once the copy is staged.
AfterStaging == "metadataAgain"

\* The copy is extracted, refused if its migration is not supported, inspected
\* and migrated.
StageDatabase ==
  /\ restore.at = "extract"
  /\ LET archive == contents[restore.file].archive
         d       == archive[2].holds
     IN  /\ Matches(archive, restore.manifest)
         /\ restore.manifest.migration <= Supported
         /\ InspectCopy(d, restore.manifest) /\ Consistent(d)
         /\ restore' = [at |-> AfterStaging, token |-> restore.token, file |-> restore.file,
                        staged |-> d]
  /\ UNCHANGED <<current, bundleFiles, writer, inspection, token, replaced>>

\* The staged copy takes the place of the live database, and the application
\* has to be started again.
ReplaceLive ==
  /\ restore.at = "replace"
  /\ current' = Migrated(restore.staged)
  /\ replaced' = [shown |-> restore.token.shown, taken |-> restore.staged]
  /\ restore' = Off /\ token' = Nobody
  /\ UNCHANGED <<bundleFiles, writer, inspection>>

FailRestore ==
  /\ restore.at # "idle"
  /\ restore' = Off
  /\ UNCHANGED <<current, bundleFiles, writer, inspection, token, replaced>>

-----------------------------------------------------------------------------
BundleInit ==
  /\ current = [version |-> 0, household |-> NoHousehold, migration |-> Supported,
                objects |-> ExpectedObjects(Supported), state |-> "sound"]
  /\ path = Nobody /\ contents = <<>> /\ made = {}
  /\ writer = Off /\ inspection = Off /\ token = Nobody /\ restore = Off /\ replaced = Nobody

Others   == ReplaceFile \/ RewriteFile \/ RemoveFile
Creates  == CopyDatabase \/ WriteBundle \/ PublishBundle \/ FailBackup
Inspects == SelectFile \/ OpenBundle \/ ReadDatabase \/ CompareSource \/ IssueToken
            \/ FailInspection \/ ExpireToken
Restores == ConfirmRestore
            \/ CheckMetadata("metadata", "hash") \/ CheckHash("hash", "open")
            \/ OpenStaged \/ StageDatabase
            \/ CheckMetadata("metadataAgain", "hashAgain") \/ CheckHash("hashAgain", "replace")
            \/ ReplaceLive \/ FailRestore

BundleNext == Others \/ Commit \/ Creates \/ Inspects \/ Restores
BundleSpec == BundleInit /\ [][BundleNext]_bundleVars

-----------------------------------------------------------------------------
(* Properties                                                                *)

Sources == [file : Nat \ {0}, rewrites : Nat]
InspectionTokens == [source : Sources, hash : Archives, shown : Manifests]

Writers ==
  {Off} \cup [at : {"writing"}, database : Databases]
  \cup [at : {"written"}, database : Databases, archive : Archives]
Inspections ==
  {Off} \cup [at : {"selected"}, source : Sources]
  \cup [at : {"opened", "read", "compared"}, source : Sources, file : Nat, manifest : Manifests]
Restorations ==
  {Off} \cup [at : {"metadata", "hash", "open"}, token : InspectionTokens]
  \cup [at : {"extract"}, token : InspectionTokens, file : Nat, manifest : Manifests]
  \cup [at : {"metadataAgain", "hashAgain", "replace"}, token : InspectionTokens, file : Nat,
        staged : Databases]

BundleTypeOK ==
  /\ current \in Databases
  /\ contents \in Seq([rewrites : Nat, archive : Archives])
  /\ path \in DOMAIN contents \cup {Nobody} /\ made \subseteq DOMAIN contents
  /\ writer \in Writers /\ inspection \in Inspections /\ restore \in Restorations
  /\ token \in InspectionTokens \cup {Nobody}
  /\ replaced \in [shown : Manifests, taken : Databases] \cup {Nobody}

\* What replaces the live database is the database whose manifest the user was
\* shown, sound and of a supported migration, although the path is read three
\* times and anyone may replace or rewrite the file in between; and a backup
\* nobody has touched since it was made is one that an inspection accepts.
RestoredIsShown ==
  /\ replaced # Nobody =>
       /\ replaced.taken = replaced.shown.digest
       /\ replaced.taken.household = replaced.shown.household
       /\ replaced.taken.state = "sound" /\ Recognised(replaced.taken)
  /\ \A f \in made : contents[f].rewrites = 0 =>
       LET archive == contents[f].archive IN
         /\ Opens(archive) /\ Matches(archive, archive[1].holds)
         /\ InspectCopy(archive[2].holds, archive[1].holds)
         /\ SameHousehold(archive[2].holds, archive[1].holds)
=============================================================================
