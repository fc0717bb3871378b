----------------------------- MODULE MCUserFiles -----------------------------
(* Files the user selects, which other programs may change: imported ones in *)
(* one part, backups in the other.                                           *)
EXTENDS MCCsvImport, BackupBundle

Database(household, migration, state) ==
  [version |-> 9, household |-> household, migration |-> migration, objects |-> migration,
   state |-> state]
Ours  == Database("ours", Supported, "sound")
Older == Database("theirs", Supported - 1, "sound")

\* Of an earlier and of a later release, inconsistent, and with another database
\* than its manifest says.
ForeignBundles ==
  {Bundle(Older), Bundle(Database("theirs", Supported + 1, "sound")),
   Bundle(Database("theirs", Supported - 1, "inconsistent")), <<Bundle(Ours)[1], Bundle(Older)[2]>>}

VARIABLE part

FilesInit ==
  /\ Init /\ BundleInit /\ part \in {"imports", "bundles"}
  /\ part = "bundles" => file.content = CHOOSE f \in SmallFiles : TRUE
Importing == part = "imports" /\ Next /\ UNCHANGED <<bundleVars, part>>
Bundling  == part = "bundles" /\ BundleNext /\ UNCHANGED <<vars, part>>
FilesNext == Importing \/ Bundling
FilesSpec == FilesInit /\ [][FilesNext]_<<vars, bundleVars, part>>

\* Another program puts a file back that was at the path before.
PutFileBack ==
  /\ part = "bundles" /\ path' \in DOMAIN contents
  /\ UNCHANGED <<current, contents, made, writer, inspection, token, restore, replaced, vars, part>>
SwapSpec == FilesInit /\ [][FilesNext \/ PutFileBack]_<<vars, bundleVars, part>>
=============================================================================
