---------------------- MODULE DatabaseLifecycleProofs ----------------------
(***************************************************************************)
(* Proofs about DatabaseLifecycle, for any number of commands, versions,    *)
(* schemas and stops: its types, and the safety properties of the gate, of  *)
(* restore and of reset.                                                    *)
(***************************************************************************)
EXTENDS DatabaseLifecycle, TLAPS

-----------------------------------------------------------------------------
(* The inductive invariant.  The steps of an operation are grouped by what   *)
(* has happened before them.                                                 *)

AfterPublish == {"mark", "close", "sidecars", "rollback", "rename", "sync", "extract", "putback"}
AfterMark    == {"close", "sidecars", "rollback", "rename", "sync", "extract", "putback",
                 "snapshots", "artifacts", "database"}
AfterClose   == AfterMark \ {"close"}
NoFrames     == {"rollback", "rename", "sync", "extract", "putback", "database"}
Outside      == {"none", "queued"}

\* Where the process, the terminal state, the pool and the operation can be together.
ProcessControl ==
  /\ ~Up => op = NoOp /\ terminal = "ready" /\ pool = "closed"
  /\ WritableDb => pool = "open"

StepControl ==
  /\ op.at \in Outside => op.chosen = Absent
  /\ op.at \in {"stage", "rescue", "publish", "rollback", "rename", "sync", "extract", "putback"}
       => op.kind = "restore"
  /\ op.at \in {"snapshots", "artifacts", "database"} => op.kind = "reset"
  /\ op.at # "none" => op.kind \in {"restore", "reset"}
  /\ op.at \in {"rescue", "publish", "mark"} => WritableDb
  /\ op.at \in AfterMark => terminal = op.kind
  /\ op.at \in AfterClose => pool = "closed"

\* Nobody is inside from the moment an exclusive operation has entered.
Alone == op.at \notin Outside => NobodyInside

\* The database file is there for the frames beside it, the pool and the restore.
FilePresent ==
  /\ wal # Absent => walBase = live /\ live \in Versions
  /\ pool = "open" => live \in Versions
  /\ op.kind = "restore" /\ op.at \in AfterPublish => live \in Versions /\ op.rescue \in Versions
  /\ op.kind = "restore" /\ op.at \in {"rescue", "publish"} \cup AfterPublish
       => op.chosen \in Versions
  /\ op.at \in NoFrames => wal = Absent

\* What a power failure may undo is the rename of a restore.
Reverts == mayRevert # {} => terminal = "restore" /\ wal = Absent

\* The token describes the bundle it was given for.
TokenKnows ==
  /\ token # NoToken => token.content \in Versions
  /\ token # NoToken /\ ~token.recovery /\ ~token.changed => backup = token.content

\* A restore that answered after the terminal state was set leaves it set.
Answered == outcome \in {"restored", "failed"} => terminal = "restore" /\ op.at \in Outside

\* Where the data the user last saw is kept: in the open database, and from the
\* publication of the recovery bundle on in that bundle.
Kept ==
  /\ WritableDb => Content = seen
  /\ terminal = "reset" => seen = Absent
  /\ terminal = "restore" => seen \in recoveries
  /\ op.kind = "restore" /\ op.at \in AfterPublish => op.rescue = seen /\ seen \in recoveries

\* Up to the rename the current data is still in place.
StillCurrent ==
  /\ op.at = "close" /\ op.kind = "restore" => Content = seen
  /\ op.at \in {"sidecars", "rollback", "rename"} /\ op.kind = "restore" /\ clean
       => Content = seen /\ wal = Absent

Control  == ProcessControl /\ StepControl /\ Alone /\ GateHolds
Files    == FilePresent /\ Reverts
Tokens   == TokenKnows /\ RestoresInspected
Answers  == Answered /\ RestoredIsDurable
Data     == Kept /\ SeenIsSafe
Current  == StillCurrent /\ FailedRestoreKeepsCurrent

Inv == TypeOK /\ Control /\ Files /\ Tokens /\ Answers /\ Data /\ Current

LEMMA InitInv == Init => Inv
<1> SUFFICES ASSUME Init PROVE Inv OBVIOUS
<1> USE LifecycleConstants
<1>1. TypeOK
  BY DEF Init, TypeOK, Present, Versions, NoToken, NoOp, Absent, Booting
<1>2. Control /\ Answers
  BY DEF Init, Control, ProcessControl, StepControl, Alone, GateHolds, Answers, Answered, RestoredIsDurable,
         Outside, Up, WritableDb, NoOp, AfterMark, AfterClose
<1>3. Files /\ Tokens
  BY DEF Init, Files, FilePresent, Reverts, Tokens, TokenKnows, RestoresInspected, NoOp, NoFrames
<1>4. Data /\ Current
  BY DEF Init, Data, Kept, SeenIsSafe, Current, StillCurrent, FailedRestoreKeepsCurrent,
         WritableDb, NoOp
<1> QED BY <1>1, <1>2, <1>3, <1>4 DEF Inv

-----------------------------------------------------------------------------
(* What the steps that change several fields of a record do to each of them. *)

Operations == [kind : {"none", "restore", "reset"}, at : Steps \cup {"none"}, chosen : Present,
               rescue : Present]

LEMMA GoToFields ==
  ASSUME TypeOK, NEW s \in Steps, GoTo(s)
  PROVE  /\ op' \in Operations
         /\ op'.at = s /\ op'.kind = op.kind /\ op'.chosen = op.chosen /\ op'.rescue = op.rescue
BY DEF TypeOK, GoTo, Operations

LEMMA AnswerFields ==
  ASSUME NEW o, Answer(o)
  PROVE  op' \in Operations /\ op'.at = "none" /\ op'.kind = "none" /\ op'.chosen = Absent
BY LifecycleConstants DEF Answer, Operations, NoOp, Present, Absent

LEMMA StageFields ==
  ASSUME TypeOK, Stage
  PROVE  /\ op.at = "stage"
         /\ \/ /\ SourceUnchanged /\ WritableDb /\ UNCHANGED outcome
               /\ op' \in Operations
               /\ op'.kind = op.kind /\ op'.at = "rescue" /\ op'.rescue = op.rescue
               /\ op'.chosen = IF token.recovery THEN token.content ELSE backup
            \/ Answer("refused")
         /\ UNCHANGED <<files, supported, process, terminal, pool, token, gate, history>>
<1> DEFINE x == IF token.recovery THEN token.content ELSE backup
<1>1. CASE /\ SourceUnchanged /\ WritableDb /\ UNCHANGED outcome
           /\ op' = [op EXCEPT !.at = "rescue", !.chosen = x]
  <2>1. x \in Present BY DEF TypeOK
  <2>2. op \in Operations BY DEF TypeOK, Operations
  <2>3. op' \in Operations BY <1>1, <2>1, <2>2 DEF Operations, Steps
  <2>4. op'.kind = op.kind /\ op'.at = "rescue" /\ op'.rescue = op.rescue /\ op'.chosen = x
    BY <1>1, <2>2 DEF Operations
  <2> QED BY <1>1, <2>1, <2>3, <2>4 DEF Stage, At
<1>2. CASE Answer("refused") BY <1>2 DEF Stage, At
<1> QED BY <1>1, <1>2 DEF Stage

LEMMA PublishFields ==
  ASSUME TypeOK, PublishRescue
  PROVE  /\ op.at = "publish"
         /\ \/ /\ recoveries' = recoveries \cup {Content} /\ UNCHANGED outcome
               /\ Content \in Present => op' \in Operations
               /\ op'.kind = op.kind /\ op'.at = "mark" /\ op'.rescue = Content
               /\ op'.chosen = op.chosen
            \/ Answer("refused") /\ UNCHANGED recoveries
         /\ UNCHANGED <<live, wal, walBase, schema, snapshots, backup, strays, mayRevert,
                        supported, process, terminal, pool, token, gate, history>>
<1>1. CASE /\ recoveries' = recoveries \cup {Content} /\ UNCHANGED outcome
           /\ op' = [op EXCEPT !.at = "mark", !.rescue = Content]
  <2>1. op \in Operations BY DEF TypeOK, Operations
  <2>2. Content \in Present => op' \in Operations BY <1>1, <2>1 DEF Operations, Steps
  <2>3. op'.kind = op.kind /\ op'.at = "mark" /\ op'.rescue = Content /\ op'.chosen = op.chosen
    BY <1>1, <2>1 DEF Operations
  <2> QED BY <1>1, <2>2, <2>3 DEF PublishRescue, At
<1>2. CASE Answer("refused") /\ UNCHANGED recoveries BY <1>2 DEF PublishRescue, At
<1> QED BY <1>1, <1>2 DEF PublishRescue

LEMMA AskFields ==
  ASSUME NEW k \in {"restore", "reset"}, AskExclusive(k)
  PROVE  /\ op' \in Operations
         /\ op'.kind = k /\ op'.at = "queued" /\ op'.chosen = Absent
<1>1. NoOp \in Operations /\ NoOp.chosen = Absent
  BY LifecycleConstants DEF NoOp, Operations, Present, Absent
<1>2. op' = [NoOp EXCEPT !.kind = k, !.at = "queued"] BY DEF AskExclusive
<1> HIDE DEF NoOp
<1>3. op' \in Operations BY <1>1, <1>2 DEF Operations, Steps
<1>4. op'.kind = k /\ op'.at = "queued" /\ op'.chosen = NoOp.chosen
  BY <1>1, <1>2 DEF Operations
<1> QED BY <1>1, <1>3, <1>4

LEMMA TokenFields ==
  ASSUME TypeOK, NEW c \in Commands, PutBackup(c)
  PROVE  /\ token' \in [content : Present, recovery : BOOLEAN, changed : BOOLEAN]
         /\ token = NoToken => token' = NoToken
         /\ token'.content = token.content /\ token'.recovery = token.recovery
         /\ ~token.recovery /\ token # NoToken => token'.changed
<1>1. token \in [content : Present, recovery : BOOLEAN, changed : BOOLEAN] BY DEF TypeOK
<1>2. CASE token = NoToken \/ token.recovery BY <1>1, <1>2 DEF PutBackup
<1>3. CASE ~(token = NoToken \/ token.recovery)
  <2>1. token' = [token EXCEPT !.changed = TRUE] BY <1>3 DEF PutBackup
  <2> QED BY <1>1, <1>3, <2>1
<1> QED BY <1>2, <1>3

\* The types of every variable.
LEMMA TypesStep ==
  ASSUME TypeOK, Control, Files, Tokens, [Next]_vars PROVE TypeOK'
<1> USE LifecycleConstants DEF files, gate, history, Idle, At, TypeOK, Operations, Present,
              Versions, Absent, Partial, Booting, NoToken, NoOp, Content
<1>0. /\ Content \in Present /\ (pool = "open" => Content \in Versions)
      /\ op.at = "publish" => pool = "open"
      /\ op.at \in {"rename", "putback"}
           => live \in Versions /\ op.rescue \in Versions /\ pool = "closed"
      /\ op.at = "database" => pool = "closed"
      /\ ~Up => pool = "closed"
  BY DEF Control, ProcessControl, StepControl, Files, FilePresent, AfterPublish, AfterMark, AfterClose
<1>1. ASSUME NEW v \in Schemas, Install(v) PROVE TypeOK' BY <1>1 DEF Install
<1>2. CASE Launch BY <1>2 DEF Launch
<1>3. CASE Inspect BY <1>3 DEF Inspect
<1>4. CASE BeginSnapshot BY <1>4 DEF BeginSnapshot
<1>5. CASE FinishSnapshot BY <1>5 DEF FinishSnapshot
<1>6. CASE CopySidecars BY <1>6 DEF CopySidecars
<1>7. CASE Open BY <1>7 DEF Open
<1>8. CASE OpenFails BY <1>8 DEF OpenFails
<1>9. CASE Checkpoint BY <1>9 DEF Checkpoint
<1>10. CASE Expire BY <1>10 DEF Expire
<1>11. CASE EnterExclusive
  <2>1. op' \in Operations BY <1>11, GoToFields, AnswerFields DEF EnterExclusive, Failure, Steps
  <2>2. queue' \in Seq(Commands \cup {"replacement"}) BY <1>11 DEF EnterExclusive, MayEnter
  <2> QED BY <1>11, <2>1, <2>2 DEF EnterExclusive, Answer, Failure
<1>12. CASE Stage
  <2>1. op' \in Operations BY <1>12, StageFields, AnswerFields
  <2>2. outcome' = outcome \/ outcome' = "refused" BY <1>12, StageFields DEF Answer
  <2>3. UNCHANGED <<files, supported, process, terminal, pool, token, gate, history>> BY <1>12, StageFields
  <2> QED BY <2>1, <2>2, <2>3
<1>13. CASE BeginRescue
  <2>1. op' \in Operations BY <1>13, GoToFields, AnswerFields DEF BeginRescue, Failure, Steps
  <2> QED BY <1>13, <2>1 DEF BeginRescue, Answer, Failure
<1>14. CASE PublishRescue
  <2>1. op' \in Operations BY <1>14, <1>0, PublishFields, AnswerFields
  <2>2. op.at = "publish" /\ Content \in Versions BY <1>14, <1>0, PublishFields
  <2>3. recoveries' \subseteq Versions BY <1>14, <2>2, PublishFields, ZenonT(60)
  <2>4. outcome' = outcome \/ outcome' = "refused" BY <1>14, PublishFields DEF Answer
  <2>5. UNCHANGED <<live, wal, walBase, schema, snapshots, backup, strays, mayRevert, supported,
                  process, terminal, pool, token, gate, history>>
    BY <1>14, PublishFields
  <2> HIDE DEF Content
  <2> QED BY <2>1, <2>3, <2>4, <2>5
<1>15. CASE Mark
  <2>1. op' \in Operations BY <1>15, GoToFields, AnswerFields DEF Mark, Failure, Steps
  <2>2. op.kind \in {"restore", "reset"} BY <1>15 DEF Mark, Control, StepControl, Outside
  <2>3. seen' \in Present BY <1>15 DEF Mark
  <2> QED BY <1>15, <2>1, <2>2, <2>3 DEF Mark, Answer, Failure
<1>16. CASE ClosePool
  <2>1. op' \in Operations BY <1>16, GoToFields, AnswerFields DEF ClosePool, Failure, Steps
  <2>2. live' \in Present /\ wal' \in Present /\ walBase' \in Present /\ clean' \in BOOLEAN
    <3>1. \/ live' = Content /\ wal' = Absent /\ walBase' = Absent /\ clean' = TRUE
          \/ clean' = FALSE /\ UNCHANGED <<live, wal, walBase>>
      BY <1>16 DEF ClosePool
    <3>2. Content \in Present /\ Absent \in Present /\ live \in Present /\ wal \in Present
            /\ walBase \in Present
      BY <1>0
    <3> HIDE DEF Content, Present, Absent, TypeOK
    <3> QED BY <3>1, <3>2
  <2>3. pool' = "closed" BY <1>16 DEF ClosePool, PoolAfterClose
  <2> QED BY <1>16, <2>1, <2>2, <2>3, SMTT(20) DEF ClosePool
<1>17. CASE RemoveSidecars
  <2>1. op' \in Operations BY <1>17, GoToFields, AnswerFields DEF RemoveSidecars, Failure, Steps
  <2>2. wal' \in Present /\ walBase' \in Present BY <1>17 DEF RemoveSidecars, FramesLeft
  <2> QED BY <1>17, <2>1, <2>2 DEF RemoveSidecars, Answer, Failure
<1>18. CASE CopyRollback
  <2>1. op' \in Operations BY <1>18, GoToFields, AnswerFields DEF CopyRollback, Failure, Steps
  <2> QED BY <1>18, <2>1 DEF CopyRollback, Answer, Failure
<1>19. CASE Replace
  <2>1. op' \in Operations BY <1>19, GoToFields, AnswerFields DEF Replace, Failure, Steps
  <2>2. op.at = "rename" /\ live \in Versions /\ pool = "closed" BY <1>19, <1>0 DEF Replace
  <2>3. live' \in Present /\ mayRevert' \subseteq Versions BY <1>19, <2>2 DEF Replace
  <2> QED BY <1>19, <2>1, <2>2, <2>3 DEF Replace, Answer, Failure
<1>20. CASE SyncLive
  <2>1. op' \in Operations BY <1>20, GoToFields, AnswerFields DEF SyncLive, Failure, Steps
  <2>2. strays' \subseteq {"staging", "rollback", "extract", "create"} /\ mayRevert' \subseteq Versions BY <1>20 DEF SyncLive, Synced
  <2> QED BY <1>20, <2>1, <2>2 DEF SyncLive, Answer, Failure
<1>21. CASE Extract
  <2>1. op' \in Operations BY <1>21, GoToFields, AnswerFields DEF Extract, Failure, Steps
  <2> QED BY <1>21, <2>1 DEF Extract, Answer, Failure
<1>22. CASE PutBack
  <2>1. op' \in Operations BY <1>22, GoToFields, AnswerFields DEF PutBack, Failure, Steps
  <2>2. op.at = "putback" /\ live \in Versions /\ op.rescue \in Versions BY <1>22, <1>0 DEF PutBack
  <2>3. live' \in Present /\ mayRevert' \subseteq Versions /\ (live \in Versions => live' \in Versions)
    BY <1>22, <2>2 DEF PutBack, Rescued
  <2>4. strays' \subseteq {"staging", "rollback", "extract", "create"} BY <1>22 DEF PutBack
  <2> QED BY <1>22, <2>1, <2>2, <2>3, <2>4 DEF PutBack, Answer, Failure
<1>23. CASE DropSnapshots
  <2>1. op' \in Operations BY <1>23, GoToFields, AnswerFields DEF DropSnapshots, Failure, Steps
  <2> QED BY <1>23, <2>1 DEF DropSnapshots, Answer, Failure
<1>24. CASE DropArtifacts
  <2>1. op' \in Operations BY <1>24, GoToFields, AnswerFields DEF DropArtifacts, Failure, Steps
  <2>2. strays' \subseteq {"staging", "rollback", "extract", "create"} /\ recoveries' \subseteq Versions
    BY <1>24 DEF DropArtifacts, Owned
  <2> QED BY <1>24, <2>1, <2>2 DEF DropArtifacts, Answer, Failure
<1>25. CASE DropDatabase
  <2>1. op' \in Operations BY <1>25, GoToFields, AnswerFields DEF DropDatabase, Failure, Steps
  <2>2. pool = "closed" BY <1>25, <1>0 DEF DropDatabase
  <2> QED BY <1>25, <2>1, <2>2 DEF DropDatabase, Answer, Failure
<1>26. ASSUME NEW v \in mayRevert \cup {live}, Stop(v) PROVE TypeOK'
  <2>1. strays' \subseteq {"staging", "rollback", "extract", "create"} BY <1>26 DEF Stop, Unfinished
  <2>2. live' \in Present /\ mayRevert' \subseteq Versions BY <1>26 DEF Stop
  <2>3. op' \in Operations /\ token' \in [content : Present, recovery : BOOLEAN, changed : BOOLEAN]
    BY <1>26, LifecycleConstants DEF Stop
  <2>4. /\ stage' \in [Commands -> {"idle", "waiting", "running"}]
      /\ draft' \in [Commands -> Present]
      /\ queue' \in Seq(Commands \cup {"replacement"})
    BY <1>26, LifecycleConstants DEF Stop
  <2>5. stops' \in 0 .. MaxStops BY <1>26, LifecycleConstants DEF Stop
  <2> QED BY <1>26, <2>1, <2>2, <2>3, <2>4, <2>5 DEF Stop
<1>27. ASSUME NEW c \in Commands, Ask(c) PROVE TypeOK'
  <2>1. queue' \in Seq(Commands \cup {"replacement"}) BY <1>27 DEF Ask, Join
  <2>2. stage' \in [Commands -> {"idle", "waiting", "running"}] BY <1>27 DEF Ask
  <2> QED BY <1>27, <2>1, <2>2 DEF Ask
<1>28. ASSUME NEW c \in Commands, Enter(c) PROVE TypeOK'
  <2>1. queue' \in Seq(Commands \cup {"replacement"}) BY <1>28 DEF Enter, MayEnter
  <2>2. stage' \in [Commands -> {"idle", "waiting", "running"}] BY <1>28 DEF Enter
  <2> QED BY <1>28, <2>1, <2>2 DEF Enter
<1>29. ASSUME NEW c \in Commands, Commit(c) PROVE TypeOK' BY <1>29 DEF Commit
<1>30. ASSUME NEW c \in Commands, CopyOut(c) PROVE TypeOK' BY <1>30 DEF CopyOut
<1>31. ASSUME NEW c \in Commands, PutBackup(c) PROVE TypeOK'
  <2>1. token' \in [content : Present, recovery : BOOLEAN, changed : BOOLEAN]
    BY <1>31, TokenFields
  <2>2. backup' \in Present /\ draft' \in [Commands -> Present] BY <1>31 DEF PutBackup
  <2> QED BY <1>31, <2>1, <2>2, SMTT(60) DEF PutBackup
<1>32. ASSUME NEW c \in Commands, Return(c) PROVE TypeOK' BY <1>32 DEF Return
<1>33. ASSUME NEW c \in Commands, NEW r \in BOOLEAN, InspectBundle(c, r) PROVE TypeOK'
  BY <1>33 DEF InspectBundle
<1>34. ASSUME NEW k \in {"restore", "reset"}, AskExclusive(k) PROVE TypeOK'
  <2>1. op' \in Operations BY <1>34, AskFields
  <2>2. queue' \in Seq(Commands \cup {"replacement"}) BY <1>34 DEF AskExclusive, Join
  <2> QED BY <1>34, <2>1, <2>2, SMTT(60) DEF AskExclusive
<1>35. CASE UNCHANGED vars BY <1>35 DEF vars
<1> HIDE DEF TypeOK, files, gate, history, Idle, At, NoOp, NoToken, Content
<1> QED
  BY <1>1, <1>2, <1>3, <1>4, <1>5, <1>6, <1>7, <1>8, <1>9, <1>10, <1>11, <1>12, <1>13, <1>14,
     <1>15, <1>16, <1>17, <1>18, <1>19, <1>20, <1>21, <1>22, <1>23, <1>24, <1>25, <1>26, <1>27,
     <1>28, <1>29, <1>30, <1>31, <1>32, <1>33, <1>34, <1>35 DEF Next, Boot, Replacing

\* The gate: an operation enters alone, commits to the terminal state and only then closes
\* the pool; a stop ends it all.
LEMMA ControlStep ==
  ASSUME TypeOK, Control, [Next]_vars PROVE Control'
<1> USE LifecycleConstants DEF files, gate, history, Idle, GoTo, Answer, Failure, At,
              ProcessControl, StepControl, Outside, AfterMark, AfterClose, Up, WritableDb, NoOp,
              Booting, Alone, GateHolds, NobodyInside, TypeOK, Control, Absent, GateOpen,
              PoolAfterClose, FramesLeft, Synced, Join, MayEnter
<1>1. ASSUME NEW v \in Schemas, Install(v) PROVE Control' BY <1>1 DEF Install
<1>2. CASE Launch BY <1>2 DEF Launch
<1>3. CASE Inspect BY <1>3 DEF Inspect
<1>4. CASE BeginSnapshot BY <1>4 DEF BeginSnapshot
<1>5. CASE FinishSnapshot BY <1>5 DEF FinishSnapshot
<1>6. CASE CopySidecars BY <1>6 DEF CopySidecars
<1>7. CASE Open BY <1>7 DEF Open
<1>8. CASE OpenFails BY <1>8 DEF OpenFails
<1>9. CASE Checkpoint BY <1>9 DEF Checkpoint
<1>10. CASE Expire BY <1>10 DEF Expire
<1>11. CASE EnterExclusive
  <2>1. /\ op.at = "queued" /\ NobodyInside /\ Up
        /\ UNCHANGED <<process, terminal, pool, stage>>
      BY <1>11 DEF EnterExclusive
  <2>2. \/ GoTo(IF op.kind = "restore" THEN "stage" ELSE "mark") /\ (op.kind = "reset" => WritableDb)
        \/ Answer("refused")
      BY <1>11 DEF EnterExclusive
  <2>3. CASE GoTo(IF op.kind = "restore" THEN "stage" ELSE "mark") /\ (op.kind = "reset" => WritableDb)
      BY <2>1, <2>3, GoToFields DEF Steps
  <2>4. CASE Answer("refused") BY <2>1, <2>4
  <2> QED BY <2>2, <2>3, <2>4
<1>12. CASE Stage
  BY <1>12, StageFields, SMTT(60) DEF Operations
<1>13. CASE BeginRescue BY <1>13 DEF BeginRescue
<1>14. CASE PublishRescue
  BY <1>14, PublishFields, SMTT(60) DEF Operations
<1>15. CASE Mark BY <1>15 DEF Mark
<1>16. CASE ClosePool BY <1>16 DEF ClosePool
<1>17. CASE RemoveSidecars BY <1>17 DEF RemoveSidecars
<1>18. CASE CopyRollback BY <1>18 DEF CopyRollback
<1>19. CASE Replace BY <1>19 DEF Replace
<1>20. CASE SyncLive BY <1>20 DEF SyncLive
<1>21. CASE Extract BY <1>21 DEF Extract
<1>22. CASE PutBack BY <1>22 DEF PutBack
<1>23. CASE DropSnapshots BY <1>23 DEF DropSnapshots
<1>24. CASE DropArtifacts BY <1>24 DEF DropArtifacts
<1>25. CASE DropDatabase BY <1>25 DEF DropDatabase
<1>26. ASSUME NEW v \in mayRevert \cup {live}, Stop(v) PROVE Control' BY <1>26 DEF Stop
<1>27. ASSUME NEW c \in Commands, Ask(c) PROVE Control' BY <1>27 DEF Ask
<1>28. ASSUME NEW c \in Commands, Enter(c) PROVE Control' BY <1>28 DEF Enter
<1>29. ASSUME NEW c \in Commands, Commit(c) PROVE Control' BY <1>29 DEF Commit
<1>30. ASSUME NEW c \in Commands, CopyOut(c) PROVE Control' BY <1>30 DEF CopyOut
<1>31. ASSUME NEW c \in Commands, PutBackup(c) PROVE Control' BY <1>31, TokenFields DEF PutBackup
<1>32. ASSUME NEW c \in Commands, Return(c) PROVE Control' BY <1>32 DEF Return
<1>33. ASSUME NEW c \in Commands, NEW r \in BOOLEAN, InspectBundle(c, r) PROVE Control'
  BY <1>33 DEF InspectBundle
<1>34. ASSUME NEW k \in {"restore", "reset"}, AskExclusive(k) PROVE Control'
  BY <1>34, AskFields DEF AskExclusive, Operations
<1>35. CASE UNCHANGED vars BY <1>35 DEF vars
<1> HIDE DEF files, gate, history, Idle, GoTo, Answer, Failure, At, ProcessControl,
             StepControl, Outside, AfterMark, AfterClose, Up, WritableDb, NoOp, Booting, Alone,
             GateHolds, NobodyInside, TypeOK, Control, Absent, GateOpen, PoolAfterClose,
             FramesLeft, Synced, Join, MayEnter
<1> QED
  BY <1>1, <1>2, <1>3, <1>4, <1>5, <1>6, <1>7, <1>8, <1>9, <1>10, <1>11, <1>12, <1>13, <1>14,
     <1>15, <1>16, <1>17, <1>18, <1>19, <1>20, <1>21, <1>22, <1>23, <1>24, <1>25, <1>26, <1>27,
     <1>28, <1>29, <1>30, <1>31, <1>32, <1>33, <1>34, <1>35 DEF Next, Boot, Replacing

\* The files beside the database: frames belong to it, and are gone before it is replaced.
LEMMA FilesStep ==
  ASSUME TypeOK, Control, Files, Tokens, [Next]_vars PROVE Files'
<1> USE LifecycleConstants DEF files, gate, history, Idle, GoTo, Answer, Failure, At,
              ProcessControl, StepControl, Outside, AfterMark, AfterClose, Up, WritableDb, NoOp,
              Booting, Content, Present, Versions, Absent, FilePresent, AfterPublish, NoFrames,
              Reverts, TypeOK, Control, Files, Tokens, TokenKnows, NoToken, SourceUnchanged,
              GateOpen, PoolAfterClose, FramesLeft, Rescued, Synced
<1>1. ASSUME NEW v \in Schemas, Install(v) PROVE Files' BY <1>1 DEF Install
<1>2. CASE Launch BY <1>2 DEF Launch
<1>3. CASE Inspect BY <1>3 DEF Inspect
<1>4. CASE BeginSnapshot BY <1>4 DEF BeginSnapshot
<1>5. CASE FinishSnapshot BY <1>5 DEF FinishSnapshot
<1>6. CASE CopySidecars BY <1>6 DEF CopySidecars
<1>7. CASE Open BY <1>7 DEF Open
<1>8. CASE OpenFails BY <1>8 DEF OpenFails
<1>9. CASE Checkpoint BY <1>9 DEF Checkpoint
<1>10. CASE Expire BY <1>10 DEF Expire
<1>11. CASE EnterExclusive
  BY <1>11, SMTT(60) DEF EnterExclusive
<1>12. CASE Stage
  BY <1>12, StageFields, SMTT(60) DEF Operations
<1>13. CASE BeginRescue
  BY <1>13, SMTT(60) DEF BeginRescue
<1>14. CASE PublishRescue
  <2>1. /\ op.at = "publish" /\ op.kind = "restore" /\ terminal = "ready" /\ pool = "open"
        /\ live \in Versions /\ op.chosen \in Versions /\ Content \in Versions
        /\ UNCHANGED <<live, wal, walBase, pool, terminal, mayRevert>>
    BY <1>14, PublishFields
  <2>2. \/ /\ op'.kind = op.kind /\ op'.at = "mark" /\ op'.rescue = Content
           /\ op'.chosen = op.chosen
        \/ Answer("refused")
    BY <1>14, PublishFields
  <2>3. ASSUME op'.kind = op.kind, op'.at = "mark", op'.rescue = Content, op'.chosen = op.chosen
        PROVE  Files'
    BY <2>1, <2>3
  <2>4. CASE Answer("refused") BY <2>1, <2>4, AnswerFields
  <2> QED BY <2>2, <2>3, <2>4
<1>15. CASE Mark
  BY <1>15, SMTT(60) DEF Mark
<1>16. CASE ClosePool
  BY <1>16, SMTT(60) DEF ClosePool
<1>17. CASE RemoveSidecars
  BY <1>17, SMTT(60) DEF RemoveSidecars
<1>18. CASE CopyRollback
  <2>1. /\ op.at = "rollback" /\ op.kind = "restore" /\ terminal = "restore" /\ wal = Absent
        /\ live \in Versions /\ op.chosen \in Versions /\ op.rescue \in Versions
        /\ UNCHANGED <<live, wal, walBase, pool, terminal, mayRevert>>
    BY <1>18 DEF CopyRollback
  <2>2. GoTo("rename") \/ Answer("failed") BY <1>18, <2>1 DEF CopyRollback
  <2>3. CASE GoTo("rename") BY <2>1, <2>3, GoToFields DEF Steps
  <2>4. CASE Answer("failed") BY <2>1, <2>4, AnswerFields
  <2> QED BY <2>2, <2>3, <2>4
<1>19. CASE Replace
  <2>1. /\ op.at = "rename" /\ op.kind = "restore" /\ terminal = "restore" /\ wal = Absent
       /\ live \in Versions /\ op.chosen \in Versions /\ op.rescue \in Versions /\ pool = "closed"
    BY <1>19 DEF Replace
  <2>2. /\ op'.at \in {"sync", "extract"} /\ op'.rescue = op.rescue /\ op'.chosen = op.chosen
       /\ UNCHANGED <<wal, walBase, pool, terminal>>
    BY <1>19, GoToFields DEF Replace, Steps
  <2>3. live' \in Versions BY <1>19, <2>1 DEF Replace
  <2> QED BY <2>1, <2>2, <2>3
<1>20. CASE SyncLive
  BY <1>20, SMTT(60) DEF SyncLive
<1>21. CASE Extract
  BY <1>21, SMTT(60) DEF Extract
<1>22. CASE PutBack
  BY <1>22, SMTT(60) DEF PutBack
<1>23. CASE DropSnapshots
  BY <1>23, SMTT(60) DEF DropSnapshots
<1>24. CASE DropArtifacts
  BY <1>24, SMTT(60) DEF DropArtifacts
<1>25. CASE DropDatabase
  BY <1>25, SMTT(60) DEF DropDatabase
<1>26. ASSUME NEW v \in mayRevert \cup {live}, Stop(v) PROVE Files' BY <1>26 DEF Stop
<1>27. ASSUME NEW c \in Commands, Ask(c) PROVE Files' BY <1>27 DEF Ask
<1>28. ASSUME NEW c \in Commands, Enter(c) PROVE Files' BY <1>28 DEF Enter
<1>29. ASSUME NEW c \in Commands, Commit(c) PROVE Files' BY <1>29 DEF Commit
<1>30. ASSUME NEW c \in Commands, CopyOut(c) PROVE Files' BY <1>30 DEF CopyOut
<1>31. ASSUME NEW c \in Commands, PutBackup(c) PROVE Files' BY <1>31, TokenFields DEF PutBackup
<1>32. ASSUME NEW c \in Commands, Return(c) PROVE Files' BY <1>32 DEF Return
<1>33. ASSUME NEW c \in Commands, NEW r \in BOOLEAN, InspectBundle(c, r) PROVE Files'
  BY <1>33 DEF InspectBundle
<1>34. ASSUME NEW k \in {"restore", "reset"}, AskExclusive(k) PROVE Files'
  BY <1>34, AskFields DEF AskExclusive, Operations
<1>35. CASE UNCHANGED vars BY <1>35 DEF vars
<1> HIDE DEF files, gate, history, Idle, GoTo, Answer, Failure, At, ProcessControl,
             StepControl, Outside, AfterMark, AfterClose, Up, WritableDb, NoOp, Booting,
             Content, Present, Versions, Absent, FilePresent, AfterPublish, NoFrames, Reverts,
             TypeOK, Control, Files, Tokens, TokenKnows, NoToken, SourceUnchanged, GateOpen,
             PoolAfterClose, FramesLeft, Rescued, Synced
<1> QED
  BY <1>1, <1>2, <1>3, <1>4, <1>5, <1>6, <1>7, <1>8, <1>9, <1>10, <1>11, <1>12, <1>13, <1>14,
     <1>15, <1>16, <1>17, <1>18, <1>19, <1>20, <1>21, <1>22, <1>23, <1>24, <1>25, <1>26, <1>27,
     <1>28, <1>29, <1>30, <1>31, <1>32, <1>33, <1>34, <1>35 DEF Next, Boot, Replacing

\* The token and the bundle a restore takes.
LEMMA TokensStep ==
  ASSUME TypeOK, Control, Tokens, [Next]_vars PROVE Tokens'
<1> USE LifecycleConstants DEF files, gate, history, Idle, GoTo, Answer, Failure, At, TypeOK,
              Control, StepControl, Outside, NoOp, NoToken, Present, Versions, Absent, Tokens,
              TokenKnows, RestoresInspected, SourceUnchanged
<1>1. ASSUME NEW v \in Schemas, Install(v) PROVE Tokens' BY <1>1 DEF Install
<1>2. CASE Launch BY <1>2 DEF Launch
<1>3. CASE Inspect BY <1>3 DEF Inspect
<1>4. CASE BeginSnapshot BY <1>4 DEF BeginSnapshot
<1>5. CASE FinishSnapshot BY <1>5 DEF FinishSnapshot
<1>6. CASE CopySidecars BY <1>6 DEF CopySidecars
<1>7. CASE Open BY <1>7 DEF Open
<1>8. CASE OpenFails BY <1>8 DEF OpenFails
<1>9. CASE Checkpoint BY <1>9 DEF Checkpoint
<1>10. CASE Expire BY <1>10 DEF Expire
<1>11. CASE EnterExclusive
  BY <1>11, SMTT(60) DEF EnterExclusive
<1>12. CASE Stage
  BY <1>12, StageFields, SMTT(60) DEF Operations
<1>13. CASE BeginRescue BY <1>13 DEF BeginRescue
<1>14. CASE PublishRescue
  BY <1>14, PublishFields, SMTT(60) DEF Operations
<1>15. CASE Mark BY <1>15 DEF Mark
<1>16. CASE ClosePool BY <1>16 DEF ClosePool
<1>17. CASE RemoveSidecars BY <1>17 DEF RemoveSidecars
<1>18. CASE CopyRollback BY <1>18 DEF CopyRollback
<1>19. CASE Replace BY <1>19 DEF Replace
<1>20. CASE SyncLive BY <1>20 DEF SyncLive
<1>21. CASE Extract BY <1>21 DEF Extract
<1>22. CASE PutBack BY <1>22 DEF PutBack
<1>23. CASE DropSnapshots BY <1>23 DEF DropSnapshots
<1>24. CASE DropArtifacts BY <1>24 DEF DropArtifacts
<1>25. CASE DropDatabase BY <1>25 DEF DropDatabase
<1>26. ASSUME NEW v \in mayRevert \cup {live}, Stop(v) PROVE Tokens' BY <1>26 DEF Stop
<1>27. ASSUME NEW c \in Commands, Ask(c) PROVE Tokens' BY <1>27 DEF Ask
<1>28. ASSUME NEW c \in Commands, Enter(c) PROVE Tokens' BY <1>28 DEF Enter
<1>29. ASSUME NEW c \in Commands, Commit(c) PROVE Tokens' BY <1>29 DEF Commit
<1>30. ASSUME NEW c \in Commands, CopyOut(c) PROVE Tokens' BY <1>30 DEF CopyOut
<1>31. ASSUME NEW c \in Commands, PutBackup(c) PROVE Tokens' BY <1>31, TokenFields DEF PutBackup
<1>32. ASSUME NEW c \in Commands, Return(c) PROVE Tokens' BY <1>32 DEF Return
<1>33. ASSUME NEW c \in Commands, NEW r \in BOOLEAN, InspectBundle(c, r) PROVE Tokens'
  BY <1>33 DEF InspectBundle
<1>34. ASSUME NEW k \in {"restore", "reset"}, AskExclusive(k) PROVE Tokens'
  BY <1>34, AskFields DEF AskExclusive, Operations
<1>35. CASE UNCHANGED vars BY <1>35 DEF vars
<1> HIDE DEF files, gate, history, Idle, GoTo, Answer, Failure, At, TypeOK, Control,
             StepControl, Outside, NoOp, NoToken, Present, Versions, Absent, Tokens,
             TokenKnows, RestoresInspected, SourceUnchanged
<1> QED
  BY <1>1, <1>2, <1>3, <1>4, <1>5, <1>6, <1>7, <1>8, <1>9, <1>10, <1>11, <1>12, <1>13, <1>14,
     <1>15, <1>16, <1>17, <1>18, <1>19, <1>20, <1>21, <1>22, <1>23, <1>24, <1>25, <1>26, <1>27,
     <1>28, <1>29, <1>30, <1>31, <1>32, <1>33, <1>34, <1>35 DEF Next, Boot, Replacing

\* What has been answered stays true until the process ends.
LEMMA AnswersStep ==
  ASSUME TypeOK, Control, Files, Answers, [Next]_vars PROVE Answers'
<1> USE LifecycleConstants DEF files, gate, history, Idle, GoTo, Answer, Failure, At,
              ProcessControl, StepControl, Outside, AfterMark, AfterClose, Up, WritableDb, NoOp,
              Booting, TypeOK, Control, Files, Reverts, Answers, Answered, RestoredIsDurable,
              Synced, GateOpen
<1>1. ASSUME NEW v \in Schemas, Install(v) PROVE Answers' BY <1>1 DEF Install
<1>2. CASE Launch BY <1>2 DEF Launch
<1>3. CASE Inspect BY <1>3 DEF Inspect
<1>4. CASE BeginSnapshot BY <1>4 DEF BeginSnapshot
<1>5. CASE FinishSnapshot BY <1>5 DEF FinishSnapshot
<1>6. CASE CopySidecars BY <1>6 DEF CopySidecars
<1>7. CASE Open BY <1>7 DEF Open
<1>8. CASE OpenFails BY <1>8 DEF OpenFails
<1>9. CASE Checkpoint BY <1>9 DEF Checkpoint
<1>10. CASE Expire BY <1>10 DEF Expire
<1>11. CASE EnterExclusive BY <1>11 DEF EnterExclusive
<1>12. CASE Stage
  BY <1>12, StageFields, SMTT(60) DEF Operations
<1>13. CASE BeginRescue BY <1>13 DEF BeginRescue
<1>14. CASE PublishRescue
  BY <1>14, PublishFields, SMTT(60) DEF Operations
<1>15. CASE Mark BY <1>15 DEF Mark
<1>16. CASE ClosePool BY <1>16 DEF ClosePool
<1>17. CASE RemoveSidecars BY <1>17 DEF RemoveSidecars
<1>18. CASE CopyRollback BY <1>18 DEF CopyRollback
<1>19. CASE Replace BY <1>19 DEF Replace
<1>20. CASE SyncLive BY <1>20 DEF SyncLive
<1>21. CASE Extract BY <1>21 DEF Extract
<1>22. CASE PutBack BY <1>22 DEF PutBack
<1>23. CASE DropSnapshots BY <1>23 DEF DropSnapshots
<1>24. CASE DropArtifacts BY <1>24 DEF DropArtifacts
<1>25. CASE DropDatabase BY <1>25 DEF DropDatabase
<1>26. ASSUME NEW v \in mayRevert \cup {live}, Stop(v) PROVE Answers' BY <1>26 DEF Stop
<1>27. ASSUME NEW c \in Commands, Ask(c) PROVE Answers' BY <1>27 DEF Ask
<1>28. ASSUME NEW c \in Commands, Enter(c) PROVE Answers' BY <1>28 DEF Enter
<1>29. ASSUME NEW c \in Commands, Commit(c) PROVE Answers' BY <1>29 DEF Commit
<1>30. ASSUME NEW c \in Commands, CopyOut(c) PROVE Answers' BY <1>30 DEF CopyOut
<1>31. ASSUME NEW c \in Commands, PutBackup(c) PROVE Answers' BY <1>31, TokenFields DEF PutBackup
<1>32. ASSUME NEW c \in Commands, Return(c) PROVE Answers' BY <1>32 DEF Return
<1>33. ASSUME NEW c \in Commands, NEW r \in BOOLEAN, InspectBundle(c, r) PROVE Answers'
  BY <1>33 DEF InspectBundle
<1>34. ASSUME NEW k \in {"restore", "reset"}, AskExclusive(k) PROVE Answers'
  BY <1>34, AskFields DEF AskExclusive, Operations
<1>35. CASE UNCHANGED vars BY <1>35 DEF vars
<1> HIDE DEF files, gate, history, Idle, GoTo, Answer, Failure, At, ProcessControl,
             StepControl, Outside, AfterMark, AfterClose, Up, WritableDb, NoOp, Booting,
             TypeOK, Control, Files, Reverts, Answers, Answered, RestoredIsDurable, Synced,
             GateOpen
<1> QED
  BY <1>1, <1>2, <1>3, <1>4, <1>5, <1>6, <1>7, <1>8, <1>9, <1>10, <1>11, <1>12, <1>13, <1>14,
     <1>15, <1>16, <1>17, <1>18, <1>19, <1>20, <1>21, <1>22, <1>23, <1>24, <1>25, <1>26, <1>27,
     <1>28, <1>29, <1>30, <1>31, <1>32, <1>33, <1>34, <1>35 DEF Next, Boot, Replacing

\* The data last seen stays in the database or in a recovery bundle.
LEMMA DataStep ==
  ASSUME TypeOK, Control, Files, Data, [Next]_vars PROVE Data'
<1> USE LifecycleConstants DEF files, gate, history, Idle, GoTo, Answer, Failure, At,
              ProcessControl, StepControl, Outside, AfterMark, AfterClose, Up, WritableDb, NoOp,
              Booting, Alone, GateHolds, NobodyInside, Content, Present, Versions, Absent,
              FilePresent, AfterPublish, NoFrames, Reverts, TypeOK, Control, Files, Data, Kept,
              SeenIsSafe, Running, GateOpen, FramesLeft, Rescued
<1>1. ASSUME NEW v \in Schemas, Install(v) PROVE Data' BY <1>1 DEF Install
<1>2. CASE Launch BY <1>2 DEF Launch
<1>3. CASE Inspect BY <1>3 DEF Inspect
<1>4. CASE BeginSnapshot BY <1>4 DEF BeginSnapshot
<1>5. CASE FinishSnapshot BY <1>5 DEF FinishSnapshot
<1>6. CASE CopySidecars BY <1>6 DEF CopySidecars
<1>7. CASE Open BY <1>7 DEF Open
<1>8. CASE OpenFails BY <1>8 DEF OpenFails
<1>9. CASE Checkpoint BY <1>9 DEF Checkpoint
<1>10. CASE Expire BY <1>10 DEF Expire
<1>11. CASE EnterExclusive
  BY <1>11, SMTT(60) DEF EnterExclusive
<1>12. CASE Stage
  BY <1>12, StageFields, SMTT(60) DEF Operations
<1>13. CASE BeginRescue
  BY <1>13, SMTT(60) DEF BeginRescue
<1>14. CASE PublishRescue
  BY <1>14, PublishFields, SMTT(60) DEF Operations
<1>15. CASE Mark
  BY <1>15, SMTT(60) DEF Mark
<1>16. CASE ClosePool
  BY <1>16, SMTT(60) DEF ClosePool
<1>17. CASE RemoveSidecars
  BY <1>17, SMTT(60) DEF RemoveSidecars
<1>18. CASE CopyRollback
  BY <1>18, SMTT(60) DEF CopyRollback
<1>19. CASE Replace
  BY <1>19, SMTT(60) DEF Replace
<1>20. CASE SyncLive
  BY <1>20, SMTT(60) DEF SyncLive
<1>21. CASE Extract
  BY <1>21, SMTT(60) DEF Extract
<1>22. CASE PutBack
  BY <1>22, SMTT(60) DEF PutBack
<1>23. CASE DropSnapshots
  BY <1>23, SMTT(60) DEF DropSnapshots
<1>24. CASE DropArtifacts
  BY <1>24, SMTT(60) DEF DropArtifacts
<1>25. CASE DropDatabase
  BY <1>25, SMTT(60) DEF DropDatabase
<1>26. ASSUME NEW v \in mayRevert \cup {live}, Stop(v) PROVE Data' BY <1>26 DEF Stop
<1>27. ASSUME NEW c \in Commands, Ask(c) PROVE Data' BY <1>27 DEF Ask
<1>28. ASSUME NEW c \in Commands, Enter(c) PROVE Data' BY <1>28 DEF Enter
<1>29. ASSUME NEW c \in Commands, Commit(c) PROVE Data' BY <1>29 DEF Commit
<1>30. ASSUME NEW c \in Commands, CopyOut(c) PROVE Data' BY <1>30 DEF CopyOut
<1>31. ASSUME NEW c \in Commands, PutBackup(c) PROVE Data' BY <1>31, TokenFields DEF PutBackup
<1>32. ASSUME NEW c \in Commands, Return(c) PROVE Data' BY <1>32 DEF Return
<1>33. ASSUME NEW c \in Commands, NEW r \in BOOLEAN, InspectBundle(c, r) PROVE Data'
  BY <1>33 DEF InspectBundle
<1>34. ASSUME NEW k \in {"restore", "reset"}, AskExclusive(k) PROVE Data'
  BY <1>34, AskFields DEF AskExclusive, Operations
<1>35. CASE UNCHANGED vars BY <1>35 DEF vars
<1> HIDE DEF files, gate, history, Idle, GoTo, Answer, Failure, At, ProcessControl,
             StepControl, Outside, AfterMark, AfterClose, Up, WritableDb, NoOp, Booting, Alone,
             GateHolds, NobodyInside, Content, Present, Versions, Absent, FilePresent,
             AfterPublish, NoFrames, Reverts, TypeOK, Control, Files, Data, Kept, SeenIsSafe,
             Running, GateOpen, FramesLeft, Rescued
<1> QED
  BY <1>1, <1>2, <1>3, <1>4, <1>5, <1>6, <1>7, <1>8, <1>9, <1>10, <1>11, <1>12, <1>13, <1>14,
     <1>15, <1>16, <1>17, <1>18, <1>19, <1>20, <1>21, <1>22, <1>23, <1>24, <1>25, <1>26, <1>27,
     <1>28, <1>29, <1>30, <1>31, <1>32, <1>33, <1>34, <1>35 DEF Next, Boot, Replacing

\* The current data stays in place up to the rename, and comes back after a failed one.
LEMMA CurrentStep ==
  ASSUME TypeOK, Control, Files, Answers, Data, Current, [Next]_vars PROVE Current'
<1> USE LifecycleConstants DEF files, gate, history, Idle, GoTo, Answer, Failure, At,
              ProcessControl, StepControl, Outside, AfterMark, AfterClose, Up, WritableDb, NoOp,
              Booting, Alone, GateHolds, NobodyInside, Content, Present, Versions, Absent,
              FilePresent, AfterPublish, NoFrames, Reverts, TypeOK, Control, Files, Answers,
              Answered, Data, Kept, SeenIsSafe, Current, StillCurrent,
              FailedRestoreKeepsCurrent, Running, GateOpen, FramesLeft, Rescued
<1>1. ASSUME NEW v \in Schemas, Install(v) PROVE Current' BY <1>1 DEF Install
<1>2. CASE Launch BY <1>2 DEF Launch
<1>3. CASE Inspect BY <1>3 DEF Inspect
<1>4. CASE BeginSnapshot BY <1>4 DEF BeginSnapshot
<1>5. CASE FinishSnapshot BY <1>5 DEF FinishSnapshot
<1>6. CASE CopySidecars BY <1>6 DEF CopySidecars
<1>7. CASE Open BY <1>7 DEF Open
<1>8. CASE OpenFails BY <1>8 DEF OpenFails
<1>9. CASE Checkpoint BY <1>9 DEF Checkpoint
<1>10. CASE Expire BY <1>10 DEF Expire
<1>11. CASE EnterExclusive
  BY <1>11, SMTT(60) DEF EnterExclusive
<1>12. CASE Stage
  BY <1>12, StageFields, SMTT(60) DEF Operations
<1>13. CASE BeginRescue
  BY <1>13, SMTT(60) DEF BeginRescue
<1>14. CASE PublishRescue
  BY <1>14, PublishFields, SMTT(60) DEF Operations
<1>15. CASE Mark
  BY <1>15, SMTT(60) DEF Mark
<1>16. CASE ClosePool
  BY <1>16, SMTT(60) DEF ClosePool
<1>17. CASE RemoveSidecars
  BY <1>17, SMTT(60) DEF RemoveSidecars
<1>18. CASE CopyRollback
  BY <1>18, SMTT(60) DEF CopyRollback
<1>19. CASE Replace
  BY <1>19, SMTT(60) DEF Replace
<1>20. CASE SyncLive
  BY <1>20, SMTT(60) DEF SyncLive
<1>21. CASE Extract
  BY <1>21, SMTT(60) DEF Extract
<1>22. CASE PutBack
  BY <1>22, SMTT(60) DEF PutBack
<1>23. CASE DropSnapshots
  BY <1>23, SMTT(60) DEF DropSnapshots
<1>24. CASE DropArtifacts
  BY <1>24, SMTT(60) DEF DropArtifacts
<1>25. CASE DropDatabase
  BY <1>25, SMTT(60) DEF DropDatabase
<1>26. ASSUME NEW v \in mayRevert \cup {live}, Stop(v) PROVE Current' BY <1>26 DEF Stop
<1>27. ASSUME NEW c \in Commands, Ask(c) PROVE Current' BY <1>27 DEF Ask
<1>28. ASSUME NEW c \in Commands, Enter(c) PROVE Current' BY <1>28 DEF Enter
<1>29. ASSUME NEW c \in Commands, Commit(c) PROVE Current' BY <1>29 DEF Commit
<1>30. ASSUME NEW c \in Commands, CopyOut(c) PROVE Current' BY <1>30 DEF CopyOut
<1>31. ASSUME NEW c \in Commands, PutBackup(c) PROVE Current' BY <1>31, TokenFields DEF PutBackup
<1>32. ASSUME NEW c \in Commands, Return(c) PROVE Current' BY <1>32 DEF Return
<1>33. ASSUME NEW c \in Commands, NEW r \in BOOLEAN, InspectBundle(c, r) PROVE Current'
  BY <1>33 DEF InspectBundle
<1>34. ASSUME NEW k \in {"restore", "reset"}, AskExclusive(k) PROVE Current'
  BY <1>34, AskFields DEF AskExclusive, Operations
<1>35. CASE UNCHANGED vars BY <1>35 DEF vars
<1> HIDE DEF files, gate, history, Idle, GoTo, Answer, Failure, At, ProcessControl,
             StepControl, Outside, AfterMark, AfterClose, Up, WritableDb, NoOp, Booting, Alone,
             GateHolds, NobodyInside, Content, Present, Versions, Absent, FilePresent,
             AfterPublish, NoFrames, Reverts, TypeOK, Control, Files, Answers, Answered, Data,
             Kept, SeenIsSafe, Current, StillCurrent, FailedRestoreKeepsCurrent, Running,
             GateOpen, FramesLeft, Rescued
<1> QED
  BY <1>1, <1>2, <1>3, <1>4, <1>5, <1>6, <1>7, <1>8, <1>9, <1>10, <1>11, <1>12, <1>13, <1>14,
     <1>15, <1>16, <1>17, <1>18, <1>19, <1>20, <1>21, <1>22, <1>23, <1>24, <1>25, <1>26, <1>27,
     <1>28, <1>29, <1>30, <1>31, <1>32, <1>33, <1>34, <1>35 DEF Next, Boot, Replacing

LEMMA StepInv == Inv /\ [Next]_vars => Inv'
BY TypesStep, ControlStep, FilesStep, TokensStep, AnswersStep, DataStep, CurrentStep DEF Inv

LEMMA SpecInv == Spec => []Inv
BY InitInv, StepInv, PTL DEF Spec

-----------------------------------------------------------------------------
(* The theorems                                                              *)

\* The installation is in a state of its types: what bootstrap, the commands,
\* restore and reset leave in files and memory (all of the modelled code).
THEOREM LifecycleTypes == Spec => []TypeOK
<1>1. Inv => TypeOK BY DEF Inv
<1> QED BY SpecInv, <1>1, PTL

\* restore_backup and delete_all_data: at every instant, so after a stop at any
\* of them, the data last seen is in the database or in a recovery bundle.
THEOREM RestoreLosesNothing == Spec => []SeenIsSafe
<1>1. Inv => SeenIsSafe BY DEF Inv, Data
<1> QED BY SpecInv, <1>1, PTL

\* remove_sidecars before every replacement of the file: SQLite never finds the
\* -wal of another database beside the one it opens.
THEOREM WalAlwaysBelongs == Spec => []WalBelongs
<1>1. Inv => WalBelongs BY DEF Inv, Files, FilePresent, WalBelongs
<1> QED BY SpecInv, <1>1, PTL

\* OperationGate: no command is inside once the terminal state is set.
THEOREM GateAlwaysHolds == Spec => []GateHolds
<1>1. Inv => GateHolds BY DEF Inv, Control
<1> QED BY SpecInv, <1>1, PTL

\* replace_live_database: a restore that reports a failed replacement has the
\* current data in place, unless the close of the pool left frames behind.
THEOREM FailureKeepsCurrent == Spec => []FailedRestoreKeepsCurrent
<1>1. Inv => FailedRestoreKeepsCurrent BY DEF Inv, Current
<1> QED BY SpecInv, <1>1, PTL

\* sync_file and sync_directory before the answer: a reported restore is durable.
THEOREM SuccessIsDurable == Spec => []RestoredIsDurable
<1>1. Inv => RestoredIsDurable BY DEF Inv, Answers
<1> QED BY SpecInv, <1>1, PTL

\* revalidate_inspection_source: the bundle that is restored is the inspected one.
THEOREM OnlyInspectedRestored == Spec => []RestoresInspected
<1>1. Inv => RestoresInspected BY DEF Inv, Tokens
<1> QED BY SpecInv, <1>1, PTL
=============================================================================
