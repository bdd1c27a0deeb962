------------------------- MODULE EvidenceStore_proofs -------------------------
(***************************************************************************)
(* Proofs about EvidenceStore, for any digests, handlers, backups and      *)
(* number of restores.  The first part is about types: no step of an       *)
(* operator's job reads a dump, a tree or a backup that is not there.  The *)
(* second follows the data: which rows each tree covers at every step, and *)
(* where the eras of data that are still owed lie.  It holds unless the    *)
(* last step of a restore fails, or a pg_restore that committed raises: in *)
(* either case the code loses data, and TLC shows how.                     *)
(***************************************************************************)
EXTENDS EvidenceStore, TLAPS

-----------------------------------------------------------------------------
(* The inductive invariant: types *)

Restoring == {"dump", "replace", "move", "install"}

\* The steps at which the live database was dumped.
Dumped == {"replace", "move", "install", "restore_id", "database_back",
           "return", "return_database"}

\* What a step of a restore or a rollback is about to use is there.
JobFits ==
  /\ job.at \in Restoring => backups[job.id] # None /\ staging[job.id] # None
  /\ job.at \notin {"idle", "stuck"} => recovery[job.id] # None
  /\ job.at \in Dumped \/ (job.at = "move_back" /\ job.replaced) =>
       recovery[job.id].dump # None
  /\ job.at \in {"install", "return"} => artifacts = None /\ recovery[job.id].previous # None
  /\ job.at = "move_back" /\ artifacts = None => recovery[job.id].previous # None
  /\ job.at \in {"return", "return_database"} => displaced[job.id] # None
  /\ job.at \in {"dump", "replace"} => ~job.replaced
  /\ job.at \in {"move", "install", "restore_id", "database_back"} => job.replaced

TypeInv ==
  /\ TypeOK
  /\ ~up => \A h \in Handlers : request[h] = Idle
  /\ making # None => job.at = "idle"
  /\ JobFits

-----------------------------------------------------------------------------
(* The inductive invariant: data *)

\* The steps that may fail are those whose failure the code survives.
SafeFailures == {"restore_id", "committed"} \cap MayFail = {}

\* The files hold an object, good or bad, for each of the rows.
Covered(dbRows, files) == \A row \in dbRows : files[row[2]] # "none"

\* A tree is damaged only where the disk damaged an object.
DamageKnown(tree) == \A d \in Digests : tree.files[d] = "bad" => d \in corrupted

HasPair(b) == recovery[b] # None /\ recovery[b].dump # None /\ recovery[b].previous # None

\* What is stored is still there when its row commits, also in the backup being made.
LiveData ==
  /\ job.at = "idle" => Covered(database.rows, artifacts.files)
  /\ \A h \in Handlers : Is(h, "stored") => Stored(request[h].sha) # "none"
  /\ making # None =>
       \A row \in making.rows : /\ Stored(row[2]) # "none"
                                /\ row[2] \in making.todo \/ making.files[row[2]] # "none"

KeptData ==
  /\ BackupsComplete
  /\ \A b \in Backups : backups[b] # None => Inventory(backups[b].files)
  /\ \A b \in Backups : HasPair(b) =>
       Covered(recovery[b].dump.rows, recovery[b].previous.files)

\* Which tree covers which rows in the middle of a job.
JobData ==
  /\ job.at \in Restoring => staging[job.id] = backups[job.id].files
  /\ job.at \in {"dump", "replace"} =>
       Covered(database.rows, artifacts.files) /\ recovery[job.id].previous = None
  /\ job.at = "dump" => recovery[job.id].dump = None
  /\ job.at = "replace" => recovery[job.id].dump = database
  /\ job.at \in {"move", "install"} => database.rows = backups[job.id].rows
  /\ job.at \in {"move", "database_back"} =>
       Covered(recovery[job.id].dump.rows, artifacts.files) /\ recovery[job.id].previous = None
  /\ job.at \in {"restore_id", "discard"} => Covered(database.rows, artifacts.files)
  /\ job.at = "move_back" /\ artifacts # None =>
       /\ Covered(IF job.replaced THEN recovery[job.id].dump.rows ELSE database.rows,
                  artifacts.files)
       /\ recovery[job.id].previous = None
  /\ job.at = "move_back" /\ ~job.replaced =>
       artifacts # None /\ recovery[job.id].dump \in {None, database}
  /\ job.at = "discard" => recovery[job.id].previous = None
                           /\ recovery[job.id].dump \in {None, database}
  /\ job.at \in {"return", "return_database"} =>
       Covered(database.rows, displaced[job.id].files)
  /\ job.at = "return_database" =>
       Covered(recovery[job.id].dump.rows, artifacts.files) /\ recovery[job.id].previous = None

Damage ==
  /\ NoFalseAlarm
  /\ artifacts # None => DamageKnown(artifacts)
  /\ \A b \in Backups :
       /\ recovery[b] # None /\ recovery[b].previous # None => DamageKnown(recovery[b].previous)
       /\ displaced[b] # None => DamageKnown(displaced[b])

\* The era that a restore brings is owed only once it is complete.
ErasKnown ==
  /\ \A era \in owed : era <= restores
  /\ job.at \notin {"idle", "stuck", "return", "return_database"} => restores \notin owed
  /\ job.at \in {"move", "install", "restore_id", "database_back"}
       \/ (job.at = "move_back" /\ job.replaced) => database.era = restores
  /\ job.at = "restore_id" => artifacts.era = restores

DataInv == LiveData /\ KeptData /\ JobData /\ Damage /\ ErasKnown /\ DataKept

-----------------------------------------------------------------------------
(* Types: preservation *)

\* A request is handled while the API is up, and then the tree is in its place.
LEMMA Serving ==
  ASSUME TypeInv, NEW h \in Handlers, ~Is(h, "idle")
  PROVE  /\ up /\ job.at = "idle" /\ artifacts \in Tree /\ artifacts # None
         /\ request[h] \in [at : {"read", "received", "copied", "stored"},
                            kind : {"sample", "artifact", "export"}, sha : Digests,
                            new : BOOLEAN]
         /\ Row(h) \in Rows
<1>1. request[h] # Idle
  BY DEF Is, Idle
<1>2. up /\ job.at = "idle" /\ artifacts \in Tree /\ artifacts # None
  BY <1>1 DEF TypeInv, TypeOK, Option
<1>3. request[h] \in [at : {"read", "received", "copied", "stored"},
                      kind : {"sample", "artifact", "export"}, sha : Digests, new : BOOLEAN]
  BY <1>1 DEF TypeInv, TypeOK, Request
<1> QED  BY <1>2, <1>3, NoneAssumption DEF Row, RowKind, Rows

\* An object takes its place in the tree.
LEMMA StoreTyped ==
  ASSUME artifacts \in Tree, NEW d \in Digests, NEW c \in Content, Store(d, c)
  PROVE  /\ artifacts' \in Tree /\ artifacts' # None
         /\ artifacts'.files = [artifacts.files EXCEPT ![d] = c]
         /\ artifacts'.era = artifacts.era
BY NoneAssumption DEF Store, Tree, Files

\* A step of a request, of the disk or of nobody: the operator's job, the backups and
\* what they hold are as they were.
LEMMA ApiTyped ==
  ASSUME TypeInv, UNCHANGED <<up, making, backups>>, OperatorIdle,
         database' \in Database, artifacts' \in Option(Tree),
         artifacts' = None <=> artifacts = None,
         request' \in [Handlers -> Request], ~up => UNCHANGED request,
         corrupted' \subseteq Corruptible, alarms' \subseteq Digests
  PROVE  TypeInv'
<1>1. TypeOK'
  BY DEF TypeInv, TypeOK, OperatorIdle
<1>2. JobFits'
  BY DEF TypeInv, JobFits, OperatorIdle
<1> QED  BY <1>1, <1>2 DEF TypeInv, OperatorIdle

\* Mostly the request only goes on or ends.
LEMMA RequestTyped ==
  ASSUME TypeInv, StoreIdle, OperatorIdle, NEW h \in Handlers, NEW r \in Request, up,
         request' = [request EXCEPT ![h] = r], database' \in Database,
         artifacts' \in Option(Tree), artifacts' = None <=> artifacts = None
  PROVE  TypeInv'
<1>1. request' \in [Handlers -> Request]
  BY DEF TypeInv, TypeOK
<1>2. corrupted' \subseteq Corruptible /\ alarms' \subseteq Digests
  BY DEF TypeInv, TypeOK, StoreIdle
<1> QED  BY <1>1, <1>2, ApiTyped DEF StoreIdle

LEMMA ServeTyped ==
  ASSUME TypeInv, NEW h \in Handlers, Serve(h)
  PROVE  TypeInv'
<1>1. database \in Database /\ artifacts \in Option(Tree)
  BY DEF TypeInv, TypeOK
<1>2. ASSUME NEW at \in {"read", "received"}, NEW kind \in {"sample", "artifact", "export"},
             NEW d \in Digests, NEW new \in BOOLEAN, Receive(h, at, kind, d, new)
      PROVE  TypeInv'
  <2>1. [at |-> at, kind |-> kind, sha |-> d, new |-> new] \in Request
    BY DEF Request
  <2> QED  BY <1>1, <1>2, <2>1, RequestTyped DEF Receive
<1>3. ASSUME ~Is(h, "idle"), Ends(h), database' \in Database, UNCHANGED artifacts,
             StoreIdle, OperatorIdle
      PROVE  TypeInv'
  <2>1. Idle \in Request
    BY DEF Request
  <2> QED  BY <1>1, <1>3, <2>1, Serving, RequestTyped DEF Ends
<1>4. ASSUME ~Is(h, "idle"), NEW at \in {"received", "copied", "stored"}, Goes(h, at),
             UNCHANGED database, StoreIdle, OperatorIdle,
             \/ UNCHANGED artifacts
             \/ \E c \in Content : Store(request[h].sha, c)
      PROVE  TypeInv'
  <2>1. PICK r : r = [request[h] EXCEPT !.at = at]
    OBVIOUS
  <2>2. r \in Request /\ request' = [request EXCEPT ![h] = r] /\ up
    BY <1>4, <2>1, Serving DEF Request, Goes, TypeInv, TypeOK
  <2>3. artifacts' \in Option(Tree) /\ (artifacts' = None <=> artifacts = None)
    BY <1>1, <1>4, Serving, StoreTyped DEF Option
  <2> QED  BY <1>1, <1>4, <2>2, <2>3, RequestTyped
<1>5. ASSUME NEW d \in Digests,
             ReceiveSample(h, d) \/ ReceiveArtifact(h, d) \/ RenderExport(h, d)
      PROVE  TypeInv'
  BY <1>2, <1>5 DEF ReceiveSample, ReceiveArtifact, RenderExport
<1>6. CASE InsertSample(h)
  <2>1. CASE Ends(h)
    BY <1>1, <1>3, <1>6, <2>1 DEF InsertSample, Is
  <2>2. CASE Goes(h, "received")
    BY <1>4, <1>6, <2>2 DEF InsertSample, Is
  <2> QED  BY <1>6, <2>1, <2>2 DEF InsertSample
<1>7. CASE Promote(h)
  <2>1. CASE Ends(h) /\ UNCHANGED artifacts
    BY <1>1, <1>3, <1>7, <2>1 DEF Promote, Is
  <2>2. CASE Goes(h, "stored") /\ Store(request[h].sha, "good")
    BY <1>4, <1>7, <2>2 DEF Promote, Is, Content
  <2> QED  BY <1>7, <2>1, <2>2 DEF Promote
<1>8. CASE CopyExport(h)
  <2>1. CASE Goes(h, "stored") /\ UNCHANGED artifacts
    BY <1>4, <1>8, <2>1 DEF CopyExport, Is
  <2>2. CASE Goes(h, "copied") /\ Store(request[h].sha, "none")
    BY <1>4, <1>8, <2>2 DEF CopyExport, Is, Content
  <2> QED  BY <1>8, <2>1, <2>2 DEF CopyExport, CopiedAside
<1>9. CASE StoreExport(h)
  BY <1>4, <1>9 DEF StoreExport, Is, Content
<1>10. CASE Commit(h)
  <2>1. ~Is(h, "idle") /\ UNCHANGED artifacts /\ StoreIdle /\ OperatorIdle /\ Ends(h)
    BY <1>10 DEF Commit, Committable, Is
  <2>2. database' \in Database
    BY <1>1, <1>10, <2>1, Serving DEF Commit, Database
  <2> QED  BY <1>3, <2>1, <2>2
<1>11. CASE Abort(h)
  BY <1>1, <1>3, <1>11 DEF Abort
<1> QED  BY <1>5, <1>6, <1>7, <1>8, <1>9, <1>10, <1>11 DEF Serve

LEMMA VerifyTyped ==
  ASSUME TypeInv, NEW kind, NEW d \in Digests, Verify(kind, d)
  PROVE  TypeInv'
BY ApiTyped DEF Verify, TypeInv, TypeOK

LEMMA CorruptTyped ==
  ASSUME TypeInv, NEW d \in Corruptible, Corrupt(d)
  PROVE  TypeInv'
<1>1. artifacts \in Tree /\ d \in Digests
  BY CorruptibleAssumption DEF TypeInv, TypeOK, Option, Corrupt
<1>2. artifacts' \in Option(Tree) /\ (artifacts' = None <=> artifacts = None)
  BY <1>1, StoreTyped DEF Corrupt, Content, Option
<1>3. corrupted' \subseteq Corruptible
  BY DEF TypeInv, TypeOK, Corrupt
<1> QED  BY <1>2, <1>3, ApiTyped DEF Corrupt, TypeInv, TypeOK

LEMMA StartStopTyped ==
  ASSUME TypeInv, Stop \/ Start
  PROVE  TypeInv'
<1>1. UNCHANGED <<database, artifacts, making, backups, corrupted, alarms>> /\ OperatorIdle
  BY DEF Stop, Start
<1>2. /\ request' \in [Handlers -> Request]
      /\ ~up' => \A h \in Handlers : request'[h] = Idle
      /\ up' \in BOOLEAN /\ (up' => job.at = "idle")
  BY DEF Stop, Start, Request, TypeInv, TypeOK
<1>3. TypeOK'
  BY <1>1, <1>2 DEF TypeInv, TypeOK, OperatorIdle
<1>4. JobFits'
  BY <1>1 DEF TypeInv, JobFits, OperatorIdle
<1> QED  BY <1>1, <1>2, <1>3, <1>4 DEF TypeInv, OperatorIdle

\* A backup is made while no operator's job is under way.
LEMMA BackupTyped ==
  ASSUME TypeInv, Backup
  PROVE  TypeInv'
<1>1. UNCHANGED <<database, artifacts, up, request, corrupted, alarms>> /\ OperatorIdle
  BY DEF Backup, BackupDump, BackupCopy, BackupPublish, BackupFail
<1>2. /\ making' \in Option(Draft)
      /\ backups' \in [Backups -> Option(Published)]
      /\ making' # None => job.at = "idle"
      /\ \A b \in Backups : backups[b] # None => backups'[b] # None
      /\ making # None \/ UNCHANGED backups
  <2>1. ASSUME NEW b \in Backups, BackupDump(b)
        PROVE  /\ making' \in Option(Draft) /\ UNCHANGED backups /\ job.at = "idle"
    <3>1. Empty \in Files
      BY DEF Empty, Files, Content
    <3> QED  BY <2>1, <3>1 DEF BackupDump, Draft, Option, TypeInv, TypeOK, Database
  <2>2. ASSUME NEW d \in Digests, BackupCopy(d)
        PROVE  /\ making' \in Option(Draft) /\ UNCHANGED backups /\ job.at = "idle"
    <3>1. making \in Draft /\ artifacts \in Tree /\ job.at = "idle"
      BY <2>2 DEF BackupCopy, TypeInv, TypeOK, Option
    <3>2. Stored(d) \in Content
      BY <3>1 DEF Stored, Tree, Files
    <3>3. [making EXCEPT !.files[d] = Stored(d), !.todo = @ \ {d}] \in Draft
      BY <3>1, <3>2 DEF Draft, Files
    <3> QED  BY <2>2, <3>1, <3>3 DEF BackupCopy, Option
  <2>3. CASE BackupPublish
    <3>1. making \in Draft /\ job.at = "idle"
      BY <2>3 DEF BackupPublish, TypeInv, TypeOK, Option
    <3>2. [rows |-> making.rows, files |-> making.files] \in Published
      BY <3>1 DEF Draft, Published
    <3> QED  BY <2>3, <3>1, <3>2, NoneAssumption DEF BackupPublish, Option, TypeInv, TypeOK
  <2>4. CASE BackupFail
    BY <2>4 DEF BackupFail, Option, TypeInv, TypeOK
  <2> QED  BY <2>1, <2>2, <2>3, <2>4 DEF Backup, TypeInv, TypeOK
<1>3. TypeOK'
  BY <1>1, <1>2 DEF TypeInv, TypeOK, OperatorIdle
<1>4. JobFits'
  <2>1. CASE UNCHANGED backups
    BY <1>1, <2>1 DEF TypeInv, JobFits, OperatorIdle
  <2>2. CASE making # None
    BY <1>1, <2>2 DEF TypeInv, JobFits, OperatorIdle, Restoring, Dumped
  <2> QED  BY <1>2, <2>1, <2>2
<1> QED  BY <1>1, <1>2, <1>3, <1>4 DEF TypeInv, OperatorIdle

-----------------------------------------------------------------------------
(* Types: the operator's jobs *)

\* The variables that a job changes.
JobTypes ==
  /\ database \in Database
  /\ artifacts \in Option(Tree)
  /\ staging \in [Backups -> Option(Files)]
  /\ recovery \in [Backups -> Option(RecoverySet)]
  /\ displaced \in [Backups -> Option(Tree)]
  /\ job \in Job
  /\ restores \in Nat /\ restores <= MaxRestores
  /\ owed \subseteq Eras

\* A job runs while the API is stopped and no backup is being made.
LEMMA JobRuns ==
  ASSUME TypeInv, job.at # "idle"
  PROVE  Quiet /\ job \in Job /\ job.id \in Backups /\ job.replaced \in BOOLEAN
BY DEF TypeInv, TypeOK, Quiet, Job, Idle

LEMMA JobStepTyped ==
  ASSUME TypeInv, Quiet, LiveKept, JobTypes', JobFits',
         (artifacts = None => job.at \in {"install", "move_back", "return", "stuck"})'
  PROVE  TypeInv'
BY DEF TypeInv, TypeOK, JobTypes, Quiet, LiveKept

\* A job goes on to its next step.
LEMMA Proceeds ==
  ASSUME job \in Job, job.at # "idle",
         NEW step \in {"dump", "replace", "move", "install", "restore_id", "move_back",
                       "database_back", "discard", "return", "return_database", "stuck"},
         Proceed(step)
  PROVE  job' \in Job /\ job'.at = step /\ job'.id = job.id /\ job'.replaced = job.replaced
BY DEF Proceed, Job, Idle

LEMMA StartRestoreTyped ==
  ASSUME TypeInv, NEW b \in Backups, StartRestore(b)
  PROVE  TypeInv'
<1>1. Quiet /\ LiveKept /\ artifacts # None
  BY DEF StartRestore, TypeInv, TypeOK, At
<1>2. /\ restores' \in Nat /\ restores' <= MaxRestores
      /\ staging' \in [Backups -> Option(Files)]
      /\ UNCHANGED <<database, artifacts, displaced, owed>>
      /\ staging'[b] # None /\ backups[b] # None
  BY NoneAssumption, MaxRestoresAssumption DEF StartRestore, TypeInv, TypeOK, Option,
     Published
<1>3. CASE UNCHANGED <<recovery, job>>
  <2>1. JobTypes' /\ JobFits'
    BY <1>2, <1>3 DEF JobTypes, TypeInv, TypeOK, JobFits, StartRestore, At, Restoring
  <2> QED  BY <1>1, <1>2, <2>1, JobStepTyped
<1>4. ASSUME recovery' = [recovery EXCEPT ![b] = [dump |-> None, previous |-> None, named |-> FALSE]],
             job' = [at |-> "dump", id |-> b, replaced |-> FALSE]
      PROVE  TypeInv'
  <2>1. [dump |-> None, previous |-> None, named |-> FALSE] \in RecoverySet
    BY DEF RecoverySet, Option
  <2>2. /\ recovery' \in [Backups -> Option(RecoverySet)] /\ recovery'[b] # None
        /\ job' \in Job /\ job'.id = b /\ job'.at = "dump" /\ ~job'.replaced
    BY <1>4, <2>1, NoneAssumption DEF TypeInv, TypeOK, Option, Job
  <2>3. JobTypes' /\ JobFits'
    BY <1>1, <1>2, <2>2 DEF JobTypes, TypeInv, TypeOK, JobFits, Dumped, LiveKept
  <2> QED  BY <1>1, <1>2, <2>3, JobStepTyped
<1> QED  BY <1>3, <1>4 DEF StartRestore

\* The live database is dumped first.
LEMMA DumpLiveTyped ==
  ASSUME TypeInv, DumpLive
  PROVE  TypeInv'
<1>1. Quiet /\ LiveKept /\ job.at # "idle" /\ job.id \in Backups /\ job \in Job
  BY JobRuns DEF DumpLive, At
<1>2. /\ recovery[job.id] \in Option(RecoverySet) /\ database \in Database
      /\ artifacts \in Option(Tree) /\ restores \in Eras
  BY <1>1 DEF TypeInv, TypeOK, Eras
<1>3. /\ job' \in Job /\ job'.id = job.id /\ job'.replaced = job.replaced
      /\ job'.at = "replace"
  BY <1>1, Proceeds DEF DumpLive
<1>4. JobTypes'
  BY <1>2, <1>3 DEF DumpLive, At, JobTypes, TypeInv, TypeOK, JobFits, Option, RecoverySet
<1>5. JobFits'
  BY <1>1, <1>3, NoneAssumption DEF DumpLive, At, LiveKept, TypeInv, TypeOK, JobFits,
     Restoring, RecoverySet, Option
<1>6. (artifacts = None => job.at \in {"install", "move_back", "return", "stuck"})'
  BY DEF DumpLive, At, TypeInv, TypeOK
<1> QED  BY <1>1, <1>4, <1>5, <1>6, JobStepTyped

\* The rows of the backup come in place of those that were dumped.
LEMMA ReplaceDatabaseTyped ==
  ASSUME TypeInv, ReplaceDatabase
  PROVE  TypeInv'
<1>1. Quiet /\ LiveKept /\ job.at # "idle" /\ job.id \in Backups /\ job \in Job
  BY JobRuns DEF ReplaceDatabase, At
<1>2. /\ recovery[job.id] \in Option(RecoverySet) /\ database \in Database
      /\ artifacts \in Option(Tree) /\ restores \in Eras
  BY <1>1 DEF TypeInv, TypeOK, Eras
<1>3. job' \in Job /\ job'.at = "move" /\ job'.id = job.id /\ job'.replaced
  <2>1. job.at # "idle" /\ job' = [job EXCEPT !.at = "move", !.replaced = TRUE]
    BY <1>1 DEF ReplaceDatabase
  <2>2. job \in [at : {job.at}, id : Backups, replaced : BOOLEAN]
    BY <1>1 DEF Job, Idle
  <2>3. job'.at = "move" /\ job'.id = job.id /\ job'.replaced
    BY <2>1
  <2>4. job' \in Job
    BY <2>1, <2>2 DEF Job
  <2> QED  BY <2>3, <2>4
<1>4. JobTypes'
  BY <1>1, <1>2, <1>3 DEF ReplaceDatabase, BackedUp, At, JobTypes, TypeInv, TypeOK, JobFits,
     Option, Restoring, Published, Database
<1>5. JobFits'
  BY DEF ReplaceDatabase, At, LiveKept, TypeInv, JobFits, Restoring, Dumped
<1>6. (artifacts = None => job.at \in {"install", "move_back", "return", "stuck"})'
  BY DEF ReplaceDatabase, At, TypeInv, TypeOK
<1> QED  BY <1>1, <1>4, <1>5, <1>6, JobStepTyped

\* The tree goes into the recovery set.
LEMMA MoveArtifactsTyped ==
  ASSUME TypeInv, MoveArtifacts
  PROVE  TypeInv'
<1>1. Quiet /\ LiveKept /\ job.at # "idle" /\ job.id \in Backups /\ job \in Job
  BY JobRuns DEF MoveArtifacts, At
<1>2. /\ recovery[job.id] \in Option(RecoverySet) /\ database \in Database
      /\ artifacts \in Option(Tree) /\ restores \in Eras
  BY <1>1 DEF TypeInv, TypeOK, Eras
<1>3. /\ job' \in Job /\ job'.id = job.id /\ job'.replaced = job.replaced
      /\ job'.at = "install"
  BY <1>1, Proceeds DEF MoveArtifacts
<1>4. JobTypes'
  BY <1>2, <1>3 DEF MoveArtifacts, At, JobTypes, TypeInv, TypeOK, JobFits, Option, RecoverySet
<1>5. JobFits'
  BY <1>1, <1>3, NoneAssumption DEF MoveArtifacts, At, LiveKept, TypeInv, TypeOK, JobFits,
     Restoring, Dumped, RecoverySet, Option
<1>6. (artifacts = None => job.at \in {"install", "move_back", "return", "stuck"})'
  BY <1>3
<1> QED  BY <1>1, <1>4, <1>5, <1>6, JobStepTyped

\* The staged tree comes in its place.
LEMMA InstallArtifactsTyped ==
  ASSUME TypeInv, InstallArtifacts
  PROVE  TypeInv'
<1>1. Quiet /\ LiveKept /\ job.at # "idle" /\ job.id \in Backups /\ job \in Job
  BY JobRuns DEF InstallArtifacts, At
<1>2. /\ recovery[job.id] \in Option(RecoverySet) /\ database \in Database
      /\ artifacts \in Option(Tree) /\ restores \in Eras
  BY <1>1 DEF TypeInv, TypeOK, Eras
<1>3. /\ job' \in Job /\ job'.id = job.id /\ job'.replaced = job.replaced
      /\ job'.at = "restore_id"
  BY <1>1, Proceeds DEF InstallArtifacts
<1>4. JobTypes'
  BY <1>1, <1>2, <1>3 DEF InstallArtifacts, At, JobTypes, TypeInv, TypeOK, JobFits, Option,
     Restoring, Tree
<1>5. JobFits'
  BY <1>3 DEF InstallArtifacts, At, TypeInv, JobFits, Restoring, Dumped
<1>6. (artifacts = None => job.at \in {"install", "move_back", "return", "stuck"})'
  BY <1>1, <1>2, NoneAssumption DEF InstallArtifacts, At, TypeInv, TypeOK, JobFits, Option,
     Restoring, Tree
<1> QED  BY <1>1, <1>4, <1>5, <1>6, JobStepTyped

\* The recovery set has its name.
LEMMA WriteRestoreIdTyped ==
  ASSUME TypeInv, WriteRestoreId
  PROVE  TypeInv'
<1>1. Quiet /\ LiveKept /\ job.at # "idle" /\ job.id \in Backups /\ job \in Job
  BY JobRuns DEF WriteRestoreId, At
<1>2. /\ recovery[job.id] \in Option(RecoverySet) /\ database \in Database
      /\ artifacts \in Option(Tree) /\ restores \in Eras
  BY <1>1 DEF TypeInv, TypeOK, Eras
<1>3. job' = Idle /\ job' \in Job /\ job'.at = "idle"
  BY DEF WriteRestoreId, Job, Idle
<1>4. JobTypes'
  BY <1>2, <1>3 DEF WriteRestoreId, At, JobTypes, TypeInv, TypeOK, JobFits, Option, RecoverySet
<1>5. JobFits'
  BY <1>3 DEF JobFits, Restoring, Dumped
<1>6. (artifacts = None => job.at \in {"install", "move_back", "return", "stuck"})'
  BY DEF WriteRestoreId, At, TypeInv, TypeOK
<1> QED  BY <1>1, <1>4, <1>5, <1>6, JobStepTyped

\* A failure at any step leads to the except path.
LEMMA RestoreFailTyped ==
  ASSUME TypeInv, RestoreFail
  PROVE  TypeInv'
<1>1. Quiet /\ LiveKept /\ job.at # "idle" /\ job.id \in Backups /\ job \in Job
  BY JobRuns DEF RestoreFail
<1>2. /\ recovery[job.id] \in Option(RecoverySet) /\ database \in Database
      /\ artifacts \in Option(Tree) /\ restores \in Eras
  BY <1>1 DEF TypeInv, TypeOK, Eras
<1>3. /\ job' \in Job /\ job'.id = job.id /\ job'.replaced = job.replaced
      /\ job'.at = "move_back"
  BY <1>1, Proceeds DEF RestoreFail
<1>4. JobTypes'
  <2>1. CASE UNCHANGED database
    BY <1>3, <2>1 DEF RestoreFail, JobTypes, TypeInv, TypeOK
  <2>2. CASE job.at = "replace" /\ database' = BackedUp
    <3>1. backups[job.id] # None /\ backups[job.id] \in Published
      BY <1>1, <2>2 DEF TypeInv, TypeOK, JobFits, Restoring, Option
    <3>2. database' \in Database
      BY <1>2, <2>2, <3>1 DEF BackedUp, Published, Database
    <3> QED  BY <1>3, <3>2 DEF RestoreFail, JobTypes, TypeInv, TypeOK
  <2> QED  BY <2>1, <2>2 DEF RestoreFail, RaisedAt, At
<1>5. JobFits'
  BY <1>3 DEF RestoreFail, TypeInv, TypeOK, JobFits, Restoring, Dumped
<1>6. (artifacts = None => job.at \in {"install", "move_back", "return", "stuck"})'
  BY <1>3
<1> QED  BY <1>1, <1>4, <1>5, <1>6, JobStepTyped

\* The old tree returns if it is away.
LEMMA MoveBackTyped ==
  ASSUME TypeInv, MoveBack
  PROVE  TypeInv'
<1>1. Quiet /\ LiveKept /\ job.at # "idle" /\ job.id \in Backups /\ job \in Job
  BY JobRuns DEF MoveBack, At
<1>2. /\ recovery[job.id] \in Option(RecoverySet) /\ database \in Database
      /\ artifacts \in Option(Tree) /\ restores \in Eras
  BY <1>1 DEF TypeInv, TypeOK, Eras
<1>3. /\ job' \in Job /\ job'.id = job.id /\ job'.replaced = job.replaced
      /\ job'.at = IF job.replaced THEN "database_back" ELSE "discard"
  BY <1>1, Proceeds DEF MoveBack
<1>4. JobTypes'
  BY <1>1, <1>3 DEF MoveBack, At, JobTypes, TypeInv, TypeOK, JobFits, Option, RecoverySet
<1>5. JobFits'
  BY <1>3, NoneAssumption DEF MoveBack, At, TypeInv, TypeOK, JobFits, Restoring, Dumped,
     RecoverySet, Option
<1>6. (artifacts = None => job.at \in {"install", "move_back", "return", "stuck"})'
  BY DEF MoveBack, At, TypeInv, JobFits
<1> QED  BY <1>1, <1>4, <1>5, <1>6, JobStepTyped

\* The dump is there if the database was replaced.
LEMMA DatabaseBackTyped ==
  ASSUME TypeInv, DatabaseBack
  PROVE  TypeInv'
<1>1. Quiet /\ LiveKept /\ job.at # "idle" /\ job.id \in Backups /\ job \in Job
  BY JobRuns DEF DatabaseBack, At
<1>2. /\ recovery[job.id] \in Option(RecoverySet) /\ database \in Database
      /\ artifacts \in Option(Tree) /\ restores \in Eras
  BY <1>1 DEF TypeInv, TypeOK, Eras
<1>3. /\ job' \in Job /\ job'.id = job.id /\ job'.replaced = job.replaced
      /\ \/ job'.at = "discard"
         \/ job'.at = "stuck" /\ UNCHANGED database
  BY <1>1, Proceeds DEF DatabaseBack, AfterFailedReturn
<1>4. JobTypes'
  BY <1>2, <1>3 DEF DatabaseBack, At, JobTypes, TypeInv, TypeOK, JobFits, Option, Dumped,
     RecoverySet
<1>5. JobFits'
  BY <1>3 DEF DatabaseBack, At, TypeInv, JobFits, Restoring, Dumped
<1>6. (artifacts = None => job.at \in {"install", "move_back", "return", "stuck"})'
  BY DEF DatabaseBack, At, TypeInv, TypeOK
<1> QED  BY <1>1, <1>4, <1>5, <1>6, JobStepTyped

\* The recovery set is not needed any more.
LEMMA DiscardTyped ==
  ASSUME TypeInv, Discard
  PROVE  TypeInv'
<1>1. Quiet /\ LiveKept /\ job.at # "idle" /\ job.id \in Backups /\ job \in Job
  BY JobRuns DEF Discard, At
<1>2. /\ recovery[job.id] \in Option(RecoverySet) /\ database \in Database
      /\ artifacts \in Option(Tree) /\ restores \in Eras
  BY <1>1 DEF TypeInv, TypeOK, Eras
<1>3. job' = Idle /\ job' \in Job /\ job'.at = "idle"
  BY DEF Discard, Job, Idle
<1>4. JobTypes'
  BY <1>3 DEF Discard, JobTypes, TypeInv, TypeOK, Option
<1>5. JobFits'
  BY <1>3 DEF JobFits, Restoring, Dumped
<1>6. (artifacts = None => job.at \in {"install", "move_back", "return", "stuck"})'
  BY DEF Discard, At, TypeInv, TypeOK
<1> QED  BY <1>1, <1>4, <1>5, <1>6, JobStepTyped

\* What is left is left to the operator.
LEMMA KillTyped ==
  ASSUME TypeInv, Kill
  PROVE  TypeInv'
<1>1. Quiet /\ LiveKept /\ job.at # "idle" /\ job.id \in Backups /\ job \in Job
  BY JobRuns DEF Kill
<1>2. /\ recovery[job.id] \in Option(RecoverySet) /\ database \in Database
      /\ artifacts \in Option(Tree) /\ restores \in Eras
  BY <1>1 DEF TypeInv, TypeOK, Eras
<1>3. /\ job' \in Job /\ job'.id = job.id /\ job'.replaced = job.replaced
      /\ job'.at = "stuck"
  BY <1>1, Proceeds DEF Kill
<1>4. JobTypes'
  BY <1>3 DEF Kill, JobTypes, TypeInv, TypeOK
<1>5. JobFits'
  BY <1>3 DEF JobFits, Restoring, Dumped
<1>6. (artifacts = None => job.at \in {"install", "move_back", "return", "stuck"})'
  BY <1>3
<1> QED  BY <1>1, <1>4, <1>5, <1>6, JobStepTyped

\* The tree of the recovery set returns.
LEMMA ReturnArtifactsTyped ==
  ASSUME TypeInv, ReturnArtifacts
  PROVE  TypeInv'
<1>1. Quiet /\ LiveKept /\ job.at # "idle" /\ job.id \in Backups /\ job \in Job
  BY JobRuns DEF ReturnArtifacts, At
<1>2. /\ recovery[job.id] \in Option(RecoverySet) /\ database \in Database
      /\ artifacts \in Option(Tree) /\ restores \in Eras
  BY <1>1 DEF TypeInv, TypeOK, Eras
<1>3. /\ job' \in Job /\ job'.id = job.id /\ job'.replaced = job.replaced
      /\ job'.at = "return_database"
  BY <1>1, Proceeds DEF ReturnArtifacts
<1>4. JobTypes'
  BY <1>2, <1>3 DEF ReturnArtifacts, At, JobTypes, TypeInv, TypeOK, JobFits, Option, RecoverySet
<1>5. JobFits'
  BY <1>2, <1>3, NoneAssumption DEF ReturnArtifacts, At, TypeInv, JobFits, Restoring, Dumped,
     RecoverySet, Option
<1>6. (artifacts = None => job.at \in {"install", "move_back", "return", "stuck"})'
  BY DEF ReturnArtifacts, At, TypeInv, JobFits
<1> QED  BY <1>1, <1>4, <1>5, <1>6, JobStepTyped

\* The dump of the recovery set returns.
LEMMA ReturnDatabaseTyped ==
  ASSUME TypeInv, ReturnDatabase
  PROVE  TypeInv'
<1>1. Quiet /\ LiveKept /\ job.at # "idle" /\ job.id \in Backups /\ job \in Job
  BY JobRuns DEF ReturnDatabase, At
<1>2. /\ recovery[job.id] \in Option(RecoverySet) /\ database \in Database
      /\ artifacts \in Option(Tree) /\ restores \in Eras
  BY <1>1 DEF TypeInv, TypeOK, Eras
<1>3. job' = Idle /\ job' \in Job /\ job'.at = "idle"
  BY DEF ReturnDatabase, Job, Idle
<1>4. JobTypes'
  BY <1>2, <1>3 DEF ReturnDatabase, At, JobTypes, TypeInv, TypeOK, JobFits, Option, Dumped,
     RecoverySet
<1>5. JobFits'
  BY <1>3 DEF JobFits, Restoring, Dumped
<1>6. (artifacts = None => job.at \in {"install", "move_back", "return", "stuck"})'
  BY DEF ReturnDatabase, At, TypeInv, TypeOK
<1> QED  BY <1>1, <1>4, <1>5, <1>6, JobStepTyped

\* The displaced tree returns, and the other to the recovery set.
LEMMA RollbackFailTyped ==
  ASSUME TypeInv, RollbackFail
  PROVE  TypeInv'
<1>1. Quiet /\ LiveKept /\ job.at # "idle" /\ job.id \in Backups /\ job \in Job
  BY JobRuns DEF RollbackFail
<1>2. /\ recovery[job.id] \in Option(RecoverySet) /\ database \in Database
      /\ artifacts \in Option(Tree) /\ restores \in Eras
  BY <1>1 DEF TypeInv, TypeOK, Eras
<1>3. job' = Idle /\ job' \in Job /\ job'.at = "idle"
  BY DEF RollbackFail, Job, Idle
<1>4. JobTypes'
  <2>1. CASE job.at = "return_database"
    <3>1. recovery[job.id].dump \in Database
      BY <1>2, <2>1 DEF TypeInv, JobFits, Dumped, Option, RecoverySet
    <3>2. database' \in Database
      BY <1>2, <3>1 DEF RollbackFail, RaisedAt
    <3> QED  BY <1>1, <1>3, <2>1, <3>2
             DEF RollbackFail, JobTypes, TypeInv, TypeOK, JobFits, Option, RecoverySet, PutBack
  <2>2. CASE job.at # "return_database"
    <3>1. UNCHANGED database
      BY <2>2 DEF RollbackFail, RaisedAt, At
    <3> QED  BY <1>1, <1>3, <2>2, <3>1
             DEF RollbackFail, JobTypes, TypeInv, TypeOK, JobFits, Option, RecoverySet, PutBack
  <2> QED  BY <2>1, <2>2
<1>5. JobFits'
  BY <1>3 DEF JobFits, Restoring, Dumped
<1>6. (artifacts = None => job.at \in {"install", "move_back", "return", "stuck"})'
  BY DEF RollbackFail, TypeInv, JobFits, PutBack
<1> QED  BY <1>1, <1>4, <1>5, <1>6, JobStepTyped

LEMMA StartRollbackTyped ==
  ASSUME TypeInv, NEW b \in Backups, StartRollback(b)
  PROVE  TypeInv'
<1>1. Quiet /\ LiveKept /\ artifacts # None /\ artifacts \in Tree
  BY DEF StartRollback, TypeInv, TypeOK, At, Option
<1>2. /\ displaced' \in [Backups -> Option(Tree)] /\ displaced'[b] # None
      /\ job' \in Job /\ job'.id = b /\ job'.at = "return"
      /\ artifacts' = None /\ UNCHANGED <<database, staging, recovery, restores, owed>>
      /\ recovery[b] # None /\ recovery[b].dump # None /\ recovery[b].previous # None
  BY <1>1 DEF StartRollback, TypeInv, TypeOK, Job
<1>3. JobTypes'
  BY <1>2 DEF JobTypes, TypeInv, TypeOK, Option
<1>4. JobFits'
  BY <1>2 DEF JobFits, Restoring
<1> QED  BY <1>1, <1>2, <1>3, <1>4, JobStepTyped

LEMMA InitTyped == Init => TypeInv
<1> SUFFICES ASSUME Init PROVE TypeInv
  OBVIOUS
<1>1. Empty \in Files /\ 0 \in Eras /\ Idle.at = "idle"
  BY MaxRestoresAssumption DEF Empty, Files, Content, Eras, Idle
<1>2. database \in Database /\ artifacts \in Tree
  BY <1>1 DEF Init, Database, Tree
<1>3. /\ request \in [Handlers -> Request] /\ job \in Job
      /\ backups \in [Backups -> Option(Published)]
      /\ staging \in [Backups -> Option(Files)]
      /\ recovery \in [Backups -> Option(RecoverySet)]
      /\ displaced \in [Backups -> Option(Tree)]
  BY DEF Init, Request, Job, Option
<1>4. artifacts # None
  BY <1>2, NoneAssumption
<1>5. TypeOK
  BY <1>1, <1>2, <1>3, <1>4, MaxRestoresAssumption DEF Init, TypeOK, Option
<1>6. JobFits
  BY <1>1 DEF Init, JobFits, Restoring, Dumped
<1> QED  BY <1>5, <1>6 DEF Init, TypeInv

LEMMA NextTyped == TypeInv /\ [Next]_vars => TypeInv'
<1> SUFFICES ASSUME TypeInv, [Next]_vars PROVE TypeInv'
  OBVIOUS
<1>1. CASE Api
  BY <1>1, ServeTyped, VerifyTyped, StartStopTyped DEF Api, DownloadSample, DownloadInput,
     DownloadArtifact
<1>2. CASE Restore \/ Rollback
  BY <1>2, StartRestoreTyped, DumpLiveTyped, ReplaceDatabaseTyped, MoveArtifactsTyped,
     InstallArtifactsTyped, WriteRestoreIdTyped, RestoreFailTyped, MoveBackTyped,
     DatabaseBackTyped, DiscardTyped, KillTyped, StartRollbackTyped, ReturnArtifactsTyped,
     ReturnDatabaseTyped, RollbackFailTyped DEF Restore, Rollback
<1>3. CASE UNCHANGED vars
  BY <1>3 DEF vars, TypeInv, TypeOK, JobFits
<1> QED  BY <1>1, <1>2, <1>3, BackupTyped, CorruptTyped DEF Next

LEMMA TypesHold == Spec => []TypeInv
BY InitTyped, NextTyped, PTL DEF Spec

\* Every variable has its type, and the API never meets a missing tree, however often restores
\* and rollbacks fail or are killed.
THEOREM TypeCorrect == Spec => []TypeOK
<1>1. TypeInv => TypeOK
  BY DEF TypeInv
<1> QED  BY <1>1, TypesHold, PTL

-----------------------------------------------------------------------------
(* Data: the API and the backups *)

\* No object disappears from the tree, and damage is the disk's.
TreeGrows ==
  /\ artifacts \in Tree /\ artifacts' \in Tree /\ artifacts' # None
  /\ artifacts'.era = artifacts.era
  /\ \A d \in Digests :
       /\ artifacts.files[d] # "none" => artifacts'.files[d] # "none"
       /\ artifacts'.files[d] = "bad" => artifacts.files[d] = "bad" \/ d \in corrupted'

RowsTyped == \A row \in database.rows : row[2] \in Digests

LEMMA RowsHaveDigests ==
  ASSUME TypeInv
  PROVE  RowsTyped /\ \A b \in Backups : HasPair(b) \/ (recovery[b] # None /\ recovery[b].dump # None)
                       => \A row \in recovery[b].dump.rows : row[2] \in Digests
<1>1. \A row \in Rows : row[2] \in Digests
  BY DEF Rows
<1>2. RowsTyped
  BY <1>1 DEF TypeInv, TypeOK, Database, RowsTyped
<1>3. ASSUME NEW b \in Backups, recovery[b] # None, recovery[b].dump # None
      PROVE  recovery[b].dump.rows \subseteq Rows
  BY <1>3 DEF TypeInv, TypeOK, Option, RecoverySet, Database
<1> QED  BY <1>1, <1>2, <1>3 DEF HasPair

\* A step of the API or the disk: rows commit only with their objects.
LEMMA ApiData ==
  ASSUME TypeInv, DataInv, OperatorIdle, UNCHANGED <<making, backups>>,
         TreeGrows \/ UNCHANGED artifacts,
         database'.era = database.era,
         job.at # "idle" => UNCHANGED database,
         job.at = "idle" => \A row \in database'.rows :
           row \in database.rows \/ artifacts'.files[row[2]] # "none",
         corrupted \subseteq corrupted', alarms' \subseteq corrupted',
         \A h \in Handlers : Is(h, "stored")' => artifacts'.files[request'[h].sha] # "none"
  PROVE  DataInv'
<1>1. UNCHANGED <<staging, recovery, displaced, job, restores, owed>>
  BY DEF OperatorIdle
<1>2. RowsTyped /\ \A b \in Backups : recovery[b] # None /\ recovery[b].dump # None =>
                     \A row \in recovery[b].dump.rows : row[2] \in Digests
  BY RowsHaveDigests
<1>3. /\ artifacts # None <=> artifacts' # None
      /\ artifacts # None => artifacts'.era = artifacts.era
  BY NoneAssumption DEF TreeGrows
<1>4. ASSUME NEW dbRows, \A row \in dbRows : row[2] \in Digests, Covered(dbRows, artifacts.files)
      PROVE  Covered(dbRows, artifacts'.files)
  BY <1>4 DEF TreeGrows, Covered
<1>5. LiveData'
  <2>1. job.at = "idle" => Covered(database'.rows, artifacts'.files)
    BY <1>2, <1>4 DEF DataInv, LiveData, Covered, RowsTyped
  <2>2. ASSUME making # None, NEW row \in making.rows
        PROVE  artifacts'.files[row[2]] # "none"
    <3>1. row[2] \in Digests
      BY <2>2 DEF TypeInv, TypeOK, Option, Draft, Rows
    <3> QED  BY <2>2, <3>1 DEF DataInv, LiveData, Stored, TreeGrows
  <2> QED  BY <1>1, <2>1, <2>2 DEF DataInv, LiveData, Stored
<1>6. KeptData'
  BY <1>1 DEF DataInv, KeptData, BackupsComplete, HasPair
<1>7. JobData'
  <2>1. \A dbRows : Covered(dbRows, artifacts.files) /\ (\A row \in dbRows : row[2] \in Digests)
                      => Covered(dbRows, artifacts'.files)
    BY <1>4
  <2>2. CASE job.at = "idle"
    BY <1>1, <2>2 DEF JobData, Restoring
  <2>3. CASE job.at # "idle"
    <3>1. UNCHANGED database
      BY <2>3
    <3>2. job.at # "stuck" => recovery[job.id] # None /\ job.id \in Backups
      BY <2>3, JobRuns DEF TypeInv, JobFits
    <3>3. job.at \in {"move", "database_back", "return_database"}
            \/ (job.at = "move_back" /\ job.replaced) => recovery[job.id].dump # None
      BY DEF TypeInv, JobFits, Dumped
    <3> QED  BY <1>1, <1>2, <1>3, <2>1, <3>1, <3>2, <3>3
             DEF DataInv, JobData, RowsTyped, Restoring
  <2> QED  BY <2>2, <2>3
<1>8. Damage'
  BY <1>1, <1>3 DEF DataInv, Damage, NoFalseAlarm, DamageKnown, TreeGrows
<1>9. ErasKnown' /\ DataKept'
  BY <1>1, <1>3, JobRuns DEF DataInv, ErasKnown, DataKept, TypeInv, JobFits
<1> QED  BY <1>5, <1>6, <1>7, <1>8, <1>9 DEF DataInv

\* An object that is put into the tree is good, or is not there yet.
LEMMA StoreGrows ==
  ASSUME artifacts \in Tree, NEW d \in Digests, NEW c \in {"good", "none"}, Store(d, c),
         c = "none" => Stored(d) = "none"
  PROVE  TreeGrows /\ (c = "good" => artifacts'.files[d] # "none")
<1>1. /\ artifacts' \in Tree /\ artifacts' # None
      /\ artifacts'.files = [artifacts.files EXCEPT ![d] = c]
      /\ artifacts'.era = artifacts.era
  BY StoreTyped DEF Content
<1> QED  BY <1>1 DEF TreeGrows, Stored, Tree, Files

\* What the requests of the API do to the data.
LEMMA ServeData ==
  ASSUME TypeInv, DataInv, NEW h \in Handlers, Serve(h)
  PROVE  DataInv'
<1>1. OperatorIdle /\ StoreIdle /\ UNCHANGED <<making, backups, corrupted, alarms>>
  BY DEF Serve, ReceiveSample, ReceiveArtifact, RenderExport, Receive, InsertSample, Promote,
         CopyExport, StoreExport, Commit, Abort, StoreIdle
<1>2. alarms' \subseteq corrupted'
  BY <1>1 DEF DataInv, Damage, NoFalseAlarm
<1>3. /\ request \in [Handlers -> Request]
      /\ \A g \in Handlers : Is(g, "stored") =>
           artifacts \in Tree /\ request[g].sha \in Digests /\ Stored(request[g].sha) # "none"
  BY Serving DEF TypeInv, TypeOK, DataInv, LiveData, Is
<1>4. ASSUME UNCHANGED database, TreeGrows \/ UNCHANGED artifacts, NEW r,
             request' = [request EXCEPT ![h] = r],
             r.at = "stored" => artifacts'.files[r.sha] # "none"
      PROVE  DataInv'
  <2>1. ASSUME NEW g \in Handlers, Is(g, "stored")'
        PROVE  artifacts'.files[request'[g].sha] # "none"
    <3>1. CASE g = h
      BY <1>3, <1>4, <2>1, <3>1 DEF Is
    <3>2. CASE g # h
      BY <1>3, <1>4, <2>1, <3>2 DEF Is, Stored, TreeGrows
    <3> QED  BY <3>1, <3>2
  <2>2. job.at = "idle" => \A row \in database'.rows : row \in database.rows
    BY <1>4
  <2> QED  BY <1>1, <1>2, <1>4, <2>1, <2>2, ApiData
<1>5. ASSUME UNCHANGED <<database, artifacts>>, Ends(h)
      PROVE  DataInv'
  BY <1>4, <1>5 DEF Ends, Idle
<1>6. ASSUME UNCHANGED database, NEW at \in {"received", "copied", "stored"}, Goes(h, at),
             ~Is(h, "idle"), TreeGrows \/ UNCHANGED artifacts,
             at = "stored" => artifacts'.files[request[h].sha] # "none"
      PROVE  DataInv'
  <2>1. PICK r : r = [request[h] EXCEPT !.at = at]
    OBVIOUS
  <2>2. r.at = at /\ r.sha = request[h].sha /\ request' = [request EXCEPT ![h] = r]
    BY <1>3, <1>6, <2>1, Serving DEF Goes
  <2> QED  BY <1>4, <1>6, <2>2
<1>7. ASSUME NEW d \in Digests,
             ReceiveSample(h, d) \/ ReceiveArtifact(h, d) \/ RenderExport(h, d)
      PROVE  DataInv'
  <2>1. PICK at \in {"read", "received"}, kind \in {"sample", "artifact", "export"}, new \in BOOLEAN :
          Receive(h, at, kind, d, new)
    BY <1>7 DEF ReceiveSample, ReceiveArtifact, RenderExport
  <2>2. PICK r : r = [at |-> at, kind |-> kind, sha |-> d, new |-> new]
    OBVIOUS
  <2>3. r.at # "stored" /\ request' = [request EXCEPT ![h] = r] /\ UNCHANGED <<database, artifacts>>
    BY <2>1, <2>2 DEF Receive
  <2> QED  BY <1>4, <2>3
<1>8. CASE InsertSample(h)
  BY <1>5, <1>6, <1>8 DEF InsertSample, Is
<1>9. CASE Promote(h)
  <2>1. CASE Ends(h) /\ UNCHANGED artifacts
    BY <1>5, <1>9, <2>1 DEF Promote
  <2>2. CASE Goes(h, "stored") /\ Store(request[h].sha, "good")
    <3>1. ~Is(h, "idle")
      BY <1>9 DEF Promote, Is
    <3>2. TreeGrows /\ artifacts'.files[request[h].sha] # "none"
      BY <2>2, <3>1, Serving, StoreGrows
    <3> QED  BY <1>6, <1>9, <2>2, <3>1, <3>2 DEF Promote
  <2> QED  BY <1>9, <2>1, <2>2 DEF Promote
<1>10. CASE CopyExport(h)
  <2>1. ~Is(h, "idle") /\ UNCHANGED database
    BY <1>10 DEF CopyExport, Is
  <2>2. CASE Stored(request[h].sha) # "none"
    BY <1>6, <1>10, <2>1, <2>2 DEF CopyExport, Stored
  <2>3. CASE Stored(request[h].sha) = "none"
    <3>1. Goes(h, "copied") /\ Store(request[h].sha, "none")
      BY <1>10, <2>3 DEF CopyExport, CopiedAside
    <3>2. TreeGrows
      BY <2>1, <2>3, <3>1, Serving, StoreGrows
    <3> QED  BY <1>6, <2>1, <3>1, <3>2
  <2> QED  BY <2>2, <2>3
<1>11. CASE StoreExport(h)
  <2>1. ~Is(h, "idle") /\ UNCHANGED database
    BY <1>11 DEF StoreExport, Is
  <2>2. TreeGrows /\ artifacts'.files[request[h].sha] # "none"
    BY <1>11, <2>1, Serving, StoreGrows DEF StoreExport
  <2> QED  BY <1>6, <1>11, <2>1, <2>2 DEF StoreExport
<1>12. CASE Commit(h)
  <2>1. ~Is(h, "idle") /\ Is(h, "stored") /\ UNCHANGED artifacts /\ Ends(h)
    BY <1>12 DEF Commit, Committable, Is
  <2>2. job.at = "idle" /\ artifacts.files[request[h].sha] # "none"
    BY <1>3, <2>1, Serving DEF Stored
  <2>3. database' = [database EXCEPT !.rows = @ \cup {Row(h)}] /\ Row(h)[2] = request[h].sha
    BY <1>12 DEF Commit, Row
  <2>4. /\ database'.era = database.era
        /\ \A row \in database'.rows : row \in database.rows \/ artifacts'.files[row[2]] # "none"
    BY <2>1, <2>2, <2>3 DEF TypeInv, TypeOK, Database
  <2>5. \A g \in Handlers : Is(g, "stored")' => artifacts'.files[request'[g].sha] # "none"
    BY <1>3, <2>1 DEF Ends, Is, Idle, Stored
  <2> QED  BY <1>1, <1>2, <2>1, <2>2, <2>4, <2>5, ApiData
<1>13. CASE Abort(h)
  BY <1>5, <1>13 DEF Abort
<1> QED  BY <1>7, <1>8, <1>9, <1>10, <1>11, <1>12, <1>13 DEF Serve

\* An alarm is raised for an object that is not good; no object of a row is missing.
LEMMA VerifyData ==
  ASSUME TypeInv, DataInv, NEW kind, NEW d \in Digests, Verify(kind, d)
  PROVE  DataInv'
<1>1. /\ OperatorIdle /\ UNCHANGED <<database, artifacts, request, making, backups, corrupted>>
      /\ alarms' = alarms \cup {d} /\ <<kind, d>> \in database.rows /\ Stored(d) # "good"
      /\ job.at = "idle"
  BY DEF Verify, TypeInv, TypeOK
<1>2. artifacts \in Tree /\ artifacts # None
  BY <1>1 DEF TypeInv, TypeOK, Option
<1>3. Stored(d) # "none"
  BY <1>1 DEF DataInv, LiveData, Covered, Stored
<1>4. d \in corrupted
  BY <1>1, <1>2, <1>3 DEF Stored, Tree, Files, Content, DataInv, Damage, DamageKnown
<1>5. alarms' \subseteq corrupted'
  BY <1>1, <1>4 DEF DataInv, Damage, NoFalseAlarm
<1>6. \A h \in Handlers : Is(h, "stored")' => artifacts'.files[request'[h].sha] # "none"
  BY <1>1 DEF DataInv, LiveData, Is, Stored
<1> QED  BY <1>1, <1>5, <1>6, ApiData

\* The disk turns a good object into a bad one.
LEMMA CorruptData ==
  ASSUME TypeInv, DataInv, NEW d \in Corruptible, Corrupt(d)
  PROVE  DataInv'
<1>1. /\ OperatorIdle /\ UNCHANGED <<database, request, making, backups, alarms>>
      /\ artifacts \in Tree /\ Store(d, "bad") /\ d \in Digests
      /\ corrupted' = corrupted \cup {d}
  BY CorruptibleAssumption DEF Corrupt, TypeInv, TypeOK, Option
<1>2. /\ artifacts' \in Tree /\ artifacts' # None
      /\ artifacts'.files = [artifacts.files EXCEPT ![d] = "bad"]
      /\ artifacts'.era = artifacts.era
  BY <1>1, StoreTyped DEF Content
<1>3. TreeGrows
  BY <1>1, <1>2 DEF TreeGrows, Tree, Files
<1>4. \A h \in Handlers : Is(h, "stored")' => artifacts'.files[request'[h].sha] # "none"
  <2>1. ASSUME NEW h \in Handlers, Is(h, "stored")
        PROVE  request[h].sha \in Digests /\ artifacts.files[request[h].sha] # "none"
    BY <2>1, Serving DEF Is, DataInv, LiveData, Stored
  <2> QED  BY <1>1, <1>3, <2>1 DEF Is, TreeGrows
<1>5. alarms' \subseteq corrupted'
  BY <1>1 DEF DataInv, Damage, NoFalseAlarm
<1> QED  BY <1>1, <1>3, <1>4, <1>5, ApiData

LEMMA StartStopData ==
  ASSUME TypeInv, DataInv, Stop \/ Start
  PROVE  DataInv'
<1>1. /\ UNCHANGED <<database, artifacts, making, backups, corrupted, alarms>>
      /\ OperatorIdle
  BY DEF Stop, Start
<1>2. \A h \in Handlers : Is(h, "stored")' => artifacts'.files[request'[h].sha] # "none"
  BY DEF Stop, Start, DataInv, LiveData, Is, Idle, Stored
<1>3. alarms' \subseteq corrupted'
  BY <1>1 DEF DataInv, Damage, NoFalseAlarm
<1> QED  BY <1>1, <1>2, <1>3, ApiData

\* What the backup has dumped it finds when it copies, and what it publishes it has checked.
LEMMA BackupData ==
  ASSUME TypeInv, DataInv, Backup
  PROVE  DataInv'
<1>1. UNCHANGED <<database, artifacts, up, request, corrupted, alarms>> /\ OperatorIdle
  BY DEF Backup, BackupDump, BackupCopy, BackupPublish, BackupFail
<1>2. UNCHANGED <<staging, recovery, displaced, job, restores, owed>>
  BY <1>1 DEF OperatorIdle
<1>3. /\ making' # None =>
           \A row \in making'.rows : /\ artifacts'.files[row[2]] # "none"
                                     /\ row[2] \in making'.todo \/ making'.files[row[2]] # "none"
      /\ \A b \in Backups : backups'[b] # None => \/ backups'[b] = backups[b]
                                                  \/ /\ Inventory(backups'[b].files)
                                                     /\ \A row \in backups'[b].rows :
                                                          backups'[b].files[row[2]] = "good"
      /\ job.at = "idle" \/ UNCHANGED backups
  <2>1. ASSUME NEW b \in Backups, BackupDump(b)
        PROVE  \A row \in making'.rows : /\ artifacts'.files[row[2]] # "none"
                                         /\ row[2] \in making'.todo
    <3>1. job.at = "idle" /\ making'.rows = database.rows /\ making'.todo = Digests
      BY <2>1 DEF BackupDump
    <3> QED  BY <1>1, <3>1, RowsHaveDigests DEF DataInv, LiveData, Covered, RowsTyped
  <2>2. ASSUME NEW d \in Digests, BackupCopy(d)
        PROVE  \A row \in making'.rows : /\ artifacts'.files[row[2]] # "none"
                                         /\ row[2] \in making'.todo \/ making'.files[row[2]] # "none"
    <3>1. making \in Draft /\ making # None
      BY <2>2 DEF BackupCopy, TypeInv, TypeOK, Option
    <3>2. /\ making'.rows = making.rows /\ making'.todo = making.todo \ {d}
          /\ making'.files = [making.files EXCEPT ![d] = Stored(d)]
          /\ making.files \in Files
      BY <2>2, <3>1 DEF BackupCopy, Draft
    <3>3. \A row \in making.rows : /\ artifacts.files[row[2]] # "none"
                                   /\ row[2] \in making.todo \/ making.files[row[2]] # "none"
                                   /\ row[2] \in Digests
      BY <3>1 DEF DataInv, LiveData, Stored, Draft, Rows
    <3> QED  BY <1>1, <3>2, <3>3 DEF Stored, Files
  <2>3. CASE BackupPublish
    <3>1. making \in Draft /\ making # None /\ making' = None /\ job.at = "idle"
      BY <2>3 DEF BackupPublish, TypeInv, TypeOK, Option
    <3>2. making.todo = {} /\ Inventory(making.files)
          /\ backups' = [backups EXCEPT ![making.id] = [rows |-> making.rows, files |-> making.files]]
      BY <2>3 DEF BackupPublish
    <3>3. ASSUME NEW row \in making.rows
          PROVE  making.files[row[2]] = "good"
      <4>1. row[2] \in Digests /\ making.files \in Files
        BY <3>1, <3>3 DEF Draft, Rows
      <4>2. making.files[row[2]] # "none"
        BY <3>1, <3>2, <3>3 DEF DataInv, LiveData
      <4> QED  BY <3>2, <4>1, <4>2 DEF Inventory, Files, Content
    <3> QED  BY <3>1, <3>2, <3>3 DEF TypeInv, TypeOK
  <2>4. CASE BackupFail
    BY <2>4 DEF BackupFail
  <2>5. BackupPublish \/ UNCHANGED backups
    BY DEF Backup, BackupDump, BackupCopy, BackupFail
  <2> QED  BY <2>1, <2>2, <2>3, <2>4, <2>5 DEF Backup
<1>4. LiveData'
  BY <1>1, <1>2, <1>3 DEF DataInv, LiveData, Stored, Is
<1>5. KeptData'
  BY <1>2, <1>3 DEF DataInv, KeptData, BackupsComplete, HasPair, Inventory
<1>6. JobData'
  <2>1. CASE job.at = "idle"
    BY <1>2, <2>1 DEF JobData, Restoring
  <2>2. CASE UNCHANGED backups
    BY <1>1, <1>2, <2>2 DEF DataInv, JobData
  <2> QED  BY <1>3, <2>1, <2>2
<1>7. Damage' /\ ErasKnown' /\ DataKept'
  BY <1>1, <1>2 DEF DataInv, Damage, NoFalseAlarm, DamageKnown, ErasKnown, DataKept
<1> QED  BY <1>4, <1>5, <1>6, <1>7 DEF DataInv

-----------------------------------------------------------------------------
(* Data: the operator's jobs *)

\* What a step of a job leaves alone: the backups, the damage that is known, and the recovery
\* sets and displaced trees of other restores.
LEMMA JobFrame ==
  ASSUME TypeInv, DataInv, job.at # "idle", LiveKept
  PROVE  /\ ~up /\ making = None /\ \A h \in Handlers : request[h] = Idle
         /\ UNCHANGED <<making, request, backups, corrupted, alarms>>
         /\ job.id \in Backups /\ job \in Job /\ job.replaced \in BOOLEAN
BY JobRuns DEF Quiet, LiveKept, TypeInv

\* The live data is complete when the job is over, and what was kept is kept.
LEMMA JobLive ==
  ASSUME TypeInv, Quiet, LiveKept,
         job'.at = "idle" => Covered(database'.rows, artifacts'.files)
  PROVE  LiveData'
BY DEF Quiet, LiveKept, TypeInv, LiveData, Is, Idle

LEMMA JobKept ==
  ASSUME DataInv, LiveKept,
         \A b \in Backups : HasPair(b)' =>
           \/ HasPair(b) /\ recovery'[b] = recovery[b]
           \/ Covered(recovery'[b].dump.rows, recovery'[b].previous.files)
  PROVE  KeptData'
BY DEF DataInv, KeptData, BackupsComplete, HasPair, LiveKept

LEMMA JobDamage ==
  ASSUME DataInv, LiveKept,
         artifacts' # None => DamageKnown(artifacts'),
         \A b \in Backups :
           /\ recovery'[b] # None /\ recovery'[b].previous # None => DamageKnown(recovery'[b].previous)
           /\ displaced'[b] # None => DamageKnown(displaced'[b])
  PROVE  Damage'
BY DEF DataInv, Damage, NoFalseAlarm, DamageKnown, LiveKept

\* A job goes on; the next step is about the same restore.
LEMMA GoesOn ==
  ASSUME TypeInv, job.at # "idle",
         NEW step \in {"dump", "replace", "move", "install", "restore_id", "move_back",
                       "database_back", "discard", "return", "return_database", "stuck"},
         Proceed(step)
  PROVE  job'.at = step /\ job'.id = job.id /\ job'.replaced = job.replaced
BY JobRuns, Proceeds

\* What is dumped is what is live.
LEMMA DumpLiveData ==
  ASSUME TypeInv, TypeInv', DataInv, DumpLive
  PROVE  DataInv'
<1>1. /\ LiveKept /\ Quiet /\ job.at # "idle" /\ job.id \in Backups /\ job \in Job
      /\ job.replaced \in BOOLEAN
  BY JobRuns DEF DumpLive, At
<1>a. job.at = "dump" /\ job'.at = "replace" /\ job'.id = job.id /\ job'.replaced = job.replaced
  BY <1>1, GoesOn DEF DumpLive, At
<1>2. /\ job.at = "dump" /\ job'.at = "replace" /\ job'.id = job.id /\ job'.replaced = job.replaced
      /\ \A b \in Backups : b # job.id => recovery'[b] = recovery[b]
      /\ recovery[job.id] # None /\ recovery'[job.id] # None
      /\ recovery'[job.id].dump = database
      /\ recovery'[job.id].previous = recovery[job.id].previous
      /\ database # None
      /\ UNCHANGED <<database, artifacts, staging, displaced, restores, owed>>
  BY <1>1, <1>a, NoneAssumption
  DEF DumpLive, At, Proceed, TypeInv, TypeOK, JobFits, Dumped, Restoring, Option, RecoverySet
<1>3. LiveData'
  BY <1>1, <1>2, JobLive DEF DataInv, JobData, Restoring
<1>4. KeptData'
  <2>1. \A b \in Backups : HasPair(b)' =>
          \/ HasPair(b) /\ recovery'[b] = recovery[b]
          \/ Covered(recovery'[b].dump.rows, recovery'[b].previous.files)
    BY <1>1, <1>2 DEF DataInv, JobData, HasPair, TypeInv, JobFits, Restoring, Dumped
  <2> QED  BY <1>1, <2>1, JobKept
<1>5. JobData'
  BY <1>1, <1>2 DEF DataInv, JobData, KeptData, BackupsComplete, Covered, HasPair, TypeInv,
     JobFits, Restoring, Dumped, LiveKept
<1>6. Damage'
  <2>1. artifacts' # None => DamageKnown(artifacts')
    BY <1>1, <1>2 DEF DataInv, Damage, DamageKnown, KeptData, Inventory, JobData, TypeInv,
       JobFits, Restoring, Dumped, LiveKept
  <2>2. \A b \in Backups :
          /\ recovery'[b] # None /\ recovery'[b].previous # None => DamageKnown(recovery'[b].previous)
          /\ displaced'[b] # None => DamageKnown(displaced'[b])
    BY <1>1, <1>2 DEF DataInv, Damage, DamageKnown, TypeInv, JobFits, LiveKept
  <2> QED  BY <1>1, <2>1, <2>2, JobDamage
<1>7. ErasKnown'
  BY <1>1, <1>2 DEF DataInv, ErasKnown, JobData, TypeInv, TypeOK, JobFits, Dumped
<1>8. DataKept'
  BY <1>1, <1>2 DEF DataInv, DataKept, ErasKnown, JobData, TypeInv, JobFits, Restoring, Dumped
<1> QED  BY <1>3, <1>4, <1>5, <1>6, <1>7, <1>8 DEF DataInv

\* The dump holds the rows, and their era, that the database gives up.
LEMMA ReplaceDatabaseData ==
  ASSUME TypeInv, TypeInv', DataInv, ReplaceDatabase
  PROVE  DataInv'
<1>1. /\ LiveKept /\ Quiet /\ job.at # "idle" /\ job.id \in Backups /\ job \in Job
      /\ job.replaced \in BOOLEAN
  BY JobRuns DEF ReplaceDatabase, At
<1>2. /\ job.at = "replace" /\ job'.at = "move" /\ job'.id = job.id /\ job'.replaced
      /\ database'.rows = backups[job.id].rows /\ database'.era = restores
      /\ UNCHANGED <<artifacts, staging, recovery, displaced, restores, owed>>
  BY <1>1, NoneAssumption
  DEF ReplaceDatabase, BackedUp, At, Proceed, TypeInv, TypeOK, JobFits, Dumped, Restoring, Option,
     RecoverySet, Job, Idle
<1>3. LiveData'
  BY <1>1, <1>2, JobLive DEF DataInv, JobData, Restoring
<1>4. KeptData'
  <2>1. \A b \in Backups : HasPair(b)' =>
          \/ HasPair(b) /\ recovery'[b] = recovery[b]
          \/ Covered(recovery'[b].dump.rows, recovery'[b].previous.files)
    BY <1>1, <1>2 DEF DataInv, JobData, HasPair, TypeInv, JobFits, Restoring, Dumped
  <2> QED  BY <1>1, <2>1, JobKept
<1>5. JobData'
  BY <1>1, <1>2 DEF DataInv, JobData, KeptData, BackupsComplete, Covered, HasPair, TypeInv,
     JobFits, Restoring, Dumped, LiveKept
<1>6. Damage'
  <2>1. artifacts' # None => DamageKnown(artifacts')
    BY <1>1, <1>2 DEF DataInv, Damage, DamageKnown, KeptData, Inventory, JobData, TypeInv,
       JobFits, Restoring, Dumped, LiveKept
  <2>2. \A b \in Backups :
          /\ recovery'[b] # None /\ recovery'[b].previous # None => DamageKnown(recovery'[b].previous)
          /\ displaced'[b] # None => DamageKnown(displaced'[b])
    BY <1>1, <1>2 DEF DataInv, Damage, DamageKnown, TypeInv, JobFits, LiveKept
  <2> QED  BY <1>1, <2>1, <2>2, JobDamage
<1>7. ErasKnown'
  BY <1>1, <1>2 DEF DataInv, ErasKnown, JobData, TypeInv, TypeOK, JobFits, Dumped
<1>8. DataKept'
  BY <1>1, <1>2 DEF DataInv, DataKept, ErasKnown, JobData, TypeInv, JobFits, Restoring, Dumped
<1> QED  BY <1>3, <1>4, <1>5, <1>6, <1>7, <1>8 DEF DataInv

\* The recovery set holds the tree that was live.
LEMMA MoveArtifactsData ==
  ASSUME TypeInv, TypeInv', DataInv, MoveArtifacts
  PROVE  DataInv'
<1>1. /\ LiveKept /\ Quiet /\ job.at # "idle" /\ job.id \in Backups /\ job \in Job
      /\ job.replaced \in BOOLEAN
  BY JobRuns DEF MoveArtifacts, At
<1>a. job.at = "move" /\ job'.at = "install" /\ job'.id = job.id /\ job'.replaced = job.replaced
  BY <1>1, GoesOn DEF MoveArtifacts, At
<1>2. /\ job.at = "move" /\ job'.at = "install" /\ job'.id = job.id /\ job'.replaced = job.replaced
      /\ \A b \in Backups : b # job.id => recovery'[b] = recovery[b]
      /\ recovery[job.id] # None /\ recovery'[job.id] # None
      /\ recovery'[job.id].dump = recovery[job.id].dump
      /\ recovery'[job.id].previous = artifacts
      /\ artifacts # None /\ artifacts' = None
      /\ UNCHANGED <<database, staging, displaced, restores, owed>>
  BY <1>1, <1>a, NoneAssumption
  DEF MoveArtifacts, At, Proceed, TypeInv, TypeOK, JobFits, Dumped, Restoring, Option, RecoverySet
<1>3. LiveData'
  BY <1>1, <1>2, JobLive DEF DataInv, JobData, Restoring
<1>4. KeptData'
  <2>1. \A b \in Backups : HasPair(b)' =>
          \/ HasPair(b) /\ recovery'[b] = recovery[b]
          \/ Covered(recovery'[b].dump.rows, recovery'[b].previous.files)
    BY <1>1, <1>2 DEF DataInv, JobData, HasPair, TypeInv, JobFits, Restoring, Dumped
  <2> QED  BY <1>1, <2>1, JobKept
<1>5. JobData'
  BY <1>1, <1>2 DEF DataInv, JobData, KeptData, BackupsComplete, Covered, HasPair, TypeInv,
     JobFits, Restoring, Dumped, LiveKept
<1>6. Damage'
  <2>1. artifacts' # None => DamageKnown(artifacts')
    BY <1>1, <1>2 DEF DataInv, Damage, DamageKnown, KeptData, Inventory, JobData, TypeInv,
       JobFits, Restoring, Dumped, LiveKept
  <2>2. \A b \in Backups :
          /\ recovery'[b] # None /\ recovery'[b].previous # None => DamageKnown(recovery'[b].previous)
          /\ displaced'[b] # None => DamageKnown(displaced'[b])
    BY <1>1, <1>2 DEF DataInv, Damage, DamageKnown, TypeInv, JobFits, LiveKept
  <2> QED  BY <1>1, <2>1, <2>2, JobDamage
<1>7. ErasKnown'
  BY <1>1, <1>2 DEF DataInv, ErasKnown, JobData, TypeInv, TypeOK, JobFits, Dumped
<1>8. DataKept'
  BY <1>1, <1>2 DEF DataInv, DataKept, ErasKnown, JobData, TypeInv, JobFits, Restoring, Dumped
<1> QED  BY <1>3, <1>4, <1>5, <1>6, <1>7, <1>8 DEF DataInv

\* The backup has an object for each of its rows.
LEMMA InstallArtifactsData ==
  ASSUME TypeInv, TypeInv', DataInv, InstallArtifacts
  PROVE  DataInv'
<1>1. /\ LiveKept /\ Quiet /\ job.at # "idle" /\ job.id \in Backups /\ job \in Job
      /\ job.replaced \in BOOLEAN
  BY JobRuns DEF InstallArtifacts, At
<1>a. job.at = "install" /\ job'.at = "restore_id" /\ job'.id = job.id /\ job'.replaced = job.replaced
  BY <1>1, GoesOn DEF InstallArtifacts, At
<1>2. /\ job.at = "install" /\ job'.at = "restore_id" /\ job'.id = job.id /\ job'.replaced = job.replaced
      /\ artifacts = None /\ artifacts' # None /\ artifacts'.files = staging[job.id] /\ artifacts'.era = restores
      /\ UNCHANGED <<database, recovery, displaced, restores, owed>>
  BY <1>1, <1>a, NoneAssumption
  DEF InstallArtifacts, At, Proceed, TypeInv, TypeOK, JobFits, Dumped, Restoring, Option,
     RecoverySet
<1>3. LiveData'
  BY <1>1, <1>2, JobLive DEF DataInv, JobData, Restoring
<1>4. KeptData'
  <2>1. \A b \in Backups : HasPair(b)' =>
          \/ HasPair(b) /\ recovery'[b] = recovery[b]
          \/ Covered(recovery'[b].dump.rows, recovery'[b].previous.files)
    BY <1>1, <1>2 DEF DataInv, JobData, HasPair, TypeInv, JobFits, Restoring, Dumped
  <2> QED  BY <1>1, <2>1, JobKept
<1>5. JobData'
  BY <1>1, <1>2 DEF DataInv, JobData, KeptData, BackupsComplete, Covered, HasPair, TypeInv,
     JobFits, Restoring, Dumped, LiveKept
<1>6. Damage'
  <2>1. artifacts' # None => DamageKnown(artifacts')
    BY <1>1, <1>2 DEF DataInv, Damage, DamageKnown, KeptData, Inventory, JobData, TypeInv,
       JobFits, Restoring, Dumped, LiveKept
  <2>2. \A b \in Backups :
          /\ recovery'[b] # None /\ recovery'[b].previous # None => DamageKnown(recovery'[b].previous)
          /\ displaced'[b] # None => DamageKnown(displaced'[b])
    BY <1>1, <1>2 DEF DataInv, Damage, DamageKnown, TypeInv, JobFits, LiveKept
  <2> QED  BY <1>1, <2>1, <2>2, JobDamage
<1>7. ErasKnown'
  BY <1>1, <1>2 DEF DataInv, ErasKnown, JobData, TypeInv, TypeOK, JobFits, Dumped
<1>8. DataKept'
  BY <1>1, <1>2 DEF DataInv, DataKept, ErasKnown, JobData, TypeInv, JobFits, Restoring, Dumped
<1> QED  BY <1>3, <1>4, <1>5, <1>6, <1>7, <1>8 DEF DataInv

\* The new era is complete, and the one before it is in the recovery set.
LEMMA WriteRestoreIdData ==
  ASSUME TypeInv, TypeInv', DataInv, WriteRestoreId
  PROVE  DataInv'
<1>1. /\ LiveKept /\ Quiet /\ job.at # "idle" /\ job.id \in Backups /\ job \in Job
      /\ job.replaced \in BOOLEAN
  BY JobRuns DEF WriteRestoreId, At
<1>9. /\ recovery[job.id] \in RecoverySet
      /\ recovery' = [recovery EXCEPT ![job.id] = [recovery[job.id] EXCEPT !.named = TRUE]]
      /\ recovery \in [Backups -> Option(RecoverySet)]
  BY <1>1 DEF WriteRestoreId, At, TypeInv, TypeOK, JobFits, Option
<1>10. PICK r : r = [recovery[job.id] EXCEPT !.named = TRUE]
  OBVIOUS
<1>11. r \in RecoverySet /\ r.dump = recovery[job.id].dump /\ r.previous = recovery[job.id].previous
  BY <1>9, <1>10 DEF RecoverySet
<1>12. recovery'[job.id] = r /\ \A b \in Backups : b # job.id => recovery'[b] = recovery[b]
  BY <1>1, <1>9, <1>10
<1>2. /\ \A b \in Backups : b # job.id => recovery'[b] = recovery[b]
      /\ recovery[job.id] # None /\ recovery'[job.id] # None
      /\ recovery'[job.id].dump = recovery[job.id].dump
      /\ recovery'[job.id].previous = recovery[job.id].previous
      /\ job.at = "restore_id" /\ job' = Idle /\ job'.at = "idle"
      /\ owed' = owed \cup {restores}
      /\ UNCHANGED <<database, artifacts, staging, displaced, restores>>
  BY <1>9, <1>11, <1>12, NoneAssumption DEF WriteRestoreId, At, Idle
<1>3. LiveData'
  BY <1>1, <1>2, JobLive DEF DataInv, JobData, Restoring
<1>4. KeptData'
  <2>1. \A b \in Backups : HasPair(b)' =>
          \/ HasPair(b) /\ recovery'[b] = recovery[b]
          \/ Covered(recovery'[b].dump.rows, recovery'[b].previous.files)
    BY <1>1, <1>2 DEF DataInv, KeptData, HasPair
  <2> QED  BY <1>1, <2>1, JobKept
<1>5. JobData'
  BY <1>1, <1>2 DEF DataInv, JobData, KeptData, BackupsComplete, Covered, HasPair, TypeInv,
     JobFits, Restoring, Dumped, LiveKept
<1>6. Damage'
  <2>1. artifacts' # None => DamageKnown(artifacts')
    BY <1>1, <1>2 DEF DataInv, Damage, DamageKnown, KeptData, Inventory, JobData, TypeInv,
       JobFits, Restoring, Dumped, LiveKept
  <2>2. \A b \in Backups :
          /\ recovery'[b] # None /\ recovery'[b].previous # None => DamageKnown(recovery'[b].previous)
          /\ displaced'[b] # None => DamageKnown(displaced'[b])
    BY <1>1, <1>2 DEF DataInv, Damage, DamageKnown, TypeInv, JobFits, LiveKept
  <2> QED  BY <1>1, <2>1, <2>2, JobDamage
<1>7. ErasKnown'
  BY <1>1, <1>2 DEF DataInv, ErasKnown, JobData, TypeInv, TypeOK, JobFits, Dumped
<1>8. DataKept'
  <2>1. database.era = restores /\ artifacts # None /\ artifacts.era = restores
    BY <1>2, NoneAssumption DEF DataInv, ErasKnown, TypeInv, TypeOK
  <2> SUFFICES ASSUME NEW era \in owed, era # restores
               PROVE  DataKept!(era)'
    BY <1>2, <2>1 DEF DataKept
  <2> QED  BY <1>2 DEF DataInv, DataKept
<1> QED  BY <1>3, <1>4, <1>5, <1>6, <1>7, <1>8 DEF DataInv

\* Whatever step failed, the old data is where that step found or put it.
LEMMA RestoreFailData ==
  ASSUME TypeInv, TypeInv', DataInv, SafeFailures, RestoreFail
  PROVE  DataInv'
<1>1. /\ LiveKept /\ Quiet /\ job.at # "idle" /\ job.id \in Backups /\ job \in Job
      /\ job.replaced \in BOOLEAN
  BY JobRuns DEF RestoreFail, At
<1>a. job'.at = "move_back" /\ job'.id = job.id /\ job'.replaced = job.replaced
  BY <1>1, GoesOn DEF RestoreFail
<1>2. /\ job'.at = "move_back" /\ job'.id = job.id /\ job'.replaced = job.replaced
      /\ job.at \in Restoring
      /\ UNCHANGED <<database, artifacts, staging, recovery, displaced, restores, owed>>
  BY <1>1, <1>a, NoneAssumption
  DEF RestoreFail, SafeFailures, RaisedAt, At, Proceed, TypeInv, TypeOK, JobFits, Dumped, Restoring,
     Option, RecoverySet
<1>3. LiveData'
  BY <1>1, <1>2, JobLive DEF DataInv, JobData, Restoring
<1>4. KeptData'
  <2>1. \A b \in Backups : HasPair(b)' =>
          \/ HasPair(b) /\ recovery'[b] = recovery[b]
          \/ Covered(recovery'[b].dump.rows, recovery'[b].previous.files)
    BY <1>1, <1>2 DEF DataInv, JobData, HasPair, TypeInv, JobFits, Restoring, Dumped
  <2> QED  BY <1>1, <2>1, JobKept
<1>5. JobData'
  BY <1>1, <1>2 DEF DataInv, JobData, KeptData, BackupsComplete, Covered, HasPair, TypeInv,
     JobFits, Restoring, Dumped, LiveKept
<1>6. Damage'
  <2>1. artifacts' # None => DamageKnown(artifacts')
    BY <1>1, <1>2 DEF DataInv, Damage, DamageKnown, KeptData, Inventory, JobData, TypeInv,
       JobFits, Restoring, Dumped, LiveKept
  <2>2. \A b \in Backups :
          /\ recovery'[b] # None /\ recovery'[b].previous # None => DamageKnown(recovery'[b].previous)
          /\ displaced'[b] # None => DamageKnown(displaced'[b])
    BY <1>1, <1>2 DEF DataInv, Damage, DamageKnown, TypeInv, JobFits, LiveKept
  <2> QED  BY <1>1, <2>1, <2>2, JobDamage
<1>7. ErasKnown'
  BY <1>1, <1>2 DEF DataInv, ErasKnown, TypeInv, JobFits, Restoring
<1>8. DataKept'
  BY <1>1, <1>2 DEF DataInv, DataKept, ErasKnown, JobData, TypeInv, JobFits, Restoring, Dumped
<1> QED  BY <1>3, <1>4, <1>5, <1>6, <1>7, <1>8 DEF DataInv

\* The rows return to the tree that covers them; the era of the backup was never owed.
LEMMA DatabaseBackData ==
  ASSUME TypeInv, TypeInv', DataInv, DatabaseBack
  PROVE  DataInv'
<1>1. /\ LiveKept /\ Quiet /\ job.at # "idle" /\ job.id \in Backups /\ job \in Job
      /\ job.replaced \in BOOLEAN
  BY JobRuns DEF DatabaseBack, At
<1>2. /\ job.at = "database_back" /\ job'.id = job.id /\ job'.replaced = job.replaced
      /\ \/ job'.at = "discard" /\ database' = recovery[job.id].dump
         \/ job'.at = "stuck" /\ UNCHANGED database
      /\ UNCHANGED <<artifacts, staging, recovery, displaced, restores, owed>>
  BY <1>1, GoesOn, NoneAssumption
  DEF DatabaseBack, At, Proceed, TypeInv, TypeOK, JobFits, Dumped, Restoring, Option,
     RecoverySet, AfterFailedReturn
<1>3. LiveData'
  BY <1>1, <1>2, JobLive DEF DataInv, JobData, Restoring
<1>4. KeptData'
  <2>1. \A b \in Backups : HasPair(b)' =>
          \/ HasPair(b) /\ recovery'[b] = recovery[b]
          \/ Covered(recovery'[b].dump.rows, recovery'[b].previous.files)
    BY <1>1, <1>2 DEF DataInv, JobData, HasPair, TypeInv, JobFits, Restoring, Dumped
  <2> QED  BY <1>1, <2>1, JobKept
<1>5. JobData'
  BY <1>1, <1>2 DEF DataInv, JobData, KeptData, BackupsComplete, Covered, HasPair, TypeInv,
     JobFits, Restoring, Dumped, LiveKept
<1>6. Damage'
  <2>1. artifacts' # None => DamageKnown(artifacts')
    BY <1>1, <1>2 DEF DataInv, Damage, DamageKnown, KeptData, Inventory, JobData, TypeInv,
       JobFits, Restoring, Dumped, LiveKept
  <2>2. \A b \in Backups :
          /\ recovery'[b] # None /\ recovery'[b].previous # None => DamageKnown(recovery'[b].previous)
          /\ displaced'[b] # None => DamageKnown(displaced'[b])
    BY <1>1, <1>2 DEF DataInv, Damage, DamageKnown, TypeInv, JobFits, LiveKept
  <2> QED  BY <1>1, <2>1, <2>2, JobDamage
<1>7. ErasKnown'
  BY <1>1, <1>2 DEF DataInv, ErasKnown, JobData, TypeInv, TypeOK, JobFits, Dumped
<1>8. DataKept'
  BY <1>1, <1>2 DEF DataInv, DataKept, ErasKnown, JobData, TypeInv, JobFits, Restoring, Dumped
<1> QED  BY <1>3, <1>4, <1>5, <1>6, <1>7, <1>8 DEF DataInv

\* What the recovery set still holds is live.
LEMMA DiscardData ==
  ASSUME TypeInv, TypeInv', DataInv, Discard
  PROVE  DataInv'
<1>1. /\ LiveKept /\ Quiet /\ job.at # "idle" /\ job.id \in Backups /\ job \in Job
      /\ job.replaced \in BOOLEAN
  BY JobRuns DEF Discard, At
<1>2. /\ \A b \in Backups : b # job.id => recovery'[b] = recovery[b]
      /\ recovery'[job.id] = None
      /\ job.at = "discard" /\ job' = Idle /\ job'.at = "idle"
      /\ UNCHANGED <<database, artifacts, staging, displaced, restores, owed>>
  BY <1>1, NoneAssumption
  DEF Discard, At, Proceed, TypeInv, TypeOK, JobFits, Dumped, Restoring, Option, RecoverySet, Idle
<1>3. LiveData'
  BY <1>1, <1>2, JobLive DEF DataInv, JobData, Restoring
<1>4. KeptData'
  <2>1. \A b \in Backups : HasPair(b)' =>
          \/ HasPair(b) /\ recovery'[b] = recovery[b]
          \/ Covered(recovery'[b].dump.rows, recovery'[b].previous.files)
    BY <1>1, <1>2 DEF DataInv, JobData, HasPair, TypeInv, JobFits, Restoring, Dumped
  <2> QED  BY <1>1, <2>1, JobKept
<1>5. JobData'
  BY <1>1, <1>2 DEF DataInv, JobData, KeptData, BackupsComplete, Covered, HasPair, TypeInv,
     JobFits, Restoring, Dumped, LiveKept
<1>6. Damage'
  <2>1. artifacts' # None => DamageKnown(artifacts')
    BY <1>1, <1>2 DEF DataInv, Damage, DamageKnown, KeptData, Inventory, JobData, TypeInv,
       JobFits, Restoring, Dumped, LiveKept
  <2>2. \A b \in Backups :
          /\ recovery'[b] # None /\ recovery'[b].previous # None => DamageKnown(recovery'[b].previous)
          /\ displaced'[b] # None => DamageKnown(displaced'[b])
    BY <1>1, <1>2 DEF DataInv, Damage, DamageKnown, TypeInv, JobFits, LiveKept
  <2> QED  BY <1>1, <2>1, <2>2, JobDamage
<1>7. ErasKnown'
  BY <1>1, <1>2 DEF DataInv, ErasKnown, JobData, TypeInv, TypeOK, JobFits, Dumped
<1>8. DataKept'
  BY <1>1, <1>2 DEF DataInv, DataKept, ErasKnown, JobData, TypeInv, JobFits, Restoring, Dumped
<1> QED  BY <1>3, <1>4, <1>5, <1>6, <1>7, <1>8 DEF DataInv

\* A killed job leaves everything where it is.
LEMMA KillData ==
  ASSUME TypeInv, TypeInv', DataInv, Kill
  PROVE  DataInv'
<1>1. /\ LiveKept /\ Quiet /\ job.at # "idle" /\ job.id \in Backups /\ job \in Job
      /\ job.replaced \in BOOLEAN
  BY JobRuns DEF Kill, At
<1>2. /\ job'.at = "stuck" /\ job'.id = job.id /\ job'.replaced = job.replaced
      /\ UNCHANGED <<database, artifacts, staging, recovery, displaced, restores, owed>>
  BY <1>1, GoesOn, NoneAssumption
  DEF Kill, At, Proceed, TypeInv, TypeOK, JobFits, Dumped, Restoring, Option, RecoverySet
<1>3. LiveData'
  BY <1>1, <1>2, JobLive DEF DataInv, JobData, Restoring
<1>4. KeptData'
  <2>1. \A b \in Backups : HasPair(b)' =>
          \/ HasPair(b) /\ recovery'[b] = recovery[b]
          \/ Covered(recovery'[b].dump.rows, recovery'[b].previous.files)
    BY <1>1, <1>2 DEF DataInv, JobData, HasPair, TypeInv, JobFits, Restoring, Dumped
  <2> QED  BY <1>1, <2>1, JobKept
<1>5. JobData'
  BY <1>1, <1>2 DEF DataInv, JobData, KeptData, BackupsComplete, Covered, HasPair, TypeInv,
     JobFits, Restoring, Dumped, LiveKept
<1>6. Damage'
  <2>1. artifacts' # None => DamageKnown(artifacts')
    BY <1>1, <1>2 DEF DataInv, Damage, DamageKnown, KeptData, Inventory, JobData, TypeInv,
       JobFits, Restoring, Dumped, LiveKept
  <2>2. \A b \in Backups :
          /\ recovery'[b] # None /\ recovery'[b].previous # None => DamageKnown(recovery'[b].previous)
          /\ displaced'[b] # None => DamageKnown(displaced'[b])
    BY <1>1, <1>2 DEF DataInv, Damage, DamageKnown, TypeInv, JobFits, LiveKept
  <2> QED  BY <1>1, <2>1, <2>2, JobDamage
<1>7. ErasKnown'
  BY <1>1, <1>2 DEF DataInv, ErasKnown, JobData, TypeInv, TypeOK, JobFits, Dumped
<1>8. DataKept'
  BY <1>1, <1>2 DEF DataInv, DataKept, ErasKnown, JobData, TypeInv, JobFits, Restoring, Dumped
<1> QED  BY <1>3, <1>4, <1>5, <1>6, <1>7, <1>8 DEF DataInv

\* The returning tree covers the rows that will return.
LEMMA ReturnArtifactsData ==
  ASSUME TypeInv, TypeInv', DataInv, ReturnArtifacts
  PROVE  DataInv'
<1>1. /\ LiveKept /\ Quiet /\ job.at # "idle" /\ job.id \in Backups /\ job \in Job
      /\ job.replaced \in BOOLEAN
  BY JobRuns DEF ReturnArtifacts, At
<1>a. job.at = "return" /\ job'.at = "return_database" /\ job'.id = job.id /\ job'.replaced = job.replaced
  BY <1>1, GoesOn DEF ReturnArtifacts, At
<1>2. /\ job.at = "return" /\ job'.at = "return_database" /\ job'.id = job.id /\ job'.replaced = job.replaced
      /\ \A b \in Backups : b # job.id => recovery'[b] = recovery[b]
      /\ recovery[job.id] # None /\ recovery'[job.id] # None
      /\ recovery'[job.id].dump = recovery[job.id].dump
      /\ recovery'[job.id].previous = None
      /\ artifacts = None /\ artifacts' = recovery[job.id].previous /\ artifacts' # None
      /\ UNCHANGED <<database, staging, displaced, restores, owed>>
  BY <1>1, <1>a, NoneAssumption
  DEF ReturnArtifacts, At, Proceed, TypeInv, TypeOK, JobFits, Dumped, Restoring, Option, RecoverySet
<1>3. LiveData'
  BY <1>1, <1>2, JobLive DEF DataInv, JobData, Restoring
<1>4. KeptData'
  <2>1. \A b \in Backups : HasPair(b)' =>
          \/ HasPair(b) /\ recovery'[b] = recovery[b]
          \/ Covered(recovery'[b].dump.rows, recovery'[b].previous.files)
    BY <1>1, <1>2 DEF DataInv, JobData, HasPair, TypeInv, JobFits, Restoring, Dumped
  <2> QED  BY <1>1, <2>1, JobKept
<1>5. JobData'
  BY <1>1, <1>2 DEF DataInv, JobData, KeptData, BackupsComplete, Covered, HasPair, TypeInv,
     JobFits, Restoring, Dumped, LiveKept
<1>6. Damage'
  <2>1. artifacts' # None => DamageKnown(artifacts')
    BY <1>1, <1>2 DEF DataInv, Damage, DamageKnown, KeptData, Inventory, JobData, TypeInv,
       JobFits, Restoring, Dumped, LiveKept
  <2>2. \A b \in Backups :
          /\ recovery'[b] # None /\ recovery'[b].previous # None => DamageKnown(recovery'[b].previous)
          /\ displaced'[b] # None => DamageKnown(displaced'[b])
    BY <1>1, <1>2 DEF DataInv, Damage, DamageKnown, TypeInv, JobFits, LiveKept
  <2> QED  BY <1>1, <2>1, <2>2, JobDamage
<1>7. ErasKnown'
  BY <1>1, <1>2 DEF DataInv, ErasKnown, JobData, TypeInv, TypeOK, JobFits, Dumped
<1>8. DataKept'
  BY <1>1, <1>2 DEF DataInv, DataKept, ErasKnown, JobData, TypeInv, JobFits, Restoring, Dumped
<1> QED  BY <1>3, <1>4, <1>5, <1>6, <1>7, <1>8 DEF DataInv

\* The era that is given up is that of the rows that go.
LEMMA ReturnDatabaseData ==
  ASSUME TypeInv, TypeInv', DataInv, ReturnDatabase
  PROVE  DataInv'
<1>1. /\ LiveKept /\ Quiet /\ job.at # "idle" /\ job.id \in Backups /\ job \in Job
      /\ job.replaced \in BOOLEAN
  BY JobRuns DEF ReturnDatabase, At
<1>2. /\ job.at = "return_database" /\ job' = Idle /\ job'.at = "idle"
      /\ owed' = owed \ {database.era}
      /\ recovery[job.id] # None /\ recovery[job.id].dump # None
      /\ database' = recovery[job.id].dump
      /\ UNCHANGED <<artifacts, staging, recovery, displaced, restores>>
  BY <1>1, NoneAssumption
  DEF ReturnDatabase, At, Proceed, TypeInv, TypeOK, JobFits, Dumped, Restoring, Option,
     RecoverySet, Idle
<1>3. LiveData'
  BY <1>1, <1>2, JobLive DEF DataInv, JobData, Restoring
<1>4. KeptData'
  <2>1. \A b \in Backups : HasPair(b)' =>
          \/ HasPair(b) /\ recovery'[b] = recovery[b]
          \/ Covered(recovery'[b].dump.rows, recovery'[b].previous.files)
    BY <1>1, <1>2 DEF DataInv, JobData, HasPair, TypeInv, JobFits, Restoring, Dumped
  <2> QED  BY <1>1, <2>1, JobKept
<1>5. JobData'
  BY <1>1, <1>2 DEF DataInv, JobData, KeptData, BackupsComplete, Covered, HasPair, TypeInv,
     JobFits, Restoring, Dumped, LiveKept
<1>6. Damage'
  <2>1. artifacts' # None => DamageKnown(artifacts')
    BY <1>1, <1>2 DEF DataInv, Damage, DamageKnown, KeptData, Inventory, JobData, TypeInv,
       JobFits, Restoring, Dumped, LiveKept
  <2>2. \A b \in Backups :
          /\ recovery'[b] # None /\ recovery'[b].previous # None => DamageKnown(recovery'[b].previous)
          /\ displaced'[b] # None => DamageKnown(displaced'[b])
    BY <1>1, <1>2 DEF DataInv, Damage, DamageKnown, TypeInv, JobFits, LiveKept
  <2> QED  BY <1>1, <2>1, <2>2, JobDamage
<1>7. ErasKnown'
  BY <1>1, <1>2 DEF DataInv, ErasKnown, JobData, TypeInv, TypeOK, JobFits, Dumped
<1>8. DataKept'
  BY <1>1, <1>2 DEF DataInv, DataKept, ErasKnown, JobData, TypeInv, JobFits, Restoring, Dumped
<1> QED  BY <1>3, <1>4, <1>5, <1>6, <1>7, <1>8 DEF DataInv

\* The old tree returns unless it never left; it covers the rows that return with it.
LEMMA MoveBackData ==
  ASSUME TypeInv, TypeInv', DataInv, MoveBack
  PROVE  DataInv'
<1>1. /\ LiveKept /\ Quiet /\ job.at # "idle" /\ job.id \in Backups /\ job \in Job
      /\ job.replaced \in BOOLEAN
  BY JobRuns DEF MoveBack, At
<1>2. /\ job.at = "move_back" /\ job'.id = job.id /\ job'.replaced = job.replaced
      /\ job'.at = IF job.replaced THEN "database_back" ELSE "discard"
      /\ \A b \in Backups : b # job.id => recovery'[b] = recovery[b]
      /\ recovery[job.id] # None /\ recovery'[job.id] # None
      /\ recovery'[job.id].dump = recovery[job.id].dump /\ recovery'[job.id].previous = None
      /\ \/ artifacts # None /\ artifacts' = artifacts /\ recovery[job.id].previous = None
         \/ artifacts = None /\ artifacts' = recovery[job.id].previous /\ artifacts' # None
      /\ UNCHANGED <<database, displaced, restores, owed>>
  BY <1>1, GoesOn, NoneAssumption
  DEF MoveBack, DataInv, JobData, At, Proceed, TypeInv, TypeOK, JobFits, Dumped, Restoring,
     Option, RecoverySet
<1>3. LiveData'
  BY <1>1, <1>2, JobLive DEF DataInv, JobData, Restoring
<1>4. KeptData'
  <2>1. \A b \in Backups : HasPair(b)' =>
          \/ HasPair(b) /\ recovery'[b] = recovery[b]
          \/ Covered(recovery'[b].dump.rows, recovery'[b].previous.files)
    BY <1>1, <1>2 DEF DataInv, JobData, HasPair, TypeInv, JobFits, Restoring, Dumped
  <2> QED  BY <1>1, <2>1, JobKept
<1>5. JobData'
  BY <1>1, <1>2 DEF DataInv, JobData, KeptData, BackupsComplete, Covered, HasPair, TypeInv,
     JobFits, Restoring, Dumped, LiveKept
<1>6. Damage'
  <2>1. artifacts' # None => DamageKnown(artifacts')
    BY <1>1, <1>2 DEF DataInv, Damage, DamageKnown, KeptData, Inventory, JobData, TypeInv,
       JobFits, Restoring, Dumped, LiveKept
  <2>2. \A b \in Backups :
          /\ recovery'[b] # None /\ recovery'[b].previous # None => DamageKnown(recovery'[b].previous)
          /\ displaced'[b] # None => DamageKnown(displaced'[b])
    BY <1>1, <1>2 DEF DataInv, Damage, DamageKnown, TypeInv, JobFits, LiveKept
  <2> QED  BY <1>1, <2>1, <2>2, JobDamage
<1>7. ErasKnown'
  BY <1>1, <1>2 DEF DataInv, ErasKnown, JobData, TypeInv, TypeOK, JobFits, Dumped
<1>8. DataKept'
  BY <1>1, <1>2 DEF DataInv, DataKept, ErasKnown, JobData, TypeInv, JobFits, Restoring, Dumped
<1> QED  BY <1>3, <1>4, <1>5, <1>6, <1>7, <1>8 DEF DataInv

\* Both trees return where they were; the rows never left.
LEMMA RollbackFailData ==
  ASSUME TypeInv, TypeInv', DataInv, SafeFailures, RollbackFail
  PROVE  DataInv'
<1>1. /\ LiveKept /\ Quiet /\ job.at # "idle" /\ job.id \in Backups /\ job \in Job
      /\ job.replaced \in BOOLEAN
  BY JobRuns DEF RollbackFail, At
<1>2. /\ job.at \in {"return", "return_database"} /\ job' = Idle /\ job'.at = "idle"
      /\ \A b \in Backups : b # job.id => recovery'[b] = recovery[b] /\ displaced'[b] = displaced[b]
      /\ recovery[job.id] # None /\ recovery'[job.id] # None
      /\ recovery'[job.id].dump = recovery[job.id].dump
      /\ recovery'[job.id].previous = IF job.at = "return" THEN recovery[job.id].previous ELSE artifacts
      /\ recovery'[job.id].previous # None
      /\ displaced[job.id] # None /\ artifacts' = displaced[job.id] /\ displaced'[job.id] = None
      /\ job.at = "return" => artifacts = None
      /\ UNCHANGED <<database, staging, restores, owed>>
  BY <1>1, NoneAssumption
  DEF RollbackFail, SafeFailures, RaisedAt, DataInv, JobData, At, Proceed, TypeInv, TypeOK, JobFits, Dumped,
     Restoring, Option, RecoverySet, Idle, PutBack
<1>3. LiveData'
  BY <1>1, <1>2, JobLive DEF DataInv, JobData, Restoring
<1>4. KeptData'
  <2>1. \A b \in Backups : HasPair(b)' =>
          \/ HasPair(b) /\ recovery'[b] = recovery[b]
          \/ Covered(recovery'[b].dump.rows, recovery'[b].previous.files)
    BY <1>1, <1>2 DEF DataInv, JobData, KeptData, HasPair, TypeInv, JobFits, Dumped
  <2> QED  BY <1>1, <2>1, JobKept
<1>5. JobData'
  BY <1>1, <1>2 DEF DataInv, JobData, KeptData, BackupsComplete, Covered, HasPair, TypeInv,
     JobFits, Restoring, Dumped, LiveKept
<1>6. Damage'
  <2>1. artifacts' # None => DamageKnown(artifacts')
    BY <1>1, <1>2 DEF DataInv, Damage, DamageKnown, KeptData, Inventory, JobData, TypeInv,
       JobFits, Restoring, Dumped, LiveKept
  <2>2. \A b \in Backups :
          /\ recovery'[b] # None /\ recovery'[b].previous # None => DamageKnown(recovery'[b].previous)
          /\ displaced'[b] # None => DamageKnown(displaced'[b])
    BY <1>1, <1>2 DEF DataInv, Damage, DamageKnown, TypeInv, JobFits, LiveKept
  <2> QED  BY <1>1, <2>1, <2>2, JobDamage
<1>7. ErasKnown'
  BY <1>1, <1>2 DEF DataInv, ErasKnown, JobData, TypeInv, TypeOK, JobFits, Dumped
<1>8. DataKept'
  BY <1>1, <1>2 DEF DataInv, DataKept, ErasKnown, JobData, TypeInv, JobFits, Restoring, Dumped
<1> QED  BY <1>3, <1>4, <1>5, <1>6, <1>7, <1>8 DEF DataInv

\* A restore begins an era of its own, with nothing in its recovery set.
LEMMA StartRestoreData ==
  ASSUME TypeInv, TypeInv', DataInv, NEW b \in Backups, StartRestore(b)
  PROVE  DataInv'
<1>1. /\ Quiet /\ LiveKept /\ job.at = "idle" /\ restores \in Nat /\ restores' = restores + 1
      /\ backups[b] # None /\ staging'[b] = backups[b].files /\ recovery[b] = None
      /\ UNCHANGED <<database, artifacts, displaced, owed>>
  BY DEF StartRestore, At, TypeInv, TypeOK
<1>2. CASE /\ recovery' = [recovery EXCEPT ![b] = [dump |-> None, previous |-> None, named |-> FALSE]]
           /\ job' = [at |-> "dump", id |-> b, replaced |-> FALSE]
  <2>1. /\ \A c \in Backups : c # b => recovery'[c] = recovery[c]
        /\ recovery'[b].dump = None /\ recovery'[b].previous = None
        /\ job'.at = "dump" /\ job'.id = b /\ job'.replaced = FALSE
    BY <1>2 DEF TypeInv, TypeOK
  <2>2. LiveData'
    BY <1>1, <2>1, JobLive
  <2>3. KeptData'
    <3>1. \A c \in Backups : HasPair(c)' => HasPair(c) /\ recovery'[c] = recovery[c]
      BY <2>1 DEF HasPair
    <3> QED  BY <1>1, <3>1, JobKept
  <2>4. JobData'
    BY <1>1, <2>1 DEF DataInv, LiveData, JobData, Covered, Restoring, LiveKept
  <2>5. Damage'
    <3>1. artifacts' # None => DamageKnown(artifacts')
      BY <1>1 DEF DataInv, Damage, DamageKnown, LiveKept
    <3>2. \A c \in Backups :
            /\ recovery'[c] # None /\ recovery'[c].previous # None => DamageKnown(recovery'[c].previous)
            /\ displaced'[c] # None => DamageKnown(displaced'[c])
      BY <1>1, <2>1 DEF DataInv, Damage, DamageKnown, LiveKept
    <3> QED  BY <1>1, <3>1, <3>2, JobDamage
  <2>6. ErasKnown'
    BY <1>1, <2>1 DEF DataInv, ErasKnown, TypeInv, TypeOK, Eras
  <2>7. DataKept'
    BY <1>1, <2>1 DEF DataInv, DataKept
  <2> QED  BY <2>2, <2>3, <2>4, <2>5, <2>6, <2>7 DEF DataInv
<1>3. CASE UNCHANGED <<recovery, job>>
  <2>1. LiveData'
    BY <1>1, <1>3, JobLive DEF DataInv, LiveData
  <2>2. KeptData'
    BY <1>1, <1>3, JobKept DEF HasPair
  <2>3. JobData'
    BY <1>1, <1>3 DEF JobData, Restoring
  <2>4. Damage'
    <3>1. artifacts' # None => DamageKnown(artifacts')
      BY <1>1 DEF DataInv, Damage, DamageKnown, LiveKept
    <3>2. \A c \in Backups :
            /\ recovery'[c] # None /\ recovery'[c].previous # None => DamageKnown(recovery'[c].previous)
            /\ displaced'[c] # None => DamageKnown(displaced'[c])
      BY <1>1, <1>3 DEF DataInv, Damage, DamageKnown, LiveKept
    <3> QED  BY <1>1, <3>1, <3>2, JobDamage
  <2>5. ErasKnown'
    BY <1>1, <1>3 DEF DataInv, ErasKnown, TypeInv, TypeOK, Eras
  <2>6. DataKept'
    BY <1>1, <1>3 DEF DataInv, DataKept
  <2> QED  BY <2>1, <2>2, <2>3, <2>4, <2>5, <2>6 DEF DataInv
<1> QED  BY <1>2, <1>3 DEF StartRestore

\* The displaced tree covers the rows that are live, and the recovery set's tree those that
\* it dumped.
LEMMA StartRollbackData ==
  ASSUME TypeInv, TypeInv', DataInv, NEW b \in Backups, StartRollback(b)
  PROVE  DataInv'
<1>1. /\ Quiet /\ LiveKept /\ job.at = "idle" /\ artifacts # None /\ artifacts' = None
      /\ recovery[b] # None /\ recovery[b].dump # None /\ recovery[b].previous # None
      /\ UNCHANGED <<database, staging, recovery, restores, owed>>
      /\ displaced[b] = None /\ displaced'[b] = artifacts
      /\ \A c \in Backups : c # b => displaced'[c] = displaced[c]
      /\ job'.at = "return" /\ job'.id = b /\ job'.replaced = FALSE
  BY DEF StartRollback, At, TypeInv, TypeOK
<1>2. LiveData'
  BY <1>1, JobLive
<1>3. KeptData'
  BY <1>1, JobKept DEF HasPair
<1>4. JobData'
  BY <1>1 DEF DataInv, LiveData, JobData, Covered, Restoring
<1>5. Damage'
  <2>1. \A c \in Backups :
          /\ recovery'[c] # None /\ recovery'[c].previous # None => DamageKnown(recovery'[c].previous)
          /\ displaced'[c] # None => DamageKnown(displaced'[c])
    BY <1>1 DEF DataInv, Damage, DamageKnown, LiveKept
  <2> QED  BY <1>1, <2>1, JobDamage
<1>6. ErasKnown'
  BY <1>1 DEF DataInv, ErasKnown
<1>7. DataKept'
  BY <1>1 DEF DataInv, DataKept
<1> QED  BY <1>2, <1>3, <1>4, <1>5, <1>6, <1>7 DEF DataInv

-----------------------------------------------------------------------------
(* Data: the theorems *)

LEMMA InitData == Init => DataInv
<1> SUFFICES ASSUME Init PROVE DataInv
  OBVIOUS
<1>1. /\ job.at = "idle" /\ database.rows = {} /\ database.era = 0
      /\ artifacts.files = Empty /\ artifacts.era = 0 /\ artifacts # None
  BY InitTyped DEF Init, Idle, TypeInv, TypeOK
<1>2. \A h \in Handlers : ~Is(h, "stored")
  BY DEF Init, Is, Idle
<1>3. LiveData
  BY <1>1, <1>2 DEF Init, LiveData, Covered
<1>4. KeptData
  BY DEF Init, KeptData, BackupsComplete, HasPair
<1>5. JobData
  BY <1>1 DEF JobData, Restoring
<1>6. Damage
  BY <1>1 DEF Init, Damage, NoFalseAlarm, DamageKnown, Empty
<1>7. ErasKnown
  BY <1>1 DEF Init, ErasKnown
<1>8. DataKept
  BY <1>1 DEF Init, DataKept
<1> QED  BY <1>3, <1>4, <1>5, <1>6, <1>7, <1>8 DEF DataInv

LEMMA NextData ==
  ASSUME SafeFailures, TypeInv, TypeInv', DataInv, [Next]_vars
  PROVE  DataInv'
<1>1. CASE Api
  BY <1>1, ServeData, VerifyData, StartStopData
  DEF Api, DownloadSample, DownloadInput, DownloadArtifact
<1>2. CASE Restore
  BY <1>2, StartRestoreData, DumpLiveData, ReplaceDatabaseData, MoveArtifactsData,
     InstallArtifactsData, WriteRestoreIdData, RestoreFailData, MoveBackData,
     DatabaseBackData, DiscardData, KillData
  DEF Restore
<1>3. CASE Rollback
  BY <1>3, StartRollbackData, ReturnArtifactsData, ReturnDatabaseData, RollbackFailData
  DEF Rollback
<1>4. CASE UNCHANGED vars
  BY <1>4 DEF vars, DataInv, LiveData, KeptData, BackupsComplete, HasPair, JobData, Covered,
     Damage, NoFalseAlarm, DamageKnown, ErasKnown, DataKept, Is, Stored
<1> QED  BY <1>1, <1>2, <1>3, <1>4, BackupData, CorruptData DEF Next

LEMMA DataHolds ==
  ASSUME SafeFailures
  PROVE  Spec => [](TypeInv /\ DataInv)
<1>1. Init => TypeInv /\ DataInv
  BY InitTyped, InitData
<1>2. TypeInv /\ DataInv /\ [Next]_vars => (TypeInv /\ DataInv)'
  BY NextTyped, NextData
<1> QED  BY <1>1, <1>2, PTL DEF Spec

\* As long as the restore id can be written and no pg_restore raises after its commit, every
\* committed row has its object whenever no job is under way, and every published backup holds
\* an undamaged object for each of its rows: for any number of requests, backups, other
\* failures and kills.
THEOREM EvidenceIsComplete ==
  ASSUME SafeFailures
  PROVE  Spec => []RowsHaveObjects
<1>1. DataInv => RowsHaveObjects
  BY DEF DataInv, LiveData, KeptData, Covered, RowsHaveObjects, LiveRowsHaveObjects, Stored
<1> QED  BY <1>1, DataHolds, PTL

\* As long as the restore id can be written and no pg_restore raises after its commit, no alarm
\* is raised for what the system itself was writing, copying or moving.
THEOREM AlarmsAreTrue ==
  ASSUME SafeFailures
  PROVE  Spec => []NoFalseAlarm
<1>1. DataInv => NoFalseAlarm
  BY DEF DataInv, Damage
<1> QED  BY <1>1, DataHolds, PTL

\* As long as the restore id can be written and no pg_restore raises after its commit, the rows
\* and artifacts of every era that is owed exist, whatever other step of a restore or rollback
\* fails, and whichever is killed.
THEOREM OwedDataIsKept ==
  ASSUME SafeFailures
  PROVE  Spec => []DataKept
<1>1. DataInv => DataKept
  BY DEF DataInv
<1> QED  BY <1>1, DataHolds, PTL

=============================================================================
