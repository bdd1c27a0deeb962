----------------------------- MODULE EvidenceStore -----------------------------
(***************************************************************************)
(* The evidence: rows of the database that name content-addressed objects  *)
(* in the artifact tree.  Requests of the API store an object and commit a *)
(* row in several steps, a backup runs beside them, and an operator        *)
(* restores a backup or rolls a restore back while the API is stopped.     *)
(* The API, a step of a restore and the disk may fail at any moment.       *)
(* Content is abstracted to its digest: an object is good when its bytes   *)
(* have the digest that names it.                                          *)
(***************************************************************************)
EXTENDS Naturals, FiniteSets

CONSTANTS
  Digests,     \* SHA-256 digests of samples, artifacts and exports
  Handlers,    \* requests that the API serves at once
  Backups,     \* backup ids
  MaxRestores, \* bound: restores that are started
  Corruptible, \* bound: digests whose object the disk may damage
  MayFail,     \* the steps of a restore or a rollback that may raise; "committed" has
               \* pg_restore raise although it committed
  None

ASSUME MaxRestoresAssumption == MaxRestores \in Nat
ASSUME CorruptibleAssumption == Corruptible \subseteq Digests

VARIABLES
  database,  \* committed Sample and Artifact rows, and the era of the data
  artifacts, \* the artifact tree and the era of its data; None while it is moved away
  up,        \* whether the API runs
  request,   \* what each handler of the API is doing
  making,    \* the backup being made
  backups,   \* the published backups
  staging,   \* .artifacts.restore-<id>
  recovery,  \* .artifacts.rollback-<id>: database.dump, artifacts, restore-id
  displaced, \* .artifacts.after-<id>
  job,       \* the restore or rollback under way
  restores,  \* number of restores started; each begins an era of its own
  corrupted, \* history: digests whose object the disk damaged
  alarms,    \* audit events *.integrity_failed
  owed       \* history: the eras of data that an operator may still ask for

vars == <<database, artifacts, up, request, making, backups, staging, recovery,
          displaced, job, restores, corrupted, alarms, owed>>

Content == {"none", "good", "bad"}
Files == [Digests -> Content]
Rows == {"sample", "artifact"} \X Digests
Eras == 0 .. MaxRestores
Database == [rows : SUBSET Rows, era : Eras]
Tree == [files : Files, era : Eras]
Option(S) == S \cup {None}
Published == [rows : SUBSET Rows, files : Files]
Draft == [id : Backups, rows : SUBSET Rows, files : Files, todo : SUBSET Digests]
RecoverySet == [dump : Option(Database), previous : Option(Tree), named : BOOLEAN]

ASSUME NoneAssumption ==
  None \notin Database \cup Tree \cup Files \cup Published \cup Draft \cup RecoverySet

Idle == [at |-> "idle"]
Empty == [d \in Digests |-> "none"]

Init ==
  /\ database = [rows |-> {}, era |-> 0]
  /\ artifacts = [files |-> Empty, era |-> 0]
  /\ up = TRUE
  /\ request = [h \in Handlers |-> Idle]
  /\ making = None
  /\ backups = [b \in Backups |-> None]
  /\ staging = [b \in Backups |-> None]
  /\ recovery = [b \in Backups |-> None]
  /\ displaced = [b \in Backups |-> None]
  /\ job = Idle
  /\ restores = 0
  /\ corrupted = {}
  /\ alarms = {}
  /\ owed = {0}

Is(h, at) == request[h].at = at
RowKind(h) == IF request[h].kind = "sample" THEN "sample" ELSE "artifact"
Row(h) == <<RowKind(h), request[h].sha>>
Stored(d) == artifacts.files[d]

Goes(h, at) == request' = [request EXCEPT ![h].at = at]
Ends(h) == request' = [request EXCEPT ![h] = Idle]
Store(d, content) == artifacts' = [artifacts EXCEPT !.files[d] = content]

OperatorIdle == UNCHANGED <<staging, recovery, displaced, job, restores, owed>>
StoreIdle == UNCHANGED <<up, making, backups, corrupted, alarms>>

-----------------------------------------------------------------------------
(* Requests of the API *)

\* The content lies in quarantine.
Receive(h, at, kind, d, new) ==
  /\ up
  /\ Is(h, "idle")
  /\ request' = [request EXCEPT ![h] = [at |-> at, kind |-> kind, sha |-> d, new |-> new]]
  /\ UNCHANGED <<database, artifacts>> /\ StoreIdle /\ OperatorIdle

\* An intake has looked for the row of its sample.
ReceiveSample(h, d) == Receive(h, "read", "sample", d, <<"sample", d>> \notin database.rows)
ReceiveArtifact(h, d) == Receive(h, "received", "artifact", d, FALSE)
RenderExport(h, d) == Receive(h, "received", "export", d, FALSE)

\* The new row of a sample waits for another uncommitted one with its key and
\* fails when that one was committed.
Inserting(d) ==
  {g \in Handlers : /\ request[g].at \in {"received", "stored"}
                    /\ request[g].kind = "sample" /\ request[g].sha = d /\ request[g].new}

InsertSample(h) ==
  /\ Is(h, "read")
  /\ request[h].new => Inserting(request[h].sha) = {}
  /\ IF request[h].new /\ Row(h) \in database.rows THEN Ends(h) ELSE Goes(h, "received")
  /\ UNCHANGED <<database, artifacts>> /\ StoreIdle /\ OperatorIdle

\* promote: an object that is there already must have its digest.
Promote(h) ==
  LET d == request[h].sha
  IN  /\ Is(h, "received")
      /\ request[h].kind # "export"
      /\ IF Stored(d) = "bad" THEN Ends(h) /\ UNCHANGED artifacts
         ELSE Goes(h, "stored") /\ Store(d, "good")
      /\ UNCHANGED database /\ StoreIdle /\ OperatorIdle

\* Mutant: store_file copies straight to the object's place.
CopiedInPlace(d) == "bad"

\* What a copy under way shows under the object's own name.
CopiedAside(d) == "none"

\* store_file: an object that is there is not looked at.
CopyExport(h) ==
  LET d == request[h].sha
  IN  /\ Is(h, "received")
      /\ request[h].kind = "export"
      /\ IF Stored(d) # "none" THEN Goes(h, "stored") /\ UNCHANGED artifacts
         ELSE Goes(h, "copied") /\ Store(d, CopiedAside(d))
      /\ UNCHANGED database /\ StoreIdle /\ OperatorIdle

StoreExport(h) ==
  /\ Is(h, "copied")
  /\ Goes(h, "stored")
  /\ Store(request[h].sha, "good")
  /\ UNCHANGED database /\ StoreIdle /\ OperatorIdle

\* Mutant: an intake commits its rows before it promotes the upload.
CommittableEarly(h) == Is(h, "stored") \/ (Is(h, "received") /\ request[h].kind = "sample")

Committable(h) == Is(h, "stored")

Commit(h) ==
  /\ Committable(h)
  /\ database' = [database EXCEPT !.rows = @ \cup {Row(h)}]
  /\ Ends(h)
  /\ UNCHANGED artifacts /\ StoreIdle /\ OperatorIdle

\* A refusal (a container, a wrong digest), an error or a lost connection.
Abort(h) ==
  /\ ~Is(h, "idle")
  /\ Ends(h)
  /\ UNCHANGED <<database, artifacts>> /\ StoreIdle /\ OperatorIdle

\* A download verifies the object of a row; a failure is audited and refused.
Verify(kind, d) ==
  /\ up
  /\ <<kind, d>> \in database.rows
  /\ Stored(d) # "good"
  /\ alarms' = alarms \cup {d}
  /\ UNCHANGED <<database, artifacts, up, request, making, backups, corrupted>>
  /\ OperatorIdle

DownloadSample(d) == Verify("sample", d)
DownloadInput(d) == Verify("artifact", d)
DownloadArtifact(d) == Verify("artifact", d)

\* The process ends, with or without warning; uncommitted rows are gone.
Stop ==
  /\ up
  /\ up' = FALSE
  /\ request' = [h \in Handlers |-> Idle]
  /\ UNCHANGED <<database, artifacts, making, backups, corrupted, alarms>>
  /\ OperatorIdle

\* lifespan: what is left in quarantine is removed.
Start ==
  /\ ~up
  /\ job.at = "idle"
  /\ up' = TRUE
  /\ UNCHANGED <<database, artifacts, request, making, backups, corrupted, alarms>>
  /\ OperatorIdle

Corrupt(d) ==
  /\ artifacts # None
  /\ Stored(d) = "good"
  /\ Store(d, "bad")
  /\ corrupted' = corrupted \cup {d}
  /\ UNCHANGED <<database, up, request, making, backups, alarms>> /\ OperatorIdle

-----------------------------------------------------------------------------
(* Making a backup, beside the API *)

BackupDump(b) ==
  /\ job.at = "idle"
  /\ making = None
  /\ backups[b] = None
  /\ making' = [id |-> b, rows |-> database.rows, files |-> Empty, todo |-> Digests]
  /\ UNCHANGED <<database, artifacts, up, request, backups, corrupted, alarms>>
  /\ OperatorIdle

BackupCopy(d) ==
  /\ making # None
  /\ d \in making.todo
  /\ making' = [making EXCEPT !.files[d] = Stored(d), !.todo = @ \ {d}]
  /\ UNCHANGED <<database, artifacts, up, request, backups, corrupted, alarms>>
  /\ OperatorIdle

\* _artifact_inventory: every object has the digest of its path.
Inventory(files) == \A d \in Digests : files[d] # "bad"

BackupPublish ==
  /\ making # None
  /\ making.todo = {}
  /\ Inventory(making.files)
  /\ backups' = [backups EXCEPT ![making.id] = [rows |-> making.rows, files |-> making.files]]
  /\ making' = None
  /\ UNCHANGED <<database, artifacts, up, request, corrupted, alarms>> /\ OperatorIdle

\* An error removes the temporary directory.
BackupFail ==
  /\ making # None
  /\ making' = None
  /\ UNCHANGED <<database, artifacts, up, request, backups, corrupted, alarms>>
  /\ OperatorIdle

-----------------------------------------------------------------------------
(* Restoring a backup: the API is stopped and no backup is being made *)

Quiet == ~up /\ making = None
LiveKept == UNCHANGED <<up, request, making, backups, corrupted, alarms>>
At(step) == job.at = step
Proceed(step) == job' = [job EXCEPT !.at = step]

\* The copy and recovery.mkdir stand before the try: their failure leaves the
\* staging directory, and a later restore of this backup is refused.
StartRestore(b) ==
  /\ Quiet /\ At("idle")
  /\ restores < MaxRestores
  /\ backups[b] # None /\ staging[b] = None /\ recovery[b] = None
  /\ restores' = restores + 1
  /\ staging' = [staging EXCEPT ![b] = backups[b].files]
  /\ \/ /\ recovery' = [recovery EXCEPT ![b] = [dump |-> None, previous |-> None, named |-> FALSE]]
        /\ job' = [at |-> "dump", id |-> b, replaced |-> FALSE]
     \/ /\ "copy" \in MayFail
        /\ UNCHANGED <<recovery, job>>
  /\ UNCHANGED <<database, artifacts, displaced, owed>> /\ LiveKept

DumpLive ==
  /\ At("dump")
  /\ recovery' = [recovery EXCEPT ![job.id].dump = database]
  /\ Proceed("replace")
  /\ UNCHANGED <<database, artifacts, staging, displaced, restores, owed>> /\ LiveKept

BackedUp == [rows |-> backups[job.id].rows, era |-> restores]

ReplaceDatabase ==
  /\ At("replace")
  /\ database' = BackedUp
  /\ job' = [job EXCEPT !.at = "move", !.replaced = TRUE]
  /\ UNCHANGED <<artifacts, staging, recovery, displaced, restores, owed>> /\ LiveKept

MoveArtifacts ==
  /\ At("move")
  /\ recovery' = [recovery EXCEPT ![job.id].previous = artifacts]
  /\ artifacts' = None
  /\ Proceed("install")
  /\ UNCHANGED <<database, staging, displaced, restores, owed>> /\ LiveKept

InstallArtifacts ==
  /\ At("install")
  /\ artifacts' = [files |-> staging[job.id], era |-> restores]
  /\ staging' = [staging EXCEPT ![job.id] = None]
  /\ Proceed("restore_id")
  /\ UNCHANGED <<database, recovery, displaced, restores, owed>> /\ LiveKept

WriteRestoreId ==
  /\ At("restore_id")
  /\ recovery' = [recovery EXCEPT ![job.id].named = TRUE]
  /\ job' = Idle
  /\ owed' = owed \cup {restores}
  /\ UNCHANGED <<database, artifacts, staging, displaced, restores>> /\ LiveKept

\* The database when a step has raised: the old one or, when pg_restore was killed at
\* its time-out or lost the connection at its COMMIT, the replacement.
RaisedAt(step, replacement) ==
  {database} \cup {new \in {replacement} : "committed" \in MayFail /\ At(step)}

\* Any of the steps raises; database_replaced is set only after pg_restore returned.
RestoreFail ==
  /\ job.at \in {"dump", "replace", "move", "install", "restore_id"} \cap MayFail
  /\ Proceed("move_back")
  /\ database' \in RaisedAt("replace", BackedUp)
  /\ UNCHANGED <<artifacts, staging, recovery, displaced, restores, owed>>
  /\ LiveKept

\* The except path: staging is removed, the old artifacts return unless others
\* stand in their place.
MoveBack ==
  LET previous == recovery[job.id].previous
  IN  /\ At("move_back")
      /\ staging' = [staging EXCEPT ![job.id] = None]
      /\ IF previous # None /\ artifacts = None
         THEN /\ artifacts' = previous
              /\ recovery' = [recovery EXCEPT ![job.id].previous = None]
         ELSE UNCHANGED <<artifacts, recovery>>
      /\ Proceed(IF job.replaced THEN "database_back" ELSE "discard")
      /\ UNCHANGED <<database, displaced, restores, owed>> /\ LiveKept

\* Mutant: the recovery set is removed also when the database did not return.
AfterFailedReturnDiscard == "discard"

\* The error names the recovery set and keeps it.
AfterFailedReturn == "stuck"

\* A return that commits and raises leaves what a kill before the next step does.
DatabaseBack ==
  /\ At("database_back")
  /\ \/ /\ database' = recovery[job.id].dump
        /\ Proceed("discard")
     \/ /\ "database_back" \in MayFail
        /\ Proceed(AfterFailedReturn)
        /\ UNCHANGED database
  /\ UNCHANGED <<artifacts, staging, recovery, displaced, restores, owed>> /\ LiveKept

Discard ==
  /\ At("discard")
  /\ recovery' = [recovery EXCEPT ![job.id] = None]
  /\ job' = Idle
  /\ UNCHANGED <<database, artifacts, staging, displaced, restores, owed>> /\ LiveKept

\* The process of a restore or rollback is killed; the rest is done by hand.  When
\* its pg_restore commits all the same, it is as if it were killed one step later.
Kill ==
  /\ job.at \notin {"idle", "stuck"}
  /\ Proceed("stuck")
  /\ UNCHANGED <<database, artifacts, staging, recovery, displaced, restores, owed>>
  /\ LiveKept

-----------------------------------------------------------------------------
(* Rolling a restore back *)

StartRollback(b) ==
  /\ Quiet /\ At("idle")
  /\ recovery[b] # None
  /\ recovery[b].named /\ recovery[b].dump # None /\ recovery[b].previous # None
  /\ displaced[b] = None
  /\ displaced' = [displaced EXCEPT ![b] = artifacts]
  /\ artifacts' = None
  /\ job' = [at |-> "return", id |-> b, replaced |-> FALSE]
  /\ UNCHANGED <<database, staging, recovery, restores, owed>> /\ LiveKept

ReturnArtifacts ==
  /\ At("return")
  /\ artifacts' = recovery[job.id].previous
  /\ recovery' = [recovery EXCEPT ![job.id].previous = None]
  /\ Proceed("return_database")
  /\ UNCHANGED <<database, staging, displaced, restores, owed>> /\ LiveKept

\* The rows of the restored data are given up.
ReturnDatabase ==
  /\ At("return_database")
  /\ owed' = owed \ {database.era}
  /\ database' = recovery[job.id].dump
  /\ job' = Idle
  /\ UNCHANGED <<artifacts, staging, recovery, displaced, restores>> /\ LiveKept

\* Mutant: a failed rollback leaves the displaced tree where it put it.
LeftDisplaced == None

\* The tree that takes its place again when a rollback fails.
PutBack == displaced[job.id]

\* A failure puts both trees back where they were, whatever became of the rows.
RollbackFail ==
  /\ job.at \in {"return", "return_database"} \cap MayFail
  /\ artifacts' = PutBack
  /\ displaced' = [displaced EXCEPT ![job.id] = None]
  /\ recovery' = [recovery EXCEPT ![job.id].previous = IF @ = None THEN artifacts ELSE @]
  /\ job' = Idle
  /\ database' \in RaisedAt("return_database", recovery[job.id].dump)
  /\ UNCHANGED <<staging, restores, owed>> /\ LiveKept

-----------------------------------------------------------------------------
Serve(h) ==
  \/ \E d \in Digests : ReceiveSample(h, d) \/ ReceiveArtifact(h, d) \/ RenderExport(h, d)
  \/ InsertSample(h) \/ Promote(h) \/ CopyExport(h) \/ StoreExport(h)
  \/ Commit(h) \/ Abort(h)

Api ==
  \/ \E h \in Handlers : Serve(h)
  \/ \E d \in Digests : DownloadSample(d) \/ DownloadInput(d) \/ DownloadArtifact(d)
  \/ Stop \/ Start
Backup ==
  (\E b \in Backups : BackupDump(b)) \/ (\E d \in Digests : BackupCopy(d))
    \/ BackupPublish \/ BackupFail
Restore ==
  \/ \E b \in Backups : StartRestore(b)
  \/ DumpLive \/ ReplaceDatabase \/ MoveArtifacts \/ InstallArtifacts \/ WriteRestoreId
  \/ RestoreFail \/ MoveBack \/ DatabaseBack \/ Discard \/ Kill
Rollback ==
  (\E b \in Backups : StartRollback(b)) \/ ReturnArtifacts \/ ReturnDatabase \/ RollbackFail

Next == Api \/ Backup \/ Restore \/ Rollback \/ \E d \in Corruptible : Corrupt(d)

Spec == Init /\ [][Next]_vars

-----------------------------------------------------------------------------
(* Properties *)

Request ==
  {Idle} \cup [at : {"read", "received", "copied", "stored"},
               kind : {"sample", "artifact", "export"}, sha : Digests, new : BOOLEAN]
Job ==
  {Idle} \cup
  [at : {"dump", "replace", "move", "install", "restore_id", "move_back", "database_back",
         "discard", "return", "return_database", "stuck"},
   id : Backups, replaced : BOOLEAN]

\* Every variable has its type, and the artifact tree is in its place unless an
\* operator's job moved it: the API never meets a missing tree.
TypeOK ==
  /\ database \in Database
  /\ artifacts \in Option(Tree)
  /\ artifacts = None => job.at \in {"install", "move_back", "return", "stuck"}
  /\ up \in BOOLEAN /\ (up => job.at = "idle")
  /\ request \in [Handlers -> Request]
  /\ making \in Option(Draft)
  /\ backups \in [Backups -> Option(Published)]
  /\ staging \in [Backups -> Option(Files)]
  /\ recovery \in [Backups -> Option(RecoverySet)]
  /\ displaced \in [Backups -> Option(Tree)]
  /\ job \in Job
  /\ restores \in Nat /\ restores <= MaxRestores
  /\ corrupted \subseteq Corruptible
  /\ alarms \subseteq Digests
  /\ owed \subseteq Eras

\* Whenever no operator's job is under way, every committed row has its object:
\* after crashes and failures of requests, restores of backups made while the API
\* was writing, restores and rollbacks that were killed or failed, unless a pg_restore
\* raised after its commit.
LiveRowsHaveObjects ==
  job.at = "idle" => \A row \in database.rows : Stored(row[2]) # "none"

\* A published backup holds an undamaged object for each of its rows, although
\* requests store objects and commit rows while it is dumped and copied and the
\* disk damages objects.
BackupsComplete ==
  \A b \in Backups :
    backups[b] # None => \A row \in backups[b].rows : backups[b].files[row[2]] = "good"

\* No row without its object, in the live tree and in the backups.
RowsHaveObjects == LiveRowsHaveObjects /\ BackupsComplete

\* An integrity alarm is raised for objects that the disk damaged, never for what
\* the system itself was writing, copying or moving, unless a pg_restore raised after
\* its commit.
NoFalseAlarm == alarms \subseteq corrupted

\* After a kill at any step of a restore or rollback, and after the failure of any but
\* two, the rows and the artifacts of the data before it exist, live or in a directory
\* that the operator is told of.  The two lose data in the code: the writing of the
\* restore-id, and a pg_restore that raises after its commit.
DataKept ==
  \A era \in owed :
    /\ \/ database.era = era
       \/ \E b \in Backups : /\ recovery[b] # None /\ recovery[b].dump # None
                             /\ recovery[b].dump.era = era
    /\ \/ artifacts # None /\ artifacts.era = era
       \/ \E b \in Backups :
            \/ recovery[b] # None /\ recovery[b].previous # None /\ recovery[b].previous.era = era
            \/ displaced[b] # None /\ displaced[b].era = era

=============================================================================
