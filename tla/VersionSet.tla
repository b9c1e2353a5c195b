----------------------------- MODULE VersionSet -----------------------------
(***************************************************************************)
(* The life of a table: version_set.go (logLock, logAndApply, createManifest, *)
(* append, addObsoleteLocked), read_state.go, the references of             *)
(* internal/manifest/version.go, compaction.go (flush1, compact1, the        *)
(* deletion of obsolete files and its turns), ingest.go, checkpoint.go and   *)
(* DB.Close.                                                                 *)
(*                                                                          *)
(* Jobs are goroutines that edit the version: flushes, compactions and      *)
(* ingestions.  Readers hold read states.  A step is what happens between   *)
(* two releases of DB.mu, or an atomic access or a call of the file system  *)
(* outside of it.  mu names the holder only where a critical section is     *)
(* split into several steps, as readers work without it.                    *)
(*                                                                          *)
(* A table is its file number; what is in it and at which level is left out. *)
(* A manifest is the sequence of the table sets its edits lead to.          *)
(***************************************************************************)
EXTENDS Integers, Sequences, FiniteSets, SequencesExt

CONSTANTS
  Jobs, Readers, Checkpoints,  \* goroutines
  Cleaner,        \* the goroutine of maybeScheduleObsoleteTableDeletion
  Closer,         \* the caller of Close
  Nobody,         \* the holder of a free DB.mu
  LiveTables,     \* tables of the version Open loads
  FirstManifest,  \* the manifest Open writes
  MaxEdits,       \* bound on the version edits
  MaxCheckpoints, \* bound on the checkpoints
  MaxFailures,    \* bound on the errors of the file system
  PacedModes      \* values of MinDeletionRate > 0

ASSUME GoroutinesAssumption ==
  /\ Jobs \intersect Readers = {} /\ Jobs \intersect Checkpoints = {} /\ Readers \intersect Checkpoints = {}
  /\ {Cleaner, Closer, Nobody} \intersect (Jobs \union Readers \union Checkpoints) = {}
  /\ Cleaner # Closer /\ Nobody \notin {Cleaner, Closer}
ASSUME FilesAssumption ==
  FirstManifest \in Nat /\ LiveTables \subseteq 1 .. FirstManifest - 1
ASSUME BoundsAssumption ==
  /\ MaxEdits \in Nat /\ MaxCheckpoints \in Nat /\ MaxFailures \in Nat
  /\ PacedModes \subseteq BOOLEAN

Workers == Jobs \union Checkpoints \union {Cleaner, Closer}

VARIABLES
  mu,            \* who holds DB.mu from one step to the next
  pc,            \* where each goroutine is
  \* the disk
  disk,          \* tables in the directory
  linked,        \* the ones the directory's last sync made durable
  manifests,     \* manifests[m]: the table sets of manifest m; its domain is the manifests in the directory
  currentFile,   \* the manifest CURRENT names
  \* versionSet
  versions,      \* all versions built: [tables, refs, released]
  list,          \* the version list: the order is that of the versions
  nextFile,      \* nextFileNum
  manifestNum,   \* manifestFileNum
  zombies,       \* zombieTables
  obsolete,      \* obsoleteTables
  oldManifests,  \* obsoleteManifests
  writing,       \* writing: the manifest lock
  lockQ,         \* goroutines asleep on writerCond
  \* readState
  states,        \* all read states built: [version, refs]; the last is DB.readState.val
  \* cleaner
  cleaning,      \* cleaner.cleaning
  disabled,      \* cleaner.disabled
  asleep,        \* goroutines asleep on cleaner.cond
  taken,         \* obsolete tables the cleaning job took
  todo,          \* files it has still to delete
  pacing,        \* files handed to paceAndDeleteObsoleteFiles
  paced,         \* MinDeletionRate > 0
  \* the goroutines
  job,           \* job[j]: [kind, in, out, pending, version, manifest]
  reader,        \* reader[r]: [state, obsolete]
  ckpt,          \* ckpt[c]: [tables, manifest, size, copied, linked]
  closed,        \* Close was called
  edits, checkpoints, failures

diskVars    == <<disk, linked, manifests, currentFile>>
listVars    == <<versions, list>>
setVars     == <<zombies, obsolete, oldManifests>>
numVars     == <<nextFile, manifestNum>>
lockVars    == <<writing, lockQ>>
cleanerVars == <<cleaning, disabled, asleep, taken, todo>>
boundVars   == <<edits, checkpoints, failures>>
vars == <<mu, pc, diskVars, listVars, setVars, numVars, lockVars, states, cleanerVars, pacing, paced,
          job, reader, ckpt, closed, boundVars>>

NoJob    == [kind |-> "none", in |-> {}, out |-> {}, pending |-> {}, version |-> 0, manifest |-> 0]
NoReader == [state |-> 0, obsolete |-> {}]
NoCkpt   == [tables |-> {}, manifest |-> 0, size |-> 0, copied |-> <<>>, linked |-> {}]

\* The end of Open: its version and read state are installed and the strays deleted.
Init ==
  /\ mu = Nobody /\ pc = [w \in Workers \union Readers |-> "idle"]
  /\ disk = LiveTables /\ linked = disk
  /\ manifests = [m \in {FirstManifest} |-> <<LiveTables>>]
  /\ currentFile = FirstManifest /\ manifestNum = FirstManifest /\ nextFile = FirstManifest + 1
  /\ versions = <<[tables |-> LiveTables, refs |-> 2, released |-> FALSE]>> /\ list = {1}
  /\ states = <<[version |-> 1, refs |-> 1]>>
  /\ zombies = {} /\ obsolete = {} /\ oldManifests = {}
  /\ writing = FALSE /\ lockQ = <<>>
  /\ cleaning = FALSE /\ disabled = 0 /\ asleep = {} /\ taken = {} /\ todo = {}
  /\ pacing = {} /\ paced \in PacedModes
  /\ job = [j \in Jobs |-> NoJob] /\ reader = [r \in Readers |-> NoReader]
  /\ ckpt = [c \in Checkpoints |-> NoCkpt]
  /\ closed = FALSE /\ edits = 0 /\ checkpoints = 0 /\ failures = 0

current == Max(list)
Goto(w, s) == pc' = [pc EXCEPT ![w] = s]

----------------------------------------------------------------------------
\* References.

\* The tables whose last reference goes when version v of vs is released.
LastReferences(vs, v) ==
  vs[v].tables \ UNION {vs[i].tables : i \in {k \in DOMAIN vs : k # v /\ ~vs[k].released}}

\* Version.UnrefLocked of v, on the fields [versions, list, obsolete].
UnrefLocked(s, v) ==
  LET vs == [s.versions EXCEPT ![v].refs = @ - 1]
  IN IF vs[v].refs > 0
     THEN [s EXCEPT !.versions = vs]
     ELSE [versions |-> [vs EXCEPT ![v].released = TRUE],
           list     |-> s.list \ {v},
           obsolete |-> s.obsolete \union LastReferences(vs, v)]

VersionState == [versions |-> versions, list |-> list, obsolete |-> obsolete]
SetVersions(s) == versions' = s.versions /\ list' = s.list /\ obsolete' = s.obsolete

----------------------------------------------------------------------------
\* The manifest lock.

\* logLock: wait for the writer, asleep without DB.mu.
LogLock(w) ==
  /\ pc[w] \in {"pick", "lock"} /\ w \notin ToSet(lockQ)
  /\ mu \in {Nobody, w}
  /\ IF writing
     THEN lockQ' = Append(lockQ, w) /\ mu' = Nobody /\ UNCHANGED <<pc, writing>>
     ELSE /\ writing' = TRUE /\ mu' = w
          /\ Goto(w, IF pc[w] = "pick" THEN "picking" ELSE IF w \in Jobs THEN "edit" ELSE "snapshot")
          /\ UNCHANGED lockQ
  /\ UNCHANGED <<diskVars, listVars, setVars, numVars, states, cleanerVars, pacing, paced, job, reader, ckpt,
                 closed, boundVars>>

\* logUnlock: the longest sleeper wakes.
LogUnlock ==
  /\ writing' = FALSE
  /\ lockQ' = IF lockQ = <<>> THEN <<>> ELSE Tail(lockQ)

----------------------------------------------------------------------------
\* The deletion of obsolete files.

\* A goroutine is done with its call.
Finish(w) ==
  /\ Goto(w, IF w = Closer THEN "deleters" ELSE "idle")
  /\ job' = [j \in Jobs |-> IF j = w THEN NoJob ELSE job[j]]
  /\ ckpt' = [c \in Checkpoints |-> IF c = w THEN NoCkpt ELSE ckpt[c]]

\* doDeleteObsoleteFiles takes what is obsolete; paced deletions go on in a goroutine of their own.
TakeObsolete ==
  LET files == obsolete \union oldManifests
  IN /\ taken' = obsolete /\ obsolete' = {} /\ oldManifests' = {}
     /\ IF paced THEN pacing' = pacing \union files /\ todo' = {} ELSE todo' = files /\ UNCHANGED pacing

\* deleteObsoleteFiles: sleep during another job's turn, leave if deletions are disabled, or take the turn.
AcquireCleaningTurn(w) ==
  /\ pc[w] \in {"clean", "turn"} /\ w \notin asleep
  /\ mu \in {Nobody, w}
  /\ mu' = Nobody
  /\ \/ /\ cleaning /\ disabled = 0
        /\ asleep' = asleep \union {w} /\ Goto(w, "turn")
        /\ UNCHANGED <<obsolete, oldManifests, cleaning, taken, todo, pacing, job, ckpt>>
     \/ /\ disabled > 0
        /\ Finish(w)
        /\ UNCHANGED <<obsolete, oldManifests, cleaning, taken, todo, pacing, asleep>>
     \/ /\ ~cleaning /\ disabled = 0
        /\ cleaning' = TRUE /\ TakeObsolete /\ Goto(w, "delete")
        /\ UNCHANGED <<asleep, job, ckpt>>
  /\ UNCHANGED <<diskVars, listVars, zombies, numVars, lockVars, states, disabled, paced, reader, closed,
                 boundVars>>

\* deleteObsoleteFile.
RemoveFile(f) ==
  /\ disk' = disk \ {f}
  /\ manifests' = [m \in DOMAIN manifests \ {f} |-> manifests[m]]
  /\ UNCHANGED <<linked, currentFile>>

DeleteFile(w) ==
  /\ pc[w] = "delete"
  /\ \E f \in todo : RemoveFile(f) /\ todo' = todo \ {f}
  /\ UNCHANGED <<mu, pc, listVars, setVars, numVars, lockVars, states, cleaning, disabled, asleep, taken,
                 pacing, paced, job, reader, ckpt, closed, boundVars>>

PacedDelete ==
  /\ \E f \in pacing : RemoveFile(f) /\ pacing' = pacing \ {f}
  /\ UNCHANGED <<mu, pc, listVars, setVars, numVars, lockVars, states, cleanerVars, paced, job, reader, ckpt,
                 closed, boundVars>>

\* A mutated Broadcast, without effect.
BroadcastNobody == asleep' = asleep

Broadcast == asleep' = {}

\* releaseCleaningTurn.
ReleaseCleaningTurn(w) ==
  /\ pc[w] = "delete" /\ todo = {} /\ mu = Nobody
  /\ zombies' = zombies \ taken
  /\ taken' = {} /\ cleaning' = FALSE
  /\ Broadcast
  /\ Finish(w)
  /\ UNCHANGED <<mu, diskVars, listVars, obsolete, oldManifests, numVars, lockVars, states, disabled, todo,
                 pacing, paced, reader, closed, boundVars>>

----------------------------------------------------------------------------
\* Jobs: flush1, compact1, Ingest, and a rotation of the memtable.

Compacting == UNION {job[j].in : j \in Jobs}

\* A flush or an ingestion starts, or maybeScheduleCompaction, which picks under the manifest lock, or
\* makeRoomForWrite installs a read state for a new memtable.
Begin(j, kind) ==
  /\ pc[j] = "idle" /\ mu = Nobody /\ ~closed /\ edits < MaxEdits
  /\ kind = "flush" => \A k \in Jobs : job[k].kind # "flush"
  /\ edits' = edits + 1
  /\ job' = [job EXCEPT ![j].kind = kind]
  /\ Goto(j, CASE kind = "compaction" -> "pick" [] kind = "rotation" -> "state" [] OTHER -> "write")
  /\ mu' = IF kind = "rotation" THEN j ELSE Nobody
  /\ UNCHANGED <<diskVars, listVars, setVars, numVars, lockVars, states, cleanerVars, pacing, paced, reader,
                 ckpt, closed, checkpoints, failures>>

\* A mutated Pickable: tables of a running compaction are picked again.
AllTables == versions[current].tables

Pickable == versions[current].tables \ Compacting

\* The picker chooses tables no compaction works on: to rewrite, to move a level down, or to delete.
Pick(j) ==
  /\ pc[j] = "picking" /\ mu = j /\ ~closed
  /\ \E in \in SUBSET Pickable \ {{}} :
       \/ job' = [job EXCEPT ![j].in = in] /\ Goto(j, "write")
       \/ Cardinality(in) = 1 /\ job' = [job EXCEPT ![j].in = in, ![j].out = in] /\ Goto(j, "lock")
       \/ job' = [job EXCEPT ![j].in = in] /\ Goto(j, "lock")
  /\ mu' = Nobody
  /\ LogUnlock
  /\ UNCHANGED <<diskVars, listVars, setVars, numVars, states, cleanerVars, pacing, paced, reader, ckpt,
                 closed, boundVars>>

\* The database was closed during the wait for the lock, or no level needs a compaction.
PickNothing(j) ==
  /\ pc[j] = "picking" /\ mu = j
  /\ job' = [job EXCEPT ![j] = NoJob] /\ Goto(j, "idle")
  /\ mu' = Nobody
  /\ LogUnlock
  /\ UNCHANGED <<diskVars, listVars, setVars, numVars, states, cleanerVars, pacing, paced, reader, ckpt,
                 closed, boundVars>>

\* runCompaction's newOutput, or ingestLink.
NewOutput(j) ==
  /\ pc[j] = "write" /\ mu = Nobody
  /\ nextFile' = nextFile + 1
  /\ disk' = disk \union {nextFile}
  /\ job' = [job EXCEPT ![j].out = {nextFile}, ![j].pending = {nextFile}]
  /\ Goto(j, "sync")
  /\ UNCHANGED <<mu, linked, manifests, currentFile, listVars, setVars, manifestNum, lockVars, states,
                 cleanerVars, pacing, paced, reader, ckpt, closed, boundVars>>

\* Everything was elided, or the memtable was empty, or the tables to ingest were.
NoOutput(j) ==
  /\ pc[j] = "write"
  /\ IF job[j].kind = "ingest" THEN Finish(j) ELSE Goto(j, "sync") /\ UNCHANGED <<job, ckpt>>
  /\ UNCHANGED <<mu, diskVars, listVars, setVars, numVars, lockVars, states, cleanerVars, pacing, paced,
                 reader, closed, boundVars>>

\* A mutated SyncOutputs, without the sync of the directory.
SyncNothing(j) ==
  /\ pc[j] = "sync"
  /\ Goto(j, "lock")
  /\ UNCHANGED <<mu, diskVars, listVars, setVars, numVars, lockVars, states, cleanerVars, pacing, paced, job,
                 reader, ckpt, closed, boundVars>>

\* dataDir.Sync.
SyncOutputs(j) ==
  /\ pc[j] = "sync"
  /\ linked' = disk
  /\ Goto(j, "lock")
  /\ UNCHANGED <<mu, disk, manifests, currentFile, listVars, setVars, numVars, lockVars, states, cleanerVars,
                 pacing, paced, job, reader, ckpt, closed, boundVars>>

\* runCompaction fails: it removes its outputs, and the job ends with the deletion of obsolete files.
FailOutputs(j) ==
  /\ pc[j] = "sync" /\ job[j].kind # "ingest" /\ mu = Nobody
  /\ failures < MaxFailures /\ failures' = failures + 1
  /\ disk' = disk \ job[j].pending
  /\ job' = [job EXCEPT ![j].in = {}, ![j].out = {}, ![j].pending = {}]
  /\ mu' = j /\ Goto(j, "clean")
  /\ UNCHANGED <<linked, manifests, currentFile, listVars, setVars, numVars, lockVars, states, cleanerVars,
                 pacing, paced, reader, ckpt, closed, edits, checkpoints>>

\* Ingest fails: its sync, after which the tables stay, or ingestTargetLevel, which needs the manifest lock.
FailIngest(j) ==
  /\ job[j].kind = "ingest" /\ failures < MaxFailures /\ failures' = failures + 1
  /\ \/ pc[j] = "sync" /\ Finish(j) /\ UNCHANGED <<mu, lockVars>>
     \/ pc[j] = "edit" /\ mu = j /\ mu' = Nobody /\ LogUnlock /\ Goto(j, "cleanup") /\ UNCHANGED <<job, ckpt>>
  /\ UNCHANGED <<diskVars, listVars, setVars, numVars, states, cleanerVars, pacing, paced, reader, closed, edits,
                 checkpoints>>

----------------------------------------------------------------------------
\* logAndApply.

\* A manifest that is too large is replaced; without DB.mu, bulkVersionEdit.Apply builds the new version,
\* which refers to its tables from now on.
Edit(j, replace) ==
  /\ pc[j] = "edit" /\ mu = j
  /\ versions' = Append(versions, [tables   |-> (versions[current].tables \ job[j].in) \union job[j].out,
                                   refs     |-> 0,
                                   released |-> FALSE])
  /\ job' = [job EXCEPT ![j].version = Len(versions) + 1, ![j].manifest = IF replace THEN nextFile ELSE 0]
  /\ nextFile' = IF replace THEN nextFile + 1 ELSE nextFile
  /\ mu' = Nobody /\ Goto(j, IF replace THEN "create" ELSE "append")
  /\ UNCHANGED <<diskVars, list, setVars, manifestNum, lockVars, states, cleanerVars, pacing, paced, reader,
                 ckpt, closed, boundVars>>

\* createManifest writes a snapshot of the current version.
CreateManifest(j) ==
  /\ pc[j] = "create"
  /\ manifests' = [m \in DOMAIN manifests \union {job[j].manifest} |->
                     IF m = job[j].manifest THEN <<versions[current].tables>> ELSE manifests[m]]
  /\ Goto(j, "append")
  /\ UNCHANGED <<mu, disk, linked, currentFile, listVars, setVars, numVars, lockVars, states, cleanerVars,
                 pacing, paced, job, reader, ckpt, closed, boundVars>>

\* createManifest fails: the outputs are obsolete, and an ingestion removes its own.  The new version, in
\* no list, keeps its references.
FailManifest(j) ==
  /\ pc[j] = "create" /\ mu = Nobody
  /\ failures < MaxFailures /\ failures' = failures + 1
  /\ LogUnlock
  /\ IF job[j].kind = "ingest"
     THEN Goto(j, "cleanup") /\ UNCHANGED <<mu, obsolete>>
     ELSE mu' = j /\ Goto(j, "clean") /\ obsolete' = obsolete \union job[j].pending
  /\ job' = [job EXCEPT ![j].in = {}, ![j].out = {}, ![j].version = 0, ![j].manifest = 0]
  /\ UNCHANGED <<diskVars, listVars, zombies, oldManifests, numVars, states, cleanerVars, pacing, paced,
                 reader, ckpt, closed, edits, checkpoints>>

\* ingestCleanup.
IngestCleanup(j) ==
  /\ pc[j] = "cleanup"
  /\ disk' = disk \ job[j].pending
  /\ Finish(j)
  /\ UNCHANGED <<mu, linked, manifests, currentFile, listVars, setVars, numVars, lockVars, states,
                 cleanerVars, pacing, paced, reader, closed, boundVars>>

\* The edit is written and synced; a failure is fatal.
AppendEdit(j) ==
  LET m == IF job[j].manifest = 0 THEN manifestNum ELSE job[j].manifest
  IN /\ pc[j] = "append"
     /\ manifests' = [manifests EXCEPT ![m] = Append(@, versions[job[j].version].tables)]
     /\ Goto(j, IF job[j].manifest = 0 THEN "install" ELSE "setcurrent")
     /\ UNCHANGED <<mu, disk, linked, currentFile, listVars, setVars, numVars, lockVars, states, cleanerVars,
                    pacing, paced, job, reader, ckpt, closed, boundVars>>

\* setCurrentFile and dir.Sync.
SetCurrentFile(j) ==
  /\ pc[j] = "setcurrent"
  /\ currentFile' = job[j].manifest
  /\ linked' = disk
  /\ Goto(j, "install")
  /\ UNCHANGED <<mu, disk, manifests, listVars, setVars, numVars, lockVars, states, cleanerVars, pacing, paced,
                 job, reader, ckpt, closed, boundVars>>

\* A mutated Install, which forgets the zombies.
InstallNoZombies(j) ==
  LET s == UnrefLocked(VersionState, current)
  IN /\ pc[j] = "install" /\ mu = Nobody
     /\ versions' = [s.versions EXCEPT ![job[j].version].refs = 1]
     /\ list' = s.list \union {job[j].version}
     /\ obsolete' = s.obsolete
     /\ oldManifests' = IF job[j].manifest = 0 THEN oldManifests ELSE oldManifests \union {manifestNum}
     /\ manifestNum' = IF job[j].manifest = 0 THEN manifestNum ELSE job[j].manifest
     /\ LogUnlock
     /\ job' = [job EXCEPT ![j].in = {}]
     /\ mu' = j /\ Goto(j, "state")
     /\ UNCHANGED <<diskVars, zombies, nextFile, states, cleanerVars, pacing, paced, reader, ckpt, closed,
                    boundVars>>

\* The rest of logAndApply, with DB.mu again: the zombies first, as versionSet.append unrefs the old version.
Install(j) ==
  LET s == UnrefLocked(VersionState, current)
  IN /\ pc[j] = "install" /\ mu = Nobody
     /\ zombies' = zombies \union (job[j].in \ job[j].out)
     /\ versions' = [s.versions EXCEPT ![job[j].version].refs = 1]
     /\ list' = s.list \union {job[j].version}
     /\ obsolete' = s.obsolete
     /\ oldManifests' = IF job[j].manifest = 0 THEN oldManifests ELSE oldManifests \union {manifestNum}
     /\ manifestNum' = IF job[j].manifest = 0 THEN manifestNum ELSE job[j].manifest
     /\ LogUnlock
     /\ job' = [job EXCEPT ![j].in = {}]
     /\ mu' = j /\ Goto(j, "state")
     /\ UNCHANGED <<diskVars, nextFile, states, cleanerVars, pacing, paced, reader, ckpt, closed, boundVars>>

----------------------------------------------------------------------------
\* updateReadStateLocked.

SwapState(j) ==
  /\ pc[j] = "state" /\ mu = j
  /\ states' = Append(states, [version |-> current, refs |-> 1])
  /\ versions' = [versions EXCEPT ![current].refs = @ + 1]
  /\ Goto(j, "unrefold")
  /\ UNCHANGED <<mu, diskVars, list, setVars, numVars, lockVars, cleanerVars, pacing, paced, job, reader,
                 ckpt, closed, boundVars>>

\* readState.unrefLocked.
UnrefStateLocked(i) ==
  /\ states' = [states EXCEPT ![i].refs = @ - 1]
  /\ IF states[i].refs = 1
     THEN SetVersions(UnrefLocked(VersionState, states[i].version))
     ELSE UNCHANGED <<listVars, obsolete>>

UnrefOld(j) ==
  /\ pc[j] = "unrefold" /\ mu = j
  /\ UnrefStateLocked(Len(states) - 1)
  /\ IF job[j].kind = "rotation"
     THEN Finish(j) /\ mu' = Nobody
     ELSE Goto(j, "clean") /\ UNCHANGED <<mu, job, ckpt>>
  /\ UNCHANGED <<diskVars, zombies, oldManifests, numVars, lockVars, cleanerVars, pacing, paced, reader,
                 closed, boundVars>>

----------------------------------------------------------------------------
\* Readers: loadReadState, then readState.unref without DB.mu.

readerRest == <<mu, diskVars, zombies, oldManifests, numVars, lockVars, disabled, asleep, taken, todo,
                pacing, paced, job, ckpt, closed, boundVars>>

Load(r) ==
  /\ pc[r] = "idle" /\ ~closed
  /\ states' = [states EXCEPT ![Len(states)].refs = @ + 1]
  /\ reader' = [reader EXCEPT ![r].state = Len(states)]
  /\ Goto(r, "reading")
  /\ UNCHANGED <<listVars, obsolete, cleaning, readerRest>>

UnrefState(r) ==
  LET i == reader[r].state
  IN /\ pc[r] = "reading"
     /\ states' = [states EXCEPT ![i].refs = @ - 1]
     /\ IF states[i].refs = 1
        THEN Goto(r, "unrefversion") /\ UNCHANGED reader
        ELSE Goto(r, "idle") /\ reader' = [reader EXCEPT ![r] = NoReader]
     /\ UNCHANGED <<listVars, obsolete, cleaning, readerRest>>

\* Version.Unref decrements,
UnrefVersion(r) ==
  LET v == states[reader[r].state].version
  IN /\ pc[r] = "unrefversion"
     /\ versions' = [versions EXCEPT ![v].refs = @ - 1]
     /\ Goto(r, IF versions[v].refs = 1 THEN "unreffiles" ELSE "schedule")
     /\ UNCHANGED <<list, states, reader, obsolete, cleaning, readerRest>>

\* releases the tables,
UnrefFiles(r) ==
  LET v == states[reader[r].state].version
  IN /\ pc[r] = "unreffiles"
     /\ versions' = [versions EXCEPT ![v].released = TRUE]
     /\ reader' = [reader EXCEPT ![r].obsolete = LastReferences(versions, v)]
     /\ Goto(r, "remove")
     /\ UNCHANGED <<list, states, obsolete, cleaning, readerRest>>

\* and only then locks the list.
RemoveVersion(r) ==
  /\ pc[r] = "remove" /\ mu = Nobody
  /\ list' = list \ {states[reader[r].state].version}
  /\ obsolete' = obsolete \union reader[r].obsolete
  /\ reader' = [reader EXCEPT ![r].obsolete = {}]
  /\ Goto(r, "schedule")
  /\ UNCHANGED <<versions, states, cleaning, readerRest>>

\* maybeScheduleObsoleteTableDeletion takes the turn for a goroutine it starts.
Schedule(r) ==
  LET take == obsolete # {} /\ ~cleaning /\ disabled = 0
  IN /\ pc[r] = "schedule" /\ mu = Nobody
     /\ cleaning' = (cleaning \/ take)
     /\ pc' = [pc EXCEPT ![r] = "idle", ![Cleaner] = IF take THEN "start" ELSE @]
     /\ reader' = [reader EXCEPT ![r] = NoReader]
     /\ UNCHANGED <<listVars, states, obsolete, readerRest>>

CleanerStart ==
  /\ pc[Cleaner] = "start" /\ mu = Nobody
  /\ TakeObsolete
  /\ Goto(Cleaner, "delete")
  /\ UNCHANGED <<mu, diskVars, listVars, zombies, numVars, lockVars, states, cleaning, disabled, asleep,
                 paced, job, reader, ckpt, closed, boundVars>>

----------------------------------------------------------------------------
\* Checkpoint.

ckptRest == <<listVars, setVars, numVars, states, pacing, paced, job, reader, closed>>

\* The wait of disableFileDeletions for the turn to end.
AwaitTurn(c) ==
  IF cleaning
  THEN asleep' = asleep \union {c} /\ mu' = Nobody /\ Goto(c, "disable")
  ELSE Broadcast /\ mu' = c /\ Goto(c, "lock")

Disable(c) ==
  /\ pc[c] = "idle" /\ mu = Nobody /\ ~closed /\ checkpoints < MaxCheckpoints
  /\ checkpoints' = checkpoints + 1
  /\ disabled' = disabled + 1
  /\ AwaitTurn(c)
  /\ UNCHANGED <<diskVars, lockVars, cleaning, taken, todo, ckpt, edits, failures, ckptRest>>

DisableWoken(c) ==
  /\ pc[c] = "disable" /\ c \notin asleep /\ mu = Nobody
  /\ AwaitTurn(c)
  /\ UNCHANGED <<diskVars, lockVars, cleaning, disabled, taken, todo, ckpt, boundVars, ckptRest>>

\* Under the manifest lock, the length of the manifest belongs to the version.
Snapshot(c) ==
  /\ pc[c] = "snapshot" /\ mu = c
  /\ ckpt' = [ckpt EXCEPT ![c].tables = versions[current].tables, ![c].manifest = manifestNum,
                          ![c].size = Len(manifests[manifestNum])]
  /\ mu' = Nobody /\ LogUnlock
  /\ Goto(c, "copy")
  /\ UNCHANGED <<diskVars, cleanerVars, boundVars, ckptRest>>

\* A mutated CopyManifest: all of the file.
CopyWholeManifest(c) ==
  /\ pc[c] = "copy"
  /\ ckpt' = [ckpt EXCEPT ![c].copied = manifests[ckpt[c].manifest]]
  /\ Goto(c, "link")
  /\ UNCHANGED <<mu, diskVars, lockVars, cleanerVars, boundVars, ckptRest>>

\* LimitedCopy of the manifest, and CURRENT.
CopyManifest(c) ==
  /\ pc[c] = "copy"
  /\ ckpt' = [ckpt EXCEPT ![c].copied = SubSeq(manifests[ckpt[c].manifest], 1, ckpt[c].size)]
  /\ Goto(c, "link")
  /\ UNCHANGED <<mu, diskVars, lockVars, cleanerVars, boundVars, ckptRest>>

\* LinkOrCopy of one table.
LinkTable(c) ==
  /\ pc[c] = "link"
  /\ \E t \in (ckpt[c].tables \ ckpt[c].linked) \intersect disk :
       ckpt' = [ckpt EXCEPT ![c].linked = @ \union {t}]
  /\ UNCHANGED <<mu, pc, diskVars, lockVars, cleanerVars, boundVars, ckptRest>>

\* A call of the file system fails: the directory is removed again.
FailCheckpoint(c) ==
  /\ pc[c] \in {"copy", "link"} /\ failures < MaxFailures
  /\ failures' = failures + 1
  /\ ckpt' = [ckpt EXCEPT ![c] = NoCkpt]
  /\ Goto(c, "enable")
  /\ UNCHANGED <<mu, diskVars, lockVars, cleanerVars, edits, checkpoints, ckptRest>>

\* The deferred enableFileDeletions.
Enable(c) ==
  /\ pc[c] = "enable" \/ (pc[c] = "link" /\ ckpt[c].linked = ckpt[c].tables)
  /\ mu = Nobody
  /\ disabled' = disabled - 1
  /\ IF disabled > 1
     THEN Finish(c) /\ UNCHANGED mu
     ELSE Goto(c, "clean") /\ mu' = c /\ UNCHANGED <<job, ckpt>>
  /\ UNCHANGED <<diskVars, listVars, setVars, numVars, lockVars, states, cleaning, asleep, taken, todo,
                 pacing, paced, reader, closed, boundVars>>

----------------------------------------------------------------------------
\* Close, after all other calls returned: background jobs may still run.

closeRest == <<diskVars, zombies, oldManifests, numVars, lockVars, cleaning, disabled, taken, todo,
               pacing, paced, job, reader, ckpt, boundVars>>

BeginClose ==
  /\ ~closed /\ mu = Nobody
  /\ \A g \in Readers \union Checkpoints : pc[g] = "idle"
  /\ \A j \in Jobs : job[j].kind # "ingest"
  /\ closed' = TRUE /\ Goto(Closer, "wait")
  /\ UNCHANGED <<mu, listVars, states, obsolete, asleep, closeRest>>

\* The caller of maybeScheduleCompaction may still wait for the manifest lock.
CloseState ==
  /\ pc[Closer] = "wait" /\ mu = Nobody
  /\ \A j \in Jobs : pc[j] \in {"idle", "pick"}
  /\ UnrefStateLocked(Len(states))
  /\ Goto(Closer, IF \A i \in list' : versions'[i].refs = (IF i = Max(list') THEN 1 ELSE 0)
                  THEN "drain" ELSE "leaked")
  /\ UNCHANGED <<mu, asleep, closed, closeRest>>

\* A mutated Drain: the last deletion is left to a job that no longer comes.
DrainNoDelete ==
  /\ pc[Closer] = "drain" /\ Closer \notin asleep /\ mu = Nobody
  /\ IF cleaning
     THEN asleep' = asleep \union {Closer} /\ UNCHANGED <<mu, pc>>
     ELSE Goto(Closer, "deleters") /\ UNCHANGED <<mu, asleep>>
  /\ UNCHANGED <<listVars, states, obsolete, closed, closeRest>>

Drain ==
  /\ pc[Closer] = "drain" /\ Closer \notin asleep /\ mu = Nobody
  /\ IF cleaning
     THEN asleep' = asleep \union {Closer} /\ UNCHANGED <<mu, pc>>
     ELSE /\ UNCHANGED asleep
          /\ IF obsolete # {} THEN Goto(Closer, "clean") /\ mu' = Closer ELSE Goto(Closer, "deleters") /\ UNCHANGED mu
  /\ UNCHANGED <<listVars, states, obsolete, closed, closeRest>>

\* deleters.Wait.
AwaitDeleters ==
  /\ pc[Closer] = "deleters" /\ pacing = {}
  /\ Goto(Closer, "closed")
  /\ UNCHANGED <<mu, listVars, states, obsolete, asleep, closed, closeRest>>

Terminated ==
  /\ \A w \in Workers \union Readers : pc[w] = IF w = Closer THEN "closed" ELSE "idle"
  /\ UNCHANGED vars

----------------------------------------------------------------------------
JobStep(j) ==
  \/ LogLock(j) \/ Pick(j) \/ PickNothing(j) \/ NewOutput(j) \/ NoOutput(j) \/ SyncOutputs(j) \/ FailOutputs(j)
  \/ FailIngest(j)
  \/ \E replace \in BOOLEAN : Edit(j, replace)
  \/ CreateManifest(j) \/ FailManifest(j) \/ IngestCleanup(j) \/ AppendEdit(j) \/ SetCurrentFile(j)
  \/ Install(j) \/ SwapState(j) \/ UnrefOld(j)

CleaningStep(w) == AcquireCleaningTurn(w) \/ DeleteFile(w) \/ ReleaseCleaningTurn(w)

UnrefStep(r) == UnrefVersion(r) \/ UnrefFiles(r) \/ RemoveVersion(r) \/ Schedule(r)

CheckpointStep(c) ==
  \/ DisableWoken(c) \/ LogLock(c) \/ Snapshot(c) \/ CopyManifest(c) \/ LinkTable(c) \/ FailCheckpoint(c)
  \/ Enable(c)

CloseStep == CloseState \/ Drain \/ AwaitDeleters

Next ==
  \/ \E j \in Jobs : JobStep(j) \/ \E kind \in {"flush", "compaction", "ingest", "rotation"} : Begin(j, kind)
  \/ \E w \in Workers : CleaningStep(w)
  \/ PacedDelete
  \/ \E r \in Readers : Load(r) \/ UnrefState(r) \/ UnrefStep(r)
  \/ CleanerStart
  \/ \E c \in Checkpoints : CheckpointStep(c) \/ Disable(c)
  \/ BeginClose \/ CloseStep
  \/ Terminated

Spec == Init /\ [][Next]_vars

----------------------------------------------------------------------------

\* No file is deleted under its users (read_state.go, version.go UnrefLocked): the tables of the version a
\* reader holds, the inputs of a running compaction, which has no reference of its own and which the current
\* version must still have, and the outputs of a job that has not installed them.
TablesExist ==
  /\ \A r \in Readers : pc[r] = "reading" => versions[states[reader[r].state].version].tables \subseteq disk
  /\ \A j \in Jobs : job[j].in \subseteq disk \intersect versions[current].tables
  /\ \A j \in Jobs : pc[j] \in {"sync", "lock", "edit", "create", "append", "setcurrent", "install"} =>
                       job[j].out \subseteq disk

Installing == {versions[job[j].version].tables : j \in {k \in Jobs : pc[k] \in {"setcurrent", "install"}}}

\* A crash at any point leaves a database (logAndApply): the manifest CURRENT names is there, it ends in the
\* tables of the current version or of the one whose edit was just written, and they are durable in the
\* directory.
Recoverable ==
  /\ currentFile \in DOMAIN manifests
  /\ Last(manifests[currentFile]) \subseteq disk \intersect linked
  /\ Last(manifests[currentFile]) \in {versions[current].tables} \union Installing

\* A checkpoint is of one version (checkpoint.go): until it is done, the files it still has to copy exist,
\* and the manifest it has copied ends in the tables it links, whatever is edited and deleted meanwhile.
CheckpointConsistent ==
  \A c \in Checkpoints :
    /\ pc[c] = "copy" => /\ ckpt[c].manifest \in DOMAIN manifests
                         /\ ckpt[c].size \in 1 .. Len(manifests[ckpt[c].manifest])
    /\ pc[c] \in {"copy", "link"} => ckpt[c].tables \subseteq disk
    /\ pc[c] = "link" => Last(ckpt[c].copied) = ckpt[c].tables

\* The panics and fatal errors are unreachable: addObsoleteLocked finds each table a version can still give
\* up among the zombies, enableFileDeletions finds deletions disabled and nobody's turn, no reference count
\* falls below zero, and one goroutine at a time deletes.
PanicFree ==
  /\ \A i \in DOMAIN versions : versions[i].refs >= 0
  /\ \A i \in DOMAIN states : states[i].refs >= 0
  /\ Cardinality({w \in Workers : pc[w] \in {"start", "delete"}}) = IF cleaning THEN 1 ELSE 0
  /\ \A i \in list : ~versions[i].released => versions[i].tables \subseteq versions[current].tables \union zombies
  /\ \A r \in Readers : reader[r].obsolete \subseteq zombies
  /\ \A c \in Checkpoints : pc[c] \in {"lock", "snapshot", "copy", "link", "enable"} => disabled > 0 /\ ~cleaning

\* Close finds no leaked reference, and after it, unless a call of the file system failed, the directory has
\* the tables and the manifest of the current version and nothing else.
CloseClean ==
  /\ pc[Closer] # "leaked"
  /\ pc[Closer] = "closed" /\ failures = 0 =>
       /\ disk = versions[current].tables
       /\ DOMAIN manifests = {manifestNum}
       /\ zombies = {} /\ obsolete = {}

\* No wakeup is lost: whoever sleeps on cleaner.cond sleeps during a turn, whose end wakes everyone, and
\* whoever sleeps on writerCond sleeps while the manifest is locked or while one that logUnlock woke is on
\* its way to the lock.
NoLostWakeup ==
  /\ asleep # {} => cleaning
  /\ lockQ # <<>> => writing \/ \E w \in Jobs \union Checkpoints : pc[w] \in {"pick", "lock"} /\ w \notin ToSet(lockQ)
=============================================================================
