------------------------- MODULE VersionSetClosing --------------------------
(***************************************************************************)
(* The fourth layer of the invariant of the version set, and what Close     *)
(* leaves: no leaked reference, and in the directory the current version    *)
(* and nothing else.                                                        *)
(*                                                                          *)
(* IFiles says that no file in use is deleted.  ILeft is the other half: no *)
(* file out of use is forgotten.  IKept traces every table and manifest of  *)
(* the directory to a version, to the job that wrote it or to somebody who  *)
(* has it to delete, as long as no call of the file system failed; it needs *)
(* that every unreleased version is in the list or being installed.  IComing *)
(* says that somebody comes for an old manifest, and IEnd follows Close to  *)
(* its end.                                                                 *)
(***************************************************************************)
EXTENDS VersionSetTheorems

-----------------------------------------------------------------------------
(* The fourth invariant: nothing is left behind.                           *)

Going      == obsolete \union todo \union pacing \union Given
Owned(t)   == \E j \in Jobs : pc[j] \in Owning /\ t \in job[j].pending
BuiltBy(v) == \E j \in Jobs : pc[j] \in Built /\ job[j].version = v
Named(m)   == \E j \in Jobs : NewManifest(j) /\ job[j].manifest = m

IKept ==
  /\ \A v \in 1 .. Len(versions) : ~versions[v].released => v \in list \/ BuiltBy(v)
  /\ \A t \in disk : t \in Going \/ IsLive(t) \/ Owned(t)
  /\ \A t \in zombies : t \in obsolete \union taken \union Given \/ IsLive(t)
  /\ \A m \in DOMAIN manifests : m = manifestNum \/ m \in oldManifests \union todo \union pacing \/ Named(m)

Leaving == {"clean", "turn"}
Swaps   == {"state", "unrefold"}

(* A rotation only swaps the read state. *)
IRotation == \A j \in Jobs : job[j].kind = "rotation" => pc[j] \in Swaps

(* Somebody comes to delete an old manifest. *)
IComing ==
  oldManifests # {} =>
    \/ disabled > 0
    \/ \E w \in Workers : pc[w] \in Leaving
    \/ \E j \in Jobs : pc[j] \in Swaps /\ job[j].kind # "rotation"

(* The end of Close: nothing becomes obsolete, nobody deletes. *)
IEnd ==
  /\ pc[Closer] # "leaked"
  /\ pc[Closer] \in {"delete", "deleters", "closed"} => obsolete = {} /\ oldManifests = {}
  /\ pc[Closer] \in {"deleters", "closed"} => ~cleaning
  /\ pc[Closer] = "closed" => pacing = {}

ICleaned == IRotation /\ IComing /\ IEnd
ILeft == failures \in Nat /\ (failures = 0 => IKept) /\ ICleaned

-----------------------------------------------------------------------------
(* Somebody comes: the steps. *)

(* Once Close has waited, only the closer, the cleaner and a picker are left. *)
LEMMA DrainedFacts ==
  ASSUME IControl, Drained
  PROVE  /\ \A r \in Readers : pc[r] = "idle"
         /\ \A c \in Checkpoints : pc[c] = "idle"
         /\ \A j \in Jobs : pc[j] \in {"idle", "pick", "picking"}
         /\ disabled = 0
         /\ \A w \in Workers : pc[w] \in Leaving => w = Closer
<1>1. closed
  BY DEF IControl, IClosed, Drained
<1>2. /\ \A g \in Readers \union Checkpoints : pc[g] = "idle"
      /\ \A j \in Jobs : pc[j] \in {"idle", "pick", "picking"}
  BY <1>1 DEF IControl, IClosed
<1>3. Disablers = {}
  BY <1>2 DEF Disablers, Disabling
<1>4. disabled = 0
  BY <1>3, FS_EmptySet DEF IControl, IDisabled
<1>5. pc[Cleaner] \in CleanerPC
  BY DEF IControl, IType, PCType
<1>6. ASSUME NEW w \in Workers, pc[w] \in Leaving PROVE w = Closer
  BY <1>2, <1>5, <1>6, WorkerIs DEF Leaving, CleanerPC
<1> QED BY <1>2, <1>4, <1>6

(* A step that changes nothing of the end of Close. *)
LEMMA EndFrame ==
  ASSUME IEnd, pc'[Closer] = pc[Closer],
         Drained => /\ obsolete' \subseteq obsolete /\ oldManifests' \subseteq oldManifests
                    /\ (cleaning' => cleaning) /\ pacing' \subseteq pacing
  PROVE  IEnd'
BY DEF IEnd, Drained

LEMMA ComingFrame ==
  ASSUME IComing, oldManifests' \subseteq oldManifests, disabled' = disabled,
         \A w \in Workers : pc[w] \in Leaving => pc'[w] \in Leaving,
         \A j \in Jobs : pc[j] \in Swaps /\ job[j].kind # "rotation" =>
           pc'[j] \in Leaving \/ (pc'[j] \in Swaps /\ job'[j].kind # "rotation"),
         Jobs \subseteq Workers
  PROVE  IComing'
BY DEF IComing

(* A step of a job that does not wait for the turn and does not swap the read state. *)
LEMMA PlainJob ==
  ASSUME IControl, ICleaned, NEW j \in Jobs, Moves(j), pc[j] \notin Leaving, pc[j] \notin Swaps,
         \A k \in Jobs : job'[k].kind = job[k].kind \/ (k = j /\ job'[k].kind = "none"),
         UNCHANGED <<oldManifests, disabled, cleaning, pacing>>,
         obsolete' = obsolete \/ pc[j] \notin {"idle", "pick", "picking"}
  PROVE  ICleaned'
<1>1. Jobs \subseteq Workers /\ j # Closer
  BY JobIs
<1>2. \A w \in Workers : w # j => pc'[w] = pc[w]
  BY WorkerIs DEF Moves
<1>3. IRotation'
  BY <1>1, <1>2 DEF ICleaned, IRotation
<1>4. IComing'
  <2>1. \A w \in Workers : pc[w] \in Leaving => pc'[w] \in Leaving
    BY <1>2
  <2>2. \A k \in Jobs : pc[k] \in Swaps /\ job[k].kind # "rotation" =>
          pc'[k] \in Leaving \/ (pc'[k] \in Swaps /\ job'[k].kind # "rotation")
    BY <1>1, <1>2
  <2> QED BY <1>1, <2>1, <2>2, ComingFrame DEF ICleaned
<1>5. pc'[Closer] = pc[Closer]
  BY <1>1, <1>2, OthersAre
<1>6. Drained => obsolete' = obsolete
  BY DrainedFacts
<1>7. IEnd'
  BY <1>5, <1>6, EndFrame DEF ICleaned
<1> QED BY <1>3, <1>4, <1>7 DEF ICleaned

(* A step that is not a job's, and moves nobody who waits for the turn or swaps. *)
LEMMA PlainOther ==
  ASSUME IControl, ICleaned, UNCHANGED <<oldManifests, disabled, pacing>>,
         \A k \in Jobs : pc'[k] = pc[k] /\ job'[k].kind = job[k].kind,
         \A w \in Workers : pc[w] \in Leaving => pc'[w] \in Leaving,
         pc'[Closer] = pc[Closer],
         Drained => obsolete' = obsolete /\ (cleaning' => cleaning)
  PROVE  ICleaned'
<1>1. Jobs \subseteq Workers
  BY JobIs
<1>2. IRotation'
  BY DEF ICleaned, IRotation
<1>3. IComing'
  BY <1>1, ComingFrame DEF ICleaned
<1>4. IEnd'
  BY EndFrame DEF ICleaned
<1> QED BY <1>2, <1>3, <1>4 DEF ICleaned

LEMMA FinishKinds ==
  ASSUME NEW w \in Workers, Finish(w)
  PROVE  \A k \in Jobs : job'[k].kind = job[k].kind \/ (k = w /\ job'[k].kind = "none")
BY DEF Finish, NoJob

LEMMA KindsKept ==
  ASSUME IRefs, NEW j \in Jobs, NEW in, NEW out, NEW pending, NEW version, NEW manifest, NEW rec,
         \/ job' = job
         \/ job' = [job EXCEPT ![j].in = in]
         \/ job' = [job EXCEPT ![j].in = in, ![j].out = out]
         \/ job' = [job EXCEPT ![j].out = out, ![j].pending = pending]
         \/ job' = [job EXCEPT ![j].in = in, ![j].out = out, ![j].pending = pending]
         \/ job' = [job EXCEPT ![j].in = in, ![j].out = out, ![j].version = version, ![j].manifest = manifest]
         \/ job' = [job EXCEPT ![j].version = version, ![j].manifest = manifest]
  PROVE  \A k \in Jobs : job'[k].kind = job[k].kind
<1>1. job \in [Jobs -> JobType]
  BY DEF IRefs, IRefType
<1> QED BY <1>1 DEF JobType

LEMMA PickCleaned ==
  ASSUME IControl, IRefs, ICleaned, NEW j \in Jobs, LogLock(j) \/ Pick(j) \/ PickNothing(j)
  PROVE  ICleaned'
<1>1. /\ UNCHANGED <<oldManifests, disabled, cleaning, pacing, obsolete>>
      /\ pc[j] \in {"pick", "lock", "picking"} /\ (UNCHANGED pc \/ \E s : Goto(j, s))
  BY DEF LogLock, Pick, PickNothing, setVars, cleanerVars
<1>2. Moves(j) /\ pc[j] \notin Leaving /\ pc[j] \notin Swaps
  BY <1>1, JobIs, GotoMoves, StayMoves DEF IControl, IType, Leaving, Swaps
<1>3. \A k \in Jobs : job'[k].kind = job[k].kind \/ (k = j /\ job'[k].kind = "none")
  <2>1. CASE LogLock(j)
    BY <2>1 DEF LogLock
  <2>2. CASE Pick(j)
    <3>1. PICK in : job' = [job EXCEPT ![j].in = in] \/ job' = [job EXCEPT ![j].in = in, ![j].out = in]
      BY <2>2 DEF Pick
    <3> QED BY <3>1, KindsKept
  <2>3. CASE PickNothing(j)
    BY <2>3 DEF PickNothing, NoJob, IRefs, IRefType
  <2> QED BY <2>1, <2>2, <2>3
<1> QED BY <1>1, <1>2, <1>3, PlainJob

LEMMA OutputsCleaned ==
  ASSUME IControl, IRefs, ICleaned, NEW j \in Jobs,
         NewOutput(j) \/ NoOutput(j) \/ SyncOutputs(j) \/ FailOutputs(j) \/ FailIngest(j) \/ IngestCleanup(j)
  PROVE  ICleaned'
<1>0. j \in Workers /\ j # Closer
  BY JobIs
<1>1. /\ UNCHANGED <<oldManifests, disabled, cleaning, pacing, obsolete>>
      /\ pc[j] \in {"write", "sync", "edit", "cleanup"} /\ \E s : Goto(j, s)
  BY <1>0, FinishGoto DEF NewOutput, NoOutput, SyncOutputs, FailOutputs, FailIngest, IngestCleanup, setVars, cleanerVars
<1>2. Moves(j) /\ pc[j] \notin Leaving /\ pc[j] \notin Swaps
  BY <1>1, JobIs, GotoMoves DEF IControl, IType, Leaving, Swaps
<1>3. \A k \in Jobs : job'[k].kind = job[k].kind \/ (k = j /\ job'[k].kind = "none")
  <2>1. Finish(j) \/ \A k \in Jobs : job'[k].kind = job[k].kind
    <3>1. CASE NewOutput(j)
      <4>1. PICK o : job' = [job EXCEPT ![j].out = o, ![j].pending = o]
        BY <3>1 DEF NewOutput
      <4> QED BY <4>1, KindsKept
    <3>2. CASE FailOutputs(j)
      <4>1. PICK o : job' = [job EXCEPT ![j].in = o, ![j].out = o, ![j].pending = o]
        BY <3>2 DEF FailOutputs
      <4> QED BY <4>1, KindsKept
    <3>3. CASE NoOutput(j) \/ SyncOutputs(j) \/ FailIngest(j) \/ IngestCleanup(j)
      BY <3>3 DEF NoOutput, SyncOutputs, FailIngest, IngestCleanup
    <3> QED BY <3>1, <3>2, <3>3
  <2> QED BY <1>0, <2>1, FinishKinds
<1> QED BY <1>1, <1>2, <1>3, PlainJob

LEMMA ManifestCleaned ==
  ASSUME IControl, IRefs, ICleaned, NEW j \in Jobs,
         \/ \E replace \in BOOLEAN : Edit(j, replace)
         \/ CreateManifest(j) \/ FailManifest(j) \/ AppendEdit(j) \/ SetCurrentFile(j)
  PROVE  ICleaned'
<1>1. /\ UNCHANGED <<oldManifests, disabled, cleaning, pacing>>
      /\ pc[j] \in {"edit", "create", "append", "setcurrent"} /\ \E s : Goto(j, s)
  BY DEF Edit, CreateManifest, FailManifest, AppendEdit, SetCurrentFile, setVars, cleanerVars
<1>2. Moves(j) /\ pc[j] \notin Leaving /\ pc[j] \notin Swaps
  BY <1>1, JobIs, GotoMoves DEF IControl, IType, Leaving, Swaps
<1>3. \A k \in Jobs : job'[k].kind = job[k].kind
  <2>1. CASE \E replace \in BOOLEAN : Edit(j, replace)
    <3>1. PICK v, m : job' = [job EXCEPT ![j].version = v, ![j].manifest = m]
      BY <2>1 DEF Edit
    <3> QED BY <3>1, KindsKept
  <2>2. CASE FailManifest(j)
    <3>1. PICK o, n : job' = [job EXCEPT ![j].in = o, ![j].out = o, ![j].version = n, ![j].manifest = n]
      BY <2>2 DEF FailManifest
    <3> QED BY <3>1, KindsKept
  <2>3. CASE CreateManifest(j) \/ AppendEdit(j) \/ SetCurrentFile(j)
    BY <2>3 DEF CreateManifest, AppendEdit, SetCurrentFile
  <2> QED BY <2>1, <2>2, <2>3
<1> QED BY <1>1, <1>2, <1>3, PlainJob

LEMMA BeginCleaned ==
  ASSUME IControl, IRefs, ICleaned, NEW j \in Jobs,
         NEW kind \in {"flush", "compaction", "ingest", "rotation"}, Begin(j, kind)
  PROVE  ICleaned'
<1>1. /\ UNCHANGED <<oldManifests, disabled, cleaning, pacing, obsolete>>
      /\ pc[j] = "idle" /\ job' = [job EXCEPT ![j].kind = kind]
      /\ \E s : Goto(j, s) /\ (kind = "rotation" => s = "state")
  BY DEF Begin, setVars, cleanerVars
<1>2. Moves(j) /\ (kind = "rotation" => pc'[j] = "state")
  BY <1>1, JobIs, GotoMoves DEF IControl, IType
<1>3. (\A k \in Jobs : k # j => job'[k] = job[k]) /\ job'[j].kind = kind
  BY <1>1 DEF IRefs, IRefType, JobType
<1>4. Jobs \subseteq Workers /\ j # Closer
  BY JobIs
<1>5. \A w \in Workers : w # j => pc'[w] = pc[w]
  BY <1>2, WorkerIs DEF Moves
<1>6. IRotation'
  BY <1>2, <1>3, <1>4, <1>5 DEF ICleaned, IRotation, Swaps
<1>7. IComing'
  <2>1. \A w \in Workers : pc[w] \in Leaving => pc'[w] \in Leaving
    BY <1>1, <1>5 DEF Leaving
  <2>2. \A k \in Jobs : pc[k] \in Swaps /\ job[k].kind # "rotation" =>
          pc'[k] \in Leaving \/ (pc'[k] \in Swaps /\ job'[k].kind # "rotation")
    BY <1>1, <1>3, <1>4, <1>5 DEF Swaps
  <2> QED BY <1>1, <1>4, <2>1, <2>2, ComingFrame DEF ICleaned
<1>8. IEnd'
  BY <1>1, <1>4, <1>5, OthersAre, EndFrame DEF ICleaned
<1> QED BY <1>6, <1>7, <1>8 DEF ICleaned

(* The new manifest makes the old one obsolete; the job that installed it comes. *)
LEMMA InstallCleaned ==
  ASSUME IControl, IRefs, ICleaned, NEW j \in Jobs, Install(j)
  PROVE  ICleaned'
<1>1. pc[j] = "install" /\ job' = [job EXCEPT ![j].in = {}] /\ Goto(j, "state")
  BY DEF Install
<1>2. Moves(j) /\ pc'[j] = "state"
  BY <1>1, JobIs, GotoMoves DEF IControl, IType
<1>3. \A k \in Jobs : job'[k].kind = job[k].kind
  BY <1>1, KindsKept
<1>4. j # Closer /\ \A k \in Jobs : k # j => pc'[k] = pc[k]
  BY <1>2, JobIs DEF Moves
<1>5. job[j].kind # "rotation"
  BY <1>1 DEF ICleaned, IRotation, Swaps
<1>6. IRotation' /\ IComing'
  BY <1>2, <1>3, <1>4, <1>5 DEF ICleaned, IRotation, IComing, Swaps
<1>7. ~Drained
  BY <1>1, DrainedFacts
<1>8. IEnd'
  BY <1>2, <1>4, <1>7, OthersAre, EndFrame DEF ICleaned, Moves
<1> QED BY <1>6, <1>8 DEF ICleaned

LEMMA StateCleaned ==
  ASSUME IControl, IRefs, ICleaned, NEW j \in Jobs, SwapState(j) \/ UnrefOld(j)
  PROVE  ICleaned'
<1>1. pc[j] \in Swaps /\ UNCHANGED <<oldManifests, disabled>>
  BY DEF SwapState, UnrefOld, Swaps, setVars, cleanerVars
<1>2. /\ Moves(j)
      /\ \/ pc'[j] \in Swaps /\ UNCHANGED job
         \/ pc'[j] \in Leaving /\ UNCHANGED job /\ job[j].kind # "rotation"
         \/ pc'[j] = "idle" /\ job[j].kind = "rotation" /\ Finish(j)
  <2>1. CASE SwapState(j)
    BY <2>1, JobIs, GotoMoves DEF SwapState, IControl, IType, Swaps
  <2>2. CASE UnrefOld(j)
    BY <2>2, JobIs, GotoMoves, FinishGoto DEF UnrefOld, IControl, IType, Leaving
  <2> QED BY <2>1, <2>2
<1>3. j \in Workers /\ j # Closer /\ Jobs \subseteq Workers
  BY JobIs
<1>4. \A k \in Jobs : job'[k].kind = job[k].kind \/ (k = j /\ job'[k].kind = "none" /\ job[j].kind = "rotation")
  BY <1>2, <1>3, FinishKinds
<1>5. \A w \in Workers : w # j => pc'[w] = pc[w]
  BY <1>2, WorkerIs DEF Moves
<1>6. IRotation'
  <2>1. job'[j].kind = "rotation" => pc'[j] \in Swaps
    <3>1. CASE Finish(j)
      BY <1>3, <3>1 DEF Finish, NoJob
    <3> QED BY <1>2, <3>1
  <2> QED BY <1>3, <1>4, <1>5, <2>1 DEF ICleaned, IRotation
<1>7. IComing'
  <2>1. \A w \in Workers : pc[w] \in Leaving => pc'[w] \in Leaving
    BY <1>1, <1>5 DEF Swaps, Leaving
  <2>2. \A k \in Jobs : pc[k] \in Swaps /\ job[k].kind # "rotation" =>
          pc'[k] \in Leaving \/ (pc'[k] \in Swaps /\ job'[k].kind # "rotation")
    BY <1>2, <1>3, <1>4, <1>5
  <2> QED BY <1>1, <1>3, <2>1, <2>2, ComingFrame DEF ICleaned
<1>8. ~Drained
  BY <1>1, DrainedFacts DEF Swaps
<1>9. IEnd'
  BY <1>3, <1>5, <1>8, OthersAre, EndFrame DEF ICleaned
<1> QED BY <1>6, <1>7, <1>9 DEF ICleaned

-----------------------------------------------------------------------------
(* The steps of readers, checkpoints, cleaners and the closer. *)

LEMMA ReaderCleaned ==
  ASSUME IControl, IRefs, ICleaned, NEW r \in Readers, Load(r) \/ UnrefState(r) \/ UnrefStep(r)
  PROVE  ICleaned'
<1>1. UNCHANGED <<oldManifests, disabled, pacing, job>>
  BY DEF Load, UnrefState, UnrefStep, UnrefVersion, UnrefFiles, RemoveVersion, Schedule, readerRest
<1>2. \A x \in Workers \union Readers : x # r /\ x # Cleaner => pc'[x] = pc[x]
  <2>1. CASE Schedule(r)
    BY <2>1, ReaderIs DEF Schedule, IControl, IType, PCType
  <2>2. CASE Load(r) \/ UnrefState(r) \/ UnrefVersion(r) \/ UnrefFiles(r) \/ RemoveVersion(r)
    <3>1. \E s : Goto(r, s)
      BY <2>2 DEF Load, UnrefState, UnrefVersion, UnrefFiles, RemoveVersion
    <3> QED BY <3>1, ReaderIs, GotoMoves DEF IControl, IType, Moves
  <2> QED BY <2>1, <2>2 DEF UnrefStep
<1>3. pc[Cleaner] \in CleanerPC
  BY DEF IControl, IType, PCType
<1>4. \A k \in Jobs : pc'[k] = pc[k]
  BY <1>2, JobIs, ReaderIs
<1>5. \A w \in Workers : pc[w] \in Leaving => pc'[w] \in Leaving
  BY <1>2, <1>3, WorkerIs DEF Leaving, CleanerPC
<1>6. pc'[Closer] = pc[Closer]
  BY <1>2, OthersAre
<1>7. Drained => obsolete' = obsolete /\ cleaning' = cleaning
  <2>1. CASE Load(r)
    BY <2>1 DEF Load
  <2>2. CASE pc[r] # "idle"
    BY <2>2, DrainedFacts
  <2> QED BY <2>1, <2>2 DEF UnrefState, UnrefStep, UnrefVersion, UnrefFiles, RemoveVersion, Schedule
<1> QED BY <1>1, <1>4, <1>5, <1>6, <1>7, PlainOther

LEMMA CheckpointCleaned ==
  ASSUME IControl, IRefs, ICleaned, NEW c \in Checkpoints, CheckpointStep(c) \/ Disable(c)
  PROVE  ICleaned'
<1>0. c \in Workers /\ c # Closer /\ c \notin Jobs
  BY CheckpointIs
<1>1. UNCHANGED <<oldManifests, pacing, obsolete, cleaning>>
  BY DEF CheckpointStep, Disable, DisableWoken, LogLock, Snapshot, CopyManifest, LinkTable, FailCheckpoint, Enable, ckptRest,
         setVars, cleanerVars
<1>2. /\ UNCHANGED pc \/ \E s : Goto(c, s)
      /\ pc[c] \in {"idle", "disable", "pick", "lock", "snapshot", "copy", "link", "enable"}
  BY <1>0, FinishGoto DEF CheckpointStep, Disable, DisableWoken, AwaitTurn, LogLock, Snapshot, CopyManifest, LinkTable,
     FailCheckpoint, Enable
<1>3. Moves(c)
  BY <1>0, <1>2, CheckpointIs, StayMoves, GotoMoves DEF IControl, IType
<1>4. \A k \in Jobs : job'[k] = job[k]
  <2>1. CASE Enable(c)
    BY <1>0, <2>1 DEF Enable, Finish
  <2>2. CASE ~Enable(c)
    BY <2>2 DEF CheckpointStep, Disable, DisableWoken, LogLock, Snapshot, CopyManifest, LinkTable, FailCheckpoint, ckptRest
  <2> QED BY <2>1, <2>2
<1>5. \A w \in Workers : w # c => pc'[w] = pc[w]
  BY <1>3, WorkerIs DEF Moves
<1>6. \A k \in Jobs : pc'[k] = pc[k]
  BY <1>0, <1>5, JobIs
<1>7. pc'[Closer] = pc[Closer]
  BY <1>0, <1>5, OthersAre
<1>8. disabled \in Nat
  BY DEF IControl, IType
<1>9. CASE disabled' = disabled
  BY <1>1, <1>2, <1>4, <1>5, <1>6, <1>7, <1>9, PlainOther DEF Leaving
<1>10. CASE disabled' # disabled
  <2>1. IRotation'
    BY <1>4, <1>6 DEF ICleaned, IRotation
  <2>2. disabled' > 0 \/ pc'[c] \in Leaving
    <3>1. CASE Disable(c)
      BY <1>8, <3>1 DEF Disable
    <3>2. CASE Enable(c)
      <4>1. disabled' = disabled - 1 /\ (disabled > 1 \/ Goto(c, "clean"))
        BY <3>2 DEF Enable
      <4>2. Goto(c, "clean") => pc'[c] = "clean"
        BY <1>0, CheckpointIs, GotoMoves DEF IControl, IType
      <4> QED BY <1>8, <4>1, <4>2 DEF Leaving
    <3>3. CASE ~Disable(c) /\ ~Enable(c)
      BY <1>10, <3>3 DEF CheckpointStep, DisableWoken, LogLock, Snapshot, CopyManifest, LinkTable, FailCheckpoint, cleanerVars
    <3> QED BY <3>1, <3>2, <3>3
  <2>3. IComing'
    BY <1>0, <2>2 DEF IComing
  <2>4. IEnd'
    BY <1>1, <1>7, EndFrame DEF ICleaned
  <2> QED BY <2>1, <2>3, <2>4 DEF ICleaned
<1> QED BY <1>9, <1>10

LEMMA AcquireCleaned ==
  ASSUME IControl, IRefs, ICleaned, NEW w \in Workers, AcquireCleaningTurn(w)
  PROVE  ICleaned'
<1>1. pc[w] \in Leaving /\ disabled' = disabled
  BY DEF AcquireCleaningTurn, Leaving
<1>2. Jobs \subseteq Workers /\ disabled \in Nat
  BY JobIs DEF IControl, IType
<1>3. Drained => w = Closer /\ disabled = 0
  BY <1>1, DrainedFacts
<1>4. w = Closer => Drained
  BY <1>1 DEF Drained, Leaving
<1>5. CASE Goto(w, "turn") /\ UNCHANGED <<obsolete, oldManifests, cleaning, taken, todo, pacing, job, ckpt>>
  <2>1. Moves(w) /\ pc'[w] = "turn"
    BY <1>5, WorkerIs, GotoMoves DEF IControl, IType
  <2>2. \A x \in Workers : x # w => pc'[x] = pc[x]
    BY <2>1, WorkerIs DEF Moves
  <2>3. IRotation'
    BY <1>1, <1>2, <1>5, <2>2 DEF ICleaned, IRotation, Leaving, Swaps
  <2>4. IComing'
    BY <1>1, <1>2, <1>5, <2>1, <2>2, ComingFrame DEF ICleaned, Leaving, Swaps
  <2>5. IEnd'
    BY <1>1, <1>5, <2>1, <2>2, OthersAre DEF ICleaned, IEnd, Leaving
  <2> QED BY <2>3, <2>4, <2>5 DEF ICleaned
<1>6. CASE disabled > 0 /\ Finish(w) /\ UNCHANGED <<obsolete, oldManifests, cleaning, taken, todo, pacing, asleep>>
  <2>1. w # Closer /\ ~Drained
    BY <1>2, <1>3, <1>4, <1>6
  <2>2. Moves(w)
    BY <1>6, FinishWithin
  <2>3. \A x \in Workers : x # w => pc'[x] = pc[x]
    BY <2>2, WorkerIs DEF Moves
  <2>4. \A k \in Jobs : job'[k].kind = job[k].kind \/ (k = w /\ job'[k].kind = "none")
    BY <1>6, FinishKinds
  <2>5. IRotation'
    <3>1. ASSUME NEW k \in Jobs, job'[k].kind = "rotation" PROVE pc'[k] \in Swaps
      <4>1. CASE k = w
        BY <1>6, <3>1, <4>1 DEF Finish, NoJob
      <4>2. CASE k # w
        BY <1>2, <2>3, <2>4, <3>1, <4>2 DEF ICleaned, IRotation
      <4> QED BY <4>1, <4>2
    <3> QED BY <3>1 DEF IRotation
  <2>6. IComing'
    BY <1>1, <1>6 DEF IComing
  <2>7. IEnd'
    BY <2>1, <2>3, OthersAre, EndFrame DEF ICleaned
  <2> QED BY <2>5, <2>6, <2>7 DEF ICleaned
<1>7. CASE ~cleaning /\ TakeObsolete /\ Goto(w, "delete") /\ UNCHANGED <<asleep, job, ckpt>>
  <2>1. Moves(w) /\ pc'[w] = "delete"
    BY <1>7, WorkerIs, GotoMoves DEF IControl, IType
  <2>2. \A x \in Workers : x # w => pc'[x] = pc[x]
    BY <2>1, WorkerIs DEF Moves
  <2>3. obsolete' = {} /\ oldManifests' = {}
    BY <1>7 DEF TakeObsolete
  <2>4. IRotation'
    BY <1>1, <1>2, <1>7, <2>2 DEF ICleaned, IRotation, Leaving, Swaps
  <2>5. IComing'
    BY <2>3 DEF IComing
  <2>6. IEnd'
    <3>1. CASE w = Closer
      BY <2>1, <2>3, <3>1 DEF IEnd
    <3>2. CASE w # Closer
      BY <1>3, <2>2, <3>2, OthersAre, EndFrame DEF ICleaned
    <3> QED BY <3>1, <3>2
  <2> QED BY <2>4, <2>5, <2>6 DEF ICleaned
<1> QED BY <1>5, <1>6, <1>7 DEF AcquireCleaningTurn

LEMMA CleanerStartCleaned ==
  ASSUME IControl, IRefs, ICleaned, CleanerStart
  PROVE  ICleaned'
<1>1. /\ pc[Cleaner] = "start" /\ Goto(Cleaner, "delete") /\ UNCHANGED <<job, cleaning>>
      /\ obsolete' = {} /\ oldManifests' = {}
  BY DEF CleanerStart, TakeObsolete
<1>2. Moves(Cleaner)
  BY <1>1, OthersAre, GotoMoves DEF IControl, IType
<1>3. pc'[Closer] = pc[Closer] /\ \A k \in Jobs : pc'[k] = pc[k]
  BY <1>2, OthersAre, JobIs DEF Moves
<1>4. cleaning
  BY <1>1, OthersAre, DeleterCleans
<1> QED BY <1>1, <1>3, <1>4 DEF ICleaned, IRotation, IComing, IEnd

LEMMA DeleteCleaned ==
  ASSUME IControl, ICleaned, PacedDelete \/ \E w \in Workers : DeleteFile(w)
  PROVE  ICleaned'
<1>1. UNCHANGED <<pc, job, oldManifests, disabled, obsolete, cleaning>> /\ pacing' \subseteq pacing
  BY DEF PacedDelete, DeleteFile, setVars, cleanerVars
<1> QED BY <1>1 DEF ICleaned, IRotation, IComing, IEnd

LEMMA ReleaseCleaned ==
  ASSUME IControl, IRefs, ICleaned, NEW w \in Workers, ReleaseCleaningTurn(w)
  PROVE  ICleaned'
<1>1. pc[w] = "delete" /\ ~cleaning' /\ Finish(w) /\ UNCHANGED <<oldManifests, disabled, obsolete, pacing>>
  BY DEF ReleaseCleaningTurn
<1>2. Moves(w) /\ pc'[w] = (IF w = Closer THEN "deleters" ELSE "idle")
  BY <1>1, FinishWithin
<1>3. \A x \in Workers : x # w => pc'[x] = pc[x]
  BY <1>2, WorkerIs DEF Moves
<1>4. \A k \in Jobs : job'[k].kind = job[k].kind \/ (k = w /\ job'[k].kind = "none")
  BY <1>1, FinishKinds
<1>5. Jobs \subseteq Workers
  BY JobIs
<1>6. IRotation'
  <2>1. ASSUME NEW k \in Jobs, job'[k].kind = "rotation" PROVE pc'[k] \in Swaps
    <3>1. CASE k = w
      BY <1>1, <2>1, <3>1 DEF Finish, NoJob
    <3>2. CASE k # w
      BY <1>3, <1>4, <1>5, <2>1, <3>2 DEF ICleaned, IRotation
    <3> QED BY <3>1, <3>2
  <2> QED BY <2>1 DEF IRotation
<1>7. IComing'
  <2>1. \A x \in Workers : pc[x] \in Leaving => pc'[x] \in Leaving
    BY <1>1, <1>3 DEF Leaving
  <2>2. \A k \in Jobs : pc[k] \in Swaps /\ job[k].kind # "rotation" =>
          pc'[k] \in Leaving \/ (pc'[k] \in Swaps /\ job'[k].kind # "rotation")
    BY <1>1, <1>3, <1>4, <1>5 DEF Swaps
  <2> QED BY <1>1, <1>5, <2>1, <2>2, ComingFrame DEF ICleaned
<1>8. IEnd'
  BY <1>1, <1>2, <1>3, OthersAre DEF ICleaned, IEnd
<1> QED BY <1>6, <1>7, <1>8 DEF ICleaned

(* A database whose readers are gone and which gave up its read state holds the current version only. *)
LEMMA OnlyCurrentHeld ==
  ASSUME IControl, IRefs, Drained
  PROVE  \A v \in 1 .. Len(versions) : versions[v].refs = (IF v = current THEN 1 ELSE 0)
<1>1. /\ \A r \in Readers : pc[r] = "idle"
      /\ ~Swapping
  BY DrainedFacts DEF Swapping
<1>2. ASSUME NEW i \in 1 .. Len(states) PROVE ~(states[i].refs > 0) /\ ~Releasing(i)
  <2>1. StateHolders(i) = {}
    BY <1>1 DEF StateHolders, DBHolds
  <2>2. states[i].refs = 0
    BY <2>1, FS_EmptySet DEF IRefs, IStates
  <2> QED BY <1>1, <2>2 DEF Releasing
<1>3. ASSUME NEW v \in 1 .. Len(versions) PROVE versions[v].refs = (IF v = current THEN 1 ELSE 0)
  <2>1. versions[v].refs = Cardinality(Holders(v))
    BY DEF IRefs, IVersions
  <2>2. CASE v = current
    <3>1. Holders(v) = {0}
      BY <1>2, <2>2 DEF Holders
    <3> QED BY <2>1, <2>2, <3>1, FS_Singleton
  <2>3. CASE v # current
    <3>1. Holders(v) = {}
      BY <1>2, <2>3 DEF Holders
    <3> QED BY <2>1, <2>3, <3>1, FS_EmptySet
  <2> QED BY <2>2, <2>3
<1> QED BY <1>3

(* The same after a step. *)
LEMMA OnlyCurrentHeldNext ==
  ASSUME IControl', IRefs', Drained'
  PROVE  \A v \in 1 .. Len(versions') : versions'[v].refs = (IF v = current' THEN 1 ELSE 0)
<1>0. closed'
  BY DEF IControl, IClosed, Drained
<1>1. /\ \A r \in Readers : pc'[r] = "idle"
      /\ ~Swapping'
  BY <1>0 DEF Swapping, IControl, IClosed
<1>2. ASSUME NEW i \in 1 .. Len(states') PROVE ~(states'[i].refs > 0) /\ ~Releasing(i)'
  <2>1. StateHolders(i)' = {}
    BY <1>1 DEF StateHolders, DBHolds
  <2>2. states'[i].refs = 0
    BY <2>1, FS_EmptySet DEF IRefs, IStates
  <2> QED BY <1>1, <2>2 DEF Releasing
<1>3. ASSUME NEW v \in 1 .. Len(versions') PROVE versions'[v].refs = (IF v = current' THEN 1 ELSE 0)
  <2>1. versions'[v].refs = Cardinality(Holders(v)')
    BY DEF IRefs, IVersions
  <2>2. CASE v = current'
    <3>1. Holders(v)' = {0}
      BY <1>2, <2>2 DEF Holders
    <3> QED BY <2>1, <2>2, <3>1, FS_Singleton
  <2>3. CASE v # current'
    <3>1. Holders(v)' = {}
      BY <1>2, <2>3 DEF Holders
    <3> QED BY <2>1, <2>3, <3>1, FS_EmptySet
  <2> QED BY <2>2, <2>3
<1> QED BY <1>3

(* Close finds no leaked version. *)
LEMMA CloseStateCleaned ==
  ASSUME IControl, IControl', IRefs, IRefs', ICleaned, CloseState
  PROVE  ICleaned'
<1>1. /\ pc[Closer] = "wait" /\ UNCHANGED <<oldManifests, disabled, cleaning, pacing, job>>
      /\ Goto(Closer, IF \A i \in list' : versions'[i].refs = (IF i = Max(list') THEN 1 ELSE 0)
                      THEN "drain" ELSE "leaked")
  BY DEF CloseState, closeRest
<1>2. /\ Moves(Closer)
      /\ pc'[Closer] = (IF \A i \in list' : versions'[i].refs = (IF i = Max(list') THEN 1 ELSE 0)
                        THEN "drain" ELSE "leaked")
  BY <1>1, OthersAre, GotoMoves DEF IControl, IType
<1>3. Drained'
  BY <1>2 DEF Drained
<1>4. \A v \in 1 .. Len(versions') : versions'[v].refs = (IF v = current' THEN 1 ELSE 0)
  BY <1>3, OnlyCurrentHeldNext
<1>5. list' \subseteq 1 .. Len(versions') /\ current' = Max(list')
  BY DEF IRefs, IRefType, current
<1>6. pc'[Closer] = "drain"
  BY <1>2, <1>4, <1>5
<1>7. \A w \in Workers : w # Closer => pc'[w] = pc[w]
  BY <1>2, WorkerIs DEF Moves
<1>8. Jobs \subseteq Workers /\ Closer \notin Jobs
  BY JobIs, OthersAre
<1>9. IRotation'
  BY <1>1, <1>7, <1>8 DEF ICleaned, IRotation
<1>10. IComing'
  BY <1>1, <1>7, <1>8, ComingFrame DEF ICleaned, Leaving
<1>11. IEnd'
  BY <1>6 DEF IEnd
<1> QED BY <1>9, <1>10, <1>11 DEF ICleaned

LEMMA CloserCleaned ==
  ASSUME IControl, IRefs, ICleaned, BeginClose \/ Drain \/ AwaitDeleters
  PROVE  ICleaned'
<1>1. /\ UNCHANGED <<oldManifests, disabled, cleaning, pacing, job, obsolete>>
      /\ \/ pc[Closer] = "idle" /\ Goto(Closer, "wait")
         \/ pc[Closer] = "drain" /\ (UNCHANGED pc \/ Goto(Closer, "clean"))
         \/ pc[Closer] = "drain" /\ ~cleaning /\ obsolete = {} /\ Goto(Closer, "deleters")
         \/ pc[Closer] = "deleters" /\ pacing = {} /\ Goto(Closer, "closed")
  <2>1. UNCHANGED <<oldManifests, disabled, cleaning, pacing, job, obsolete>>
    BY DEF BeginClose, Drain, AwaitDeleters, closeRest
  <2>2. BeginClose => pc[Closer] = "idle" /\ Goto(Closer, "wait")
    BY DEF BeginClose, IControl, IClosed
  <2>3. Drain => \/ pc[Closer] = "drain" /\ (UNCHANGED pc \/ Goto(Closer, "clean"))
                 \/ pc[Closer] = "drain" /\ ~cleaning /\ obsolete = {} /\ Goto(Closer, "deleters")
    BY DEF Drain
  <2>4. AwaitDeleters => pc[Closer] = "deleters" /\ pacing = {} /\ Goto(Closer, "closed")
    BY DEF AwaitDeleters
  <2> QED BY <2>1, <2>2, <2>3, <2>4
<1>2. /\ Moves(Closer)
      /\ \/ pc[Closer] = "idle" /\ pc'[Closer] = "wait"
         \/ pc[Closer] = "drain" /\ pc'[Closer] \in {"drain", "clean"}
         \/ pc[Closer] = "drain" /\ ~cleaning /\ obsolete = {} /\ pc'[Closer] = "deleters"
         \/ pc[Closer] = "deleters" /\ pacing = {} /\ pc'[Closer] = "closed"
  BY <1>1, OthersAre, GotoMoves, StayMoves DEF IControl, IType
<1>3. \A w \in Workers : w # Closer => pc'[w] = pc[w]
  BY <1>2, WorkerIs DEF Moves
<1>4. Jobs \subseteq Workers /\ Closer \notin Jobs /\ pc[Closer] \notin Leaving
  BY <1>2, JobIs, OthersAre DEF Leaving
<1>5. IRotation'
  BY <1>1, <1>3, <1>4 DEF ICleaned, IRotation
<1>6. IComing'
  BY <1>1, <1>3, <1>4, ComingFrame DEF ICleaned
<1>7. pc[Closer] = "drain" => oldManifests = {}
  <2>1. SUFFICES ASSUME pc[Closer] = "drain" PROVE oldManifests = {}
    OBVIOUS
  <2>2. Drained
    BY <2>1 DEF Drained
  <2> QED BY <1>4, <2>2, DrainedFacts DEF ICleaned, IComing, Swaps
<1>8. IEnd'
  BY <1>1, <1>2, <1>7 DEF ICleaned, IEnd
<1> QED BY <1>5, <1>6, <1>8 DEF ICleaned

LEMMA InitCleaned ==
  ASSUME Init
  PROVE  ICleaned
<1>1. /\ \A w \in Workers \union Readers : pc[w] = "idle"
      /\ \A j \in Jobs : job[j].kind = "none"
      /\ oldManifests = {}
  BY DEF Init, NoJob
<1> QED BY <1>1, OthersAre DEF ICleaned, IRotation, IComing, IEnd

LEMMA NextCleaned ==
  ASSUME IControl, IRefs, ICleaned, [Next]_vars
  PROVE  ICleaned'
<1>1. IControl' /\ IRefs'
  BY NextControl, NextRefs
<1>2. ASSUME NEW j \in Jobs, JobStep(j) PROVE ICleaned'
  BY <1>2, PickCleaned, OutputsCleaned, ManifestCleaned, InstallCleaned, StateCleaned DEF JobStep
<1>3. ASSUME NEW j \in Jobs, NEW kind \in {"flush", "compaction", "ingest", "rotation"}, Begin(j, kind) PROVE ICleaned'
  BY <1>3, BeginCleaned
<1>4. ASSUME NEW w \in Workers, CleaningStep(w) PROVE ICleaned'
  BY <1>4, AcquireCleaned, DeleteCleaned, ReleaseCleaned DEF CleaningStep
<1>5. ASSUME NEW r \in Readers, Load(r) \/ UnrefState(r) \/ UnrefStep(r) PROVE ICleaned'
  BY <1>5, ReaderCleaned
<1>6. ASSUME NEW c \in Checkpoints, CheckpointStep(c) \/ Disable(c) PROVE ICleaned'
  BY <1>6, CheckpointCleaned
<1>7. CASE BeginClose \/ CloseStep
  BY <1>1, <1>7, CloseStateCleaned, CloserCleaned DEF CloseStep
<1>8. CASE PacedDelete
  BY <1>8, DeleteCleaned
<1>9. CASE CleanerStart
  BY <1>9, CleanerStartCleaned
<1>10. CASE Terminated \/ UNCHANGED vars
  <2>1. UNCHANGED <<pc, job, oldManifests, disabled, obsolete, cleaning, pacing>>
    BY <1>10 DEF Terminated, vars, setVars, cleanerVars
  <2> QED BY <2>1 DEF ICleaned, IRotation, IComing, IEnd
<1> QED BY <1>2, <1>3, <1>4, <1>5, <1>6, <1>7, <1>8, <1>9, <1>10 DEF Next

-----------------------------------------------------------------------------
(* Nothing is forgotten: what a step may do. *)

(* The versions that keep their tables stay within reach. *)
VersionsKeep ==
  \A v \in 1 .. Len(versions') : ~versions'[v].released =>
    \/ v \in list'
    \/ BuiltBy(v)'
    \/ v \in 1 .. Len(versions) /\ ~versions[v].released /\ v \notin list /\ (BuiltBy(v) => BuiltBy(v)')

LiveKeep   == \A t : IsLive(t) => IsLive(t)' \/ t \in obsolete' \/ t \in Given'
GoingKeep  == \A t \in Going : t \in Going' \/ t \notin disk'
OwnedKeep  == \A t : Owned(t) => Owned(t)' \/ IsLive(t)' \/ t \notin disk'
DiskKeep   == \A t \in disk' : t \in disk \/ Owned(t)'
ZombieKeep ==
  /\ \A t \in zombies' : t \in zombies \/ IsLive(t)
  /\ \A t \in obsolete \union taken \union Given : t \in obsolete' \union taken' \union Given' \/ t \notin zombies'
DirKeep ==
  /\ \A m \in DOMAIN manifests' : m \in DOMAIN manifests \/ Named(m)'
  /\ manifestNum = manifestNum' \/ manifestNum \in oldManifests'
  /\ \A m \in oldManifests \union todo \union pacing :
       m \in oldManifests' \union todo' \union pacing' \/ m \notin DOMAIN manifests'
  /\ \A m : Named(m) => Named(m)' \/ m = manifestNum'

LEMMA KeepFrame ==
  ASSUME IKept, VersionsKeep, LiveKeep, GoingKeep, OwnedKeep, DiskKeep, ZombieKeep, DirKeep
  PROVE  IKept'
<1>1. \A v \in 1 .. Len(versions') : ~versions'[v].released => v \in list' \/ BuiltBy(v)'
  BY DEF IKept, VersionsKeep
<1>2. ASSUME NEW t \in disk' PROVE t \in Going' \/ IsLive(t)' \/ Owned(t)'
  <2>1. CASE t \in disk
    <3>1. t \in Going \/ IsLive(t) \/ Owned(t)
      BY <2>1 DEF IKept
    <3> QED BY <1>2, <3>1 DEF LiveKeep, GoingKeep, OwnedKeep, Going
  <2> QED BY <1>2, <2>1 DEF DiskKeep
<1>3. ASSUME NEW t \in zombies' PROVE t \in obsolete' \union taken' \union Given' \/ IsLive(t)'
  <2>1. t \in obsolete \union taken \union Given \/ IsLive(t)
    BY <1>3 DEF IKept, ZombieKeep
  <2> QED BY <1>3, <2>1 DEF LiveKeep, ZombieKeep
<1>4. ASSUME NEW m \in DOMAIN manifests'
      PROVE  m = manifestNum' \/ m \in oldManifests' \union todo' \union pacing' \/ Named(m)'
  <2>1. CASE m \in DOMAIN manifests
    <3>1. m = manifestNum \/ m \in oldManifests \union todo \union pacing \/ Named(m)
      BY <2>1 DEF IKept
    <3> QED BY <1>4, <3>1 DEF DirKeep
  <2> QED BY <1>4, <2>1 DEF DirKeep
<1> QED BY <1>1, <1>2, <1>3, <1>4 DEF IKept

(* A job that keeps what it has written and built. *)
JobHolds(j) ==
  /\ pc[j] \in Owning => pc'[j] \in Owning /\ job'[j].pending = job[j].pending
  /\ pc[j] \in Built => pc'[j] \in Built /\ job'[j].version = job[j].version /\ job'[j].manifest = job[j].manifest

LEMMA HoldsAll ==
  ASSUME \A j \in Jobs : JobHolds(j)
  PROVE  /\ \A t : Owned(t) => Owned(t)'
         /\ \A v : BuiltBy(v) => BuiltBy(v)'
         /\ \A m : Named(m) => Named(m)'
<1>1. \A t : Owned(t) => Owned(t)'
  BY DEF JobHolds, Owned
<1>2. \A v : BuiltBy(v) => BuiltBy(v)'
  BY DEF JobHolds, BuiltBy
<1>3. \A m : Named(m) => Named(m)'
  BY DEF JobHolds, Named, NewManifest
<1> QED BY <1>1, <1>2, <1>3

(* Versions that change but for their counts. *)
CountsOnly ==
  /\ Len(versions') = Len(versions) /\ list' = list
  /\ \A v \in 1 .. Len(versions) :
       versions'[v].tables = versions[v].tables /\ versions'[v].released = versions[v].released

LEMMA CountsKeep ==
  ASSUME IRefs, CountsOnly, \A v : BuiltBy(v) => BuiltBy(v)'
  PROVE  VersionsKeep /\ LiveSame
<1>1. VersionsKeep
  BY DEF CountsOnly, VersionsKeep
<1>2. LiveSame
  BY RefsOnly DEF CountsOnly
<1> QED BY <1>1, <1>2

LEMMA SameCounts ==
  ASSUME UNCHANGED <<versions, list>>
  PROVE  CountsOnly
BY DEF CountsOnly

heldVars == <<disk, zombies, obsolete, oldManifests, taken, todo, pacing, manifestNum>>

(* A step that leaves files and roles alone. *)
LEMMA QuietKept ==
  ASSUME IRefs, IKept, CountsOnly, UNCHANGED heldVars,
         \A m \in DOMAIN manifests' : m \in DOMAIN manifests \/ Named(m)',
         \A r \in Readers : reader'[r].obsolete = reader[r].obsolete,
         \A j \in Jobs : JobHolds(j)
  PROVE  IKept'
<1>1. UNCHANGED <<disk, zombies, obsolete, oldManifests, taken, todo, pacing, manifestNum>>
  BY DEF heldVars
<1>2. \A t : t \in Given <=> t \in Given'
  BY GivenIs
<1>3. /\ \A t : Owned(t) => Owned(t)'
      /\ \A v : BuiltBy(v) => BuiltBy(v)'
      /\ \A m : Named(m) => Named(m)'
  BY HoldsAll
<1>4. VersionsKeep /\ LiveSame
  BY <1>3, CountsKeep
<1>5. LiveKeep
  BY <1>4 DEF LiveKeep, LiveSame
<1>6. GoingKeep /\ ZombieKeep
  BY <1>1, <1>2 DEF GoingKeep, ZombieKeep, Going
<1>7. OwnedKeep /\ DiskKeep /\ DirKeep
  BY <1>1, <1>3 DEF OwnedKeep, DiskKeep, DirKeep
<1> QED BY <1>4, <1>5, <1>6, <1>7, KeepFrame

(* A quiet step of job j. *)
LEMMA QuietJobKept ==
  ASSUME IRefs, IKept, CountsOnly, UNCHANGED heldVars, UNCHANGED reader,
         \A m \in DOMAIN manifests' : m \in DOMAIN manifests \/ Named(m)',
         NEW j \in Jobs, Moves(j), \A k \in Jobs : k # j => job'[k] = job[k], JobHolds(j)
  PROVE  IKept'
<1>1. ASSUME NEW k \in Jobs, k # j PROVE JobHolds(k)
  BY <1>1, JobIs DEF Moves, JobHolds
<1> QED BY <1>1, QuietKept

-----------------------------------------------------------------------------
(* Nothing is forgotten: quiet steps. *)

LEMMA PickKept ==
  ASSUME IControl, IRefs, IFiles, IKept, NEW j \in Jobs, LogLock(j) \/ Pick(j) \/ PickNothing(j)
  PROVE  IKept'
<1>1. UNCHANGED heldVars /\ UNCHANGED <<reader, versions, list, manifests>>
  BY DEF LogLock, Pick, PickNothing, heldVars, diskVars, setVars, numVars, cleanerVars, listVars
<1>2. /\ UNCHANGED pc \/ \E s : Goto(j, s)
      /\ pc[j] \in {"pick", "picking"} \/ (pc[j] = "lock" /\ UNCHANGED job /\ (UNCHANGED pc \/ Goto(j, "edit")))
  BY DEF LogLock, Pick, PickNothing
<1>3. Moves(j) /\ (pc[j] \in {"pick", "picking"} \/ (pc[j] = "lock" /\ UNCHANGED job /\ pc'[j] \in {"lock", "edit"}))
  BY <1>2, JobIs, GotoMoves, StayMoves DEF IControl, IType
<1>4. JobHolds(j)
  BY <1>3 DEF JobHolds, Owning, Built
<1>5. \A k \in Jobs : k # j => job'[k] = job[k]
  BY DEF LogLock, Pick, PickNothing, IRefs, IRefType
<1> QED BY <1>1, <1>3, <1>4, <1>5, SameCounts, QuietJobKept

LEMMA BeginKept ==
  ASSUME IControl, IRefs, IFiles, IKept, NEW j \in Jobs,
         NEW kind \in {"flush", "compaction", "ingest", "rotation"}, Begin(j, kind)
  PROVE  IKept'
<1>1. UNCHANGED heldVars /\ UNCHANGED <<reader, versions, list, manifests>>
  BY DEF Begin, heldVars, diskVars, setVars, numVars, cleanerVars, listVars
<1>2. pc[j] = "idle" /\ job' = [job EXCEPT ![j].kind = kind] /\ \E s : Goto(j, s)
  BY DEF Begin
<1>3. Moves(j)
  BY <1>2, JobIs, GotoMoves DEF IControl, IType
<1>4. JobHolds(j)
  BY <1>2 DEF JobHolds, Owning, Built
<1>5. \A k \in Jobs : k # j => job'[k] = job[k]
  BY <1>2 DEF IRefs, IRefType
<1> QED BY <1>1, <1>3, <1>4, <1>5, SameCounts, QuietJobKept

LEMMA NoOutputKept ==
  ASSUME IControl, IRefs, IFiles, IKept, NEW j \in Jobs, NoOutput(j)
  PROVE  IKept'
<1>1. UNCHANGED heldVars /\ UNCHANGED <<reader, versions, list, manifests>>
  BY DEF NoOutput, heldVars, diskVars, setVars, numVars, cleanerVars, listVars
<1>2. pc[j] = "write" /\ (Finish(j) \/ (Goto(j, "sync") /\ UNCHANGED job))
  BY DEF NoOutput
<1>3. Moves(j)
  BY <1>2, JobIs, GotoMoves, FinishWithin DEF IControl, IType
<1>4. JobHolds(j)
  BY <1>2 DEF JobHolds, Owning, Built
<1>5. \A k \in Jobs : k # j => job'[k] = job[k]
  BY <1>2 DEF Finish
<1> QED BY <1>1, <1>3, <1>4, <1>5, SameCounts, QuietJobKept

LEMMA SyncOutputsKept ==
  ASSUME IControl, IRefs, IFiles, IKept, NEW j \in Jobs, SyncOutputs(j)
  PROVE  IKept'
<1>1. UNCHANGED heldVars /\ UNCHANGED <<reader, versions, list, manifests>>
  BY DEF SyncOutputs, heldVars, setVars, numVars, cleanerVars, listVars
<1>2. pc[j] = "sync" /\ Goto(j, "lock") /\ UNCHANGED job
  BY DEF SyncOutputs
<1>3. Moves(j) /\ pc'[j] = "lock"
  BY <1>2, JobIs, GotoMoves DEF IControl, IType
<1>4. JobHolds(j)
  BY <1>2, <1>3 DEF JobHolds, Owning, Built
<1> QED BY <1>1, <1>2, <1>3, <1>4, SameCounts, QuietJobKept

(* The manifest is created, written and named in CURRENT. *)
LEMMA ManifestKept ==
  ASSUME IControl, IRefs, IFiles, IKept, NEW j \in Jobs, CreateManifest(j) \/ AppendEdit(j) \/ SetCurrentFile(j)
  PROVE  IKept'
<1>1. UNCHANGED heldVars /\ UNCHANGED <<reader, versions, list, job>>
  BY DEF CreateManifest, AppendEdit, SetCurrentFile, heldVars, setVars, numVars, cleanerVars, listVars
<1>2. pc[j] \in {"create", "append", "setcurrent"} /\ \E s \in {"append", "setcurrent", "install"} : Goto(j, s)
  BY DEF CreateManifest, AppendEdit, SetCurrentFile
<1>3. Moves(j) /\ pc'[j] \in {"append", "setcurrent", "install"}
  BY <1>2, JobIs, GotoMoves DEF IControl, IType
<1>4. JobHolds(j)
  BY <1>1, <1>2, <1>3 DEF JobHolds, Owning, Built
<1>5. ASSUME NEW m \in DOMAIN manifests' PROVE m \in DOMAIN manifests \/ Named(m)'
  <2>1. CASE CreateManifest(j)
    <3>1. m \in DOMAIN manifests \/ m = job[j].manifest
      BY <1>5, <2>1 DEF CreateManifest
    <3>2. job[j].manifest # 0
      BY <2>1 DEF CreateManifest, IFiles, IManifests, ManifestOK
    <3>3. NewManifest(j)'
      BY <1>1, <1>3, <3>2 DEF NewManifest, Built
    <3> QED BY <1>1, <3>1, <3>3 DEF Named
  <2>2. CASE AppendEdit(j) \/ SetCurrentFile(j)
    BY <1>5, <2>2 DEF AppendEdit, SetCurrentFile
  <2> QED BY <2>1, <2>2
<1> QED BY <1>1, <1>3, <1>4, <1>5, SameCounts, QuietJobKept

LEMMA SwapStateKept ==
  ASSUME IControl, IRefs, IFiles, IKept, NEW j \in Jobs, SwapState(j)
  PROVE  IKept'
<1>1. UNCHANGED heldVars /\ UNCHANGED <<reader, list, manifests, job>>
  BY DEF SwapState, heldVars, diskVars, setVars, numVars, cleanerVars
<1>2. /\ pc[j] = "state" /\ Goto(j, "unrefold")
      /\ versions' = [versions EXCEPT ![current].refs = versions[current].refs + 1]
  BY DEF SwapState
<1>3. Moves(j)
  BY <1>2, JobIs, GotoMoves DEF IControl, IType
<1>4. JobHolds(j)
  BY <1>2 DEF JobHolds, Owning, Built
<1>5. CountsOnly
  <2>1. versions \in Seq(VersionType)
    BY DEF IRefs, IRefType
  <2> QED BY <1>1, <1>2, <2>1 DEF CountsOnly, VersionType
<1> QED BY <1>1, <1>3, <1>4, <1>5, QuietJobKept

LEMMA ReaderKept ==
  ASSUME IControl, IRefs, IFiles, IKept, NEW r \in Readers, Load(r) \/ UnrefState(r) \/ UnrefVersion(r) \/ Schedule(r)
  PROVE  IKept'
<1>1. UNCHANGED heldVars /\ UNCHANGED <<list, manifests, job>>
  BY DEF Load, UnrefState, UnrefVersion, Schedule, readerRest, heldVars, diskVars, numVars, listVars
<1>2. \A k \in Jobs : pc'[k] = pc[k]
  <2>1. CASE Schedule(r)
    BY <2>1, JobIs, ReaderIs DEF Schedule, IControl, IType, PCType
  <2>2. CASE Load(r) \/ UnrefState(r) \/ UnrefVersion(r)
    <3>1. \E s : Goto(r, s)
      BY <2>2 DEF Load, UnrefState, UnrefVersion
    <3> QED BY <3>1, JobIs, ReaderIs, GotoMoves DEF IControl, IType, Moves
  <2> QED BY <2>1, <2>2
<1>3. \A k \in Jobs : JobHolds(k)
  BY <1>1, <1>2 DEF JobHolds
<1>4. CountsOnly
  <2>1. CASE UnrefVersion(r)
    <3>1. PICK v : versions' = [versions EXCEPT ![v].refs = versions[v].refs - 1]
      BY <2>1 DEF UnrefVersion
    <3>2. versions \in Seq(VersionType)
      BY DEF IRefs, IRefType
    <3> QED BY <1>1, <3>1, <3>2 DEF CountsOnly, VersionType
  <2>2. CASE Load(r) \/ UnrefState(r) \/ Schedule(r)
    BY <2>2, SameCounts DEF Load, UnrefState, Schedule, listVars
  <2> QED BY <2>1, <2>2
<1>5. \A q \in Readers : reader'[q].obsolete = reader[q].obsolete
  <2>1. pc[r] # "remove" /\ reader \in [Readers -> ReaderType]
    BY ReadersKnown DEF Load, UnrefState, UnrefVersion, Schedule
  <2>2. reader[r].obsolete = {}
    BY <2>1 DEF IFiles, IObsolete, ObsoleteOK
  <2>3. UNCHANGED reader \/ reader' = [reader EXCEPT ![r] = NoReader] \/ reader' = [reader EXCEPT ![r].state = Len(states)]
    BY DEF Load, UnrefState, UnrefVersion, Schedule
  <2>4. NoReader.obsolete = {}
    BY DEF NoReader
  <2> QED BY <2>1, <2>2, <2>3, <2>4 DEF ReaderType
<1> QED BY <1>1, <1>3, <1>4, <1>5, QuietKept

LEMMA CheckpointKept ==
  ASSUME IControl, IRefs, IFiles, IKept, NEW c \in Checkpoints, CheckpointStep(c) \/ Disable(c)
  PROVE  IKept'
<1>0. c \in Workers /\ c # Closer /\ c \notin Jobs
  BY CheckpointIs
<1>1. UNCHANGED heldVars /\ UNCHANGED <<list, versions, manifests, reader>>
  BY DEF CheckpointStep, Disable, DisableWoken, LogLock, Snapshot, CopyManifest, LinkTable, FailCheckpoint, Enable, ckptRest,
         heldVars, diskVars, setVars, numVars, cleanerVars, listVars
<1>2. UNCHANGED pc \/ \E s : Goto(c, s)
  BY <1>0, FinishGoto DEF CheckpointStep, Disable, DisableWoken, AwaitTurn, LogLock, Snapshot, CopyManifest, LinkTable,
     FailCheckpoint, Enable
<1>3. Moves(c)
  BY <1>2, CheckpointIs, StayMoves, GotoMoves DEF IControl, IType
<1>4. \A k \in Jobs : job'[k] = job[k]
  <2>1. CASE Enable(c)
    BY <1>0, <2>1 DEF Enable, Finish
  <2>2. CASE ~Enable(c)
    BY <2>2 DEF CheckpointStep, Disable, DisableWoken, LogLock, Snapshot, CopyManifest, LinkTable, FailCheckpoint, ckptRest
  <2> QED BY <2>1, <2>2
<1>5. \A k \in Jobs : JobHolds(k)
  BY <1>0, <1>3, <1>4, JobIs DEF JobHolds, Moves
<1> QED BY <1>1, <1>5, SameCounts, QuietKept

LEMMA CloserKept ==
  ASSUME IControl, IRefs, IFiles, IKept, BeginClose \/ Drain \/ AwaitDeleters \/ Terminated \/ UNCHANGED vars
  PROVE  IKept'
<1>1. UNCHANGED heldVars /\ UNCHANGED <<list, versions, manifests, reader, job>>
  BY DEF BeginClose, Drain, AwaitDeleters, Terminated, vars, closeRest, heldVars, diskVars, setVars, numVars, cleanerVars, listVars
<1>2. UNCHANGED pc \/ \E s : Goto(Closer, s)
  BY DEF BeginClose, Drain, AwaitDeleters, Terminated, vars
<1>3. Moves(Closer)
  BY <1>2, OthersAre, StayMoves, GotoMoves DEF IControl, IType
<1>4. \A k \in Jobs : JobHolds(k)
  BY <1>1, <1>3, JobIs DEF JobHolds, Moves
<1> QED BY <1>1, <1>4, SameCounts, QuietKept

-----------------------------------------------------------------------------
(* Nothing is forgotten: the deletion of files. *)

LEMMA HoldsUnmoved ==
  ASSUME NEW w \in Workers, Moves(w), \A k \in Jobs : k # w => job'[k] = job[k], w \in Jobs => pc[w] \notin Owning
  PROVE  \A k \in Jobs : JobHolds(k)
<1>1. ASSUME NEW k \in Jobs PROVE JobHolds(k)
  <2>1. CASE k = w
    BY <2>1 DEF JobHolds, Owning
  <2>2. CASE k # w
    BY <2>2, JobIs DEF JobHolds, Moves
  <2> QED BY <2>1, <2>2
<1> QED BY <1>1

(* Files are taken over by the one whose turn it is; nobody else has any. *)
LEMMA TakeKept ==
  ASSUME IRefs, IKept, TakeObsolete, taken = {}, todo = {}, \A j \in Jobs : JobHolds(j),
         UNCHANGED <<disk, zombies, manifests, manifestNum, versions, list, reader>>
  PROVE  IKept'
<1>1. /\ taken' = obsolete /\ obsolete' = {} /\ oldManifests' = {}
      /\ todo' \union pacing' = pacing \union obsolete \union oldManifests
  BY DEF TakeObsolete
<1>2. Given' = Given
  BY DEF Given
<1>3. /\ \A t : Owned(t) => Owned(t)'
      /\ \A v : BuiltBy(v) => BuiltBy(v)'
      /\ \A m : Named(m) => Named(m)'
  BY HoldsAll
<1>4. VersionsKeep /\ LiveSame
  BY <1>3, SameCounts, CountsKeep
<1>5. LiveKeep
  BY <1>4 DEF LiveKeep, LiveSame
<1>6. GoingKeep /\ ZombieKeep
  BY <1>1, <1>2 DEF GoingKeep, ZombieKeep, Going
<1>7. OwnedKeep /\ DiskKeep
  BY <1>3 DEF OwnedKeep, DiskKeep
<1>8. DirKeep
  BY <1>1, <1>3 DEF DirKeep
<1> QED BY <1>4, <1>5, <1>6, <1>7, <1>8, KeepFrame

LEMMA AcquireKept ==
  ASSUME IControl, IRefs, IFiles, IKept, NEW w \in Workers, AcquireCleaningTurn(w)
  PROVE  IKept'
<1>1. /\ UNCHANGED <<disk, zombies, manifests, manifestNum, versions, list, reader>>
      /\ pc[w] \in {"clean", "turn"}
  BY DEF AcquireCleaningTurn, diskVars, numVars, listVars
<1>2. Moves(w)
  BY WorkerIs, GotoMoves, FinishWithin DEF AcquireCleaningTurn, IControl, IType
<1>3. \A k \in Jobs : k # w => job'[k] = job[k]
  BY DEF AcquireCleaningTurn, Finish
<1>4. \A j \in Jobs : JobHolds(j)
  BY <1>1, <1>2, <1>3, HoldsUnmoved DEF Owning, Built
<1>5. CASE UNCHANGED <<obsolete, oldManifests, taken, todo, pacing>>
  BY <1>1, <1>4, <1>5, SameCounts, QuietKept DEF heldVars
<1>6. CASE ~cleaning /\ TakeObsolete
  <2>1. \A x \in Workers : pc[x] # "delete"
    BY <1>6, DeleterCleans
  <2>2. taken = {} /\ todo = {}
    BY <2>1 DEF IControl, ITurn
  <2> QED BY <1>1, <1>4, <1>6, <2>2, TakeKept
<1> QED BY <1>5, <1>6 DEF AcquireCleaningTurn

LEMMA CleanerStartKept ==
  ASSUME IControl, IRefs, IFiles, IKept, CleanerStart
  PROVE  IKept'
<1>1. /\ UNCHANGED <<disk, zombies, manifests, manifestNum, versions, list, reader, job>>
      /\ pc[Cleaner] = "start" /\ TakeObsolete /\ Goto(Cleaner, "delete")
  BY DEF CleanerStart, diskVars, numVars, listVars
<1>2. Moves(Cleaner)
  BY <1>1, OthersAre, GotoMoves DEF IControl, IType
<1>3. \A j \in Jobs : JobHolds(j)
  BY <1>1, <1>2, OthersAre, HoldsUnmoved
<1>4. \A x \in Workers : pc[x] # "delete"
  BY <1>1, OthersAre DEF IControl, ITurn, Turning
<1>5. taken = {} /\ todo = {}
  BY <1>4 DEF IControl, ITurn
<1> QED BY <1>1, <1>3, <1>5, TakeKept

LEMMA RemoveKept ==
  ASSUME IRefs, IKept, NEW f, RemoveFile(f), todo \ {f} \subseteq todo', pacing \ {f} \subseteq pacing',
         UNCHANGED <<pc, manifestNum, zombies, obsolete, oldManifests, taken, versions, list, job, reader>>
  PROVE  IKept'
<1>1. f \notin disk' /\ f \notin DOMAIN manifests' /\ disk' \subseteq disk /\ DOMAIN manifests' \subseteq DOMAIN manifests
  BY DEF RemoveFile
<1>2. Given' = Given
  BY DEF Given
<1>3. \A j \in Jobs : JobHolds(j)
  BY DEF JobHolds
<1>4. /\ \A t : Owned(t) => Owned(t)'
      /\ \A v : BuiltBy(v) => BuiltBy(v)'
      /\ \A m : Named(m) => Named(m)'
  BY <1>3, HoldsAll
<1>5. VersionsKeep /\ LiveSame
  BY <1>4, SameCounts, CountsKeep
<1>6. LiveKeep
  BY <1>5 DEF LiveKeep, LiveSame
<1>7. GoingKeep /\ ZombieKeep
  BY <1>1, <1>2 DEF GoingKeep, ZombieKeep, Going
<1>8. OwnedKeep /\ DiskKeep
  BY <1>1, <1>4 DEF OwnedKeep, DiskKeep
<1>9. DirKeep
  BY <1>1, <1>4 DEF DirKeep
<1> QED BY <1>5, <1>6, <1>7, <1>8, <1>9, KeepFrame

LEMMA DeleteKept ==
  ASSUME IControl, IRefs, IFiles, IKept, PacedDelete \/ \E w \in Workers : DeleteFile(w)
  PROVE  IKept'
<1>1. UNCHANGED <<pc, manifestNum, zombies, obsolete, oldManifests, taken, versions, list, job, reader>>
  BY DEF PacedDelete, DeleteFile, setVars, numVars, listVars, cleanerVars
<1>2. PICK f : RemoveFile(f) /\ todo \ {f} \subseteq todo' /\ pacing \ {f} \subseteq pacing'
  BY DEF PacedDelete, DeleteFile, cleanerVars
<1> QED BY <1>1, <1>2, RemoveKept

LEMMA ReleaseKept ==
  ASSUME IControl, IRefs, IFiles, IKept, NEW w \in Workers, ReleaseCleaningTurn(w)
  PROVE  IKept'
<1>1. /\ pc[w] = "delete" /\ zombies' = zombies \ taken /\ taken' = {} /\ Finish(w)
      /\ UNCHANGED <<disk, manifests, manifestNum, obsolete, oldManifests, todo, pacing, versions, list, reader>>
  BY DEF ReleaseCleaningTurn, diskVars, numVars, listVars
<1>2. Moves(w) /\ \A k \in Jobs : k # w => job'[k] = job[k]
  BY <1>1, FinishWithin DEF Finish
<1>3. \A j \in Jobs : JobHolds(j)
  BY <1>1, <1>2, HoldsUnmoved DEF Owning, Built
<1>4. /\ \A t : Owned(t) => Owned(t)'
      /\ \A v : BuiltBy(v) => BuiltBy(v)'
      /\ \A m : Named(m) => Named(m)'
  BY <1>3, HoldsAll
<1>5. VersionsKeep /\ LiveSame
  BY <1>1, <1>4, SameCounts, CountsKeep
<1>6. LiveKeep
  BY <1>5 DEF LiveKeep, LiveSame
<1>7. Given' = Given
  BY <1>1 DEF Given
<1>8. GoingKeep /\ ZombieKeep
  BY <1>1, <1>7 DEF GoingKeep, ZombieKeep, Going
<1>9. OwnedKeep /\ DiskKeep /\ DirKeep
  BY <1>1, <1>4 DEF OwnedKeep, DiskKeep, DirKeep
<1> QED BY <1>5, <1>6, <1>8, <1>9, KeepFrame

-----------------------------------------------------------------------------
(* Nothing is forgotten: what jobs write. *)

LEMMA NewOutputKept ==
  ASSUME IControl, IRefs, IFiles, IKept, NEW j \in Jobs, NewOutput(j)
  PROVE  IKept'
<1> PICK n : n = nextFile
  OBVIOUS
<1>1. /\ pc[j] = "write" /\ disk' = disk \union {n} /\ Goto(j, "sync")
      /\ job' = [job EXCEPT ![j].out = {n}, ![j].pending = {n}]
      /\ UNCHANGED <<manifests, manifestNum, zombies, obsolete, oldManifests, taken, todo, pacing, versions, list, reader>>
  BY DEF NewOutput, setVars, listVars, cleanerVars
<1>2. Moves(j) /\ pc'[j] = "sync"
  BY <1>1, JobIs, GotoMoves DEF IControl, IType
<1>3. (\A k \in Jobs : k # j => job'[k] = job[k]) /\ job'[j].pending = {n}
  BY <1>1 DEF IRefs, IRefType, JobType
<1>4. \A k \in Jobs : JobHolds(k)
  BY <1>1, <1>2, <1>3, JobIs, HoldsUnmoved DEF Owning, Built
<1>5. /\ \A t : Owned(t) => Owned(t)'
      /\ \A v : BuiltBy(v) => BuiltBy(v)'
      /\ \A m : Named(m) => Named(m)'
  BY <1>4, HoldsAll
<1>6. VersionsKeep /\ LiveSame
  BY <1>1, <1>5, SameCounts, CountsKeep
<1>7. LiveKeep
  BY <1>6 DEF LiveKeep, LiveSame
<1>8. Given' = Given
  BY <1>1 DEF Given
<1>9. GoingKeep /\ ZombieKeep
  BY <1>1, <1>8 DEF GoingKeep, ZombieKeep, Going
<1>10. Owned(n)'
  BY <1>2, <1>3 DEF Owned, Owning
<1>11. DiskKeep /\ OwnedKeep /\ DirKeep
  BY <1>1, <1>5, <1>10 DEF OwnedKeep, DiskKeep, DirKeep
<1> QED BY <1>6, <1>7, <1>9, <1>11, KeepFrame

LEMMA IngestCleanupKept ==
  ASSUME IControl, IRefs, IFiles, IKept, NEW j \in Jobs, IngestCleanup(j)
  PROVE  IKept'
<1>1. /\ pc[j] = "cleanup" /\ disk' = disk \ job[j].pending /\ Finish(j)
      /\ UNCHANGED <<manifests, manifestNum, zombies, obsolete, oldManifests, taken, todo, pacing, versions, list, reader>>
  BY DEF IngestCleanup, setVars, numVars, listVars, cleanerVars
<1>2. Moves(j) /\ \A k \in Jobs : k # j => job'[k] = job[k]
  BY <1>1, JobIs, FinishWithin DEF Finish
<1>3. \A k \in Jobs : k # j => JobHolds(k)
  BY <1>2, JobIs DEF JobHolds, Moves
<1>4. pc[j] \notin Built
  BY <1>1 DEF Built
<1>5. \A t : Owned(t) => Owned(t)' \/ t \notin disk'
  BY <1>1, <1>3 DEF Owned, JobHolds
<1>6. /\ \A v : BuiltBy(v) => BuiltBy(v)'
      /\ \A m : Named(m) => Named(m)'
  BY <1>3, <1>4 DEF BuiltBy, Named, NewManifest, JobHolds
<1>7. VersionsKeep /\ LiveSame
  BY <1>1, <1>6, SameCounts, CountsKeep
<1>8. LiveKeep
  BY <1>7 DEF LiveKeep, LiveSame
<1>9. Given' = Given
  BY <1>1 DEF Given
<1>10. GoingKeep /\ ZombieKeep
  BY <1>1, <1>9 DEF GoingKeep, ZombieKeep, Going
<1>11. DiskKeep /\ OwnedKeep /\ DirKeep
  BY <1>1, <1>5, <1>6 DEF OwnedKeep, DiskKeep, DirKeep
<1> QED BY <1>7, <1>8, <1>10, <1>11, KeepFrame

LEMMA EditKept ==
  ASSUME IControl, IRefs, IFiles, IKept, NEW j \in Jobs, NEW replace \in BOOLEAN, Edit(j, replace)
  PROVE  IKept'
<1> PICK n, x : /\ n = Len(versions)
                /\ x = [tables |-> (versions[current].tables \ job[j].in) \union job[j].out, refs |-> 0, released |-> FALSE]
  OBVIOUS
<1>1. /\ pc[j] = "edit" /\ versions' = Append(versions, x)
      /\ \E m : job' = [job EXCEPT ![j].version = n + 1, ![j].manifest = m]
      /\ \E s \in {"create", "append"} : Goto(j, s)
      /\ UNCHANGED <<disk, manifests, manifestNum, zombies, obsolete, oldManifests, taken, todo, pacing, list, reader>>
  BY DEF Edit, diskVars, setVars, cleanerVars
<1>2. Moves(j) /\ pc'[j] \in {"create", "append"}
  BY <1>1, JobIs, GotoMoves DEF IControl, IType
<1>3. /\ \A k \in Jobs : k # j => job'[k] = job[k]
      /\ job'[j].version = n + 1 /\ job'[j].pending = job[j].pending
  BY <1>1 DEF IRefs, IRefType, JobType
<1>4. \A k \in Jobs : JobHolds(k)
  <2>1. JobHolds(j)
    BY <1>1, <1>2, <1>3 DEF JobHolds, Owning, Built
  <2>2. \A k \in Jobs : k # j => JobHolds(k)
    BY <1>2, <1>3, JobIs DEF JobHolds, Moves
  <2> QED BY <2>1, <2>2
<1>5. /\ \A t : Owned(t) => Owned(t)'
      /\ \A v : BuiltBy(v) => BuiltBy(v)'
      /\ \A m : Named(m) => Named(m)'
  BY <1>4, HoldsAll
<1>6. /\ IRefType /\ versions \in Seq(VersionType) /\ n \in Nat /\ list \subseteq 1 .. n
  BY VersionFacts DEF IRefs, IRefType
<1>7. /\ Len(versions') = n + 1
      /\ \A v \in 1 .. n : versions'[v] = versions[v]
  BY <1>1, <1>6, SMTT(30)
<1>8. BuiltBy(n + 1)'
  BY <1>2, <1>3 DEF BuiltBy, Built
<1>9. VersionsKeep
  <2>1. ASSUME NEW v \in 1 .. Len(versions') PROVE v \in 1 .. n \/ v = n + 1
    BY <1>6, <1>7, <2>1
  <2> QED BY <1>1, <1>5, <1>7, <1>8, <2>1 DEF VersionsKeep
<1>10. LiveKeep
  <2>1. \A v \in Listed : v \in Listed' /\ versions'[v].tables = versions[v].tables
    BY <1>1, <1>6, <1>7 DEF Listed
  <2> QED BY <2>1 DEF LiveKeep, IsLive
<1>11. Given' = Given
  BY <1>1 DEF Given
<1>12. GoingKeep /\ ZombieKeep
  BY <1>1, <1>11 DEF GoingKeep, ZombieKeep, Going
<1>13. DiskKeep /\ OwnedKeep /\ DirKeep
  BY <1>1, <1>5 DEF OwnedKeep, DiskKeep, DirKeep
<1> QED BY <1>9, <1>10, <1>12, <1>13, KeepFrame


-----------------------------------------------------------------------------
(* Nothing is forgotten: the release of a version. *)

(* A table of a released version that is not among its last references is live in another one. *)
LEMMA ReleaseKeeps ==
  ASSUME IRefs, IFiles, IKept, NEW v, Releases(v)
  PROVE  \A t : IsLive(t) => IsLive(t)' \/ t \in LastReferences(versions, v)
<1>1. /\ Listed \subseteq 1 .. Len(versions) /\ v \in 1 .. Len(versions)
      /\ current \in Listed /\ current \in Listed' /\ versions \in Seq(VersionType)
  BY CurrentHeld DEF IRefs, IRefType, Listed, Releases
<1>2. ASSUME NEW k \in Listed', NEW t \in versions[k].tables PROVE IsLive(t)'
  BY <1>1, <1>2 DEF IsLive, Releases
<1>3. ASSUME NEW t, IsLive(t), t \notin LastReferences(versions, v) PROVE IsLive(t)'
  <2>1. PICK k \in Listed : t \in versions[k].tables
    BY <1>3 DEF IsLive
  <2>2. CASE k # v
    BY <1>2, <2>1, <2>2 DEF Releases
  <2>3. CASE k = v
    <3>1. PICK i \in 1 .. Len(versions) : i # v /\ ~versions[i].released /\ t \in versions[i].tables
      <4>1. DOMAIN versions = 1 .. Len(versions)
        BY <1>1
      <4> QED BY <1>3, <2>1, <2>3, <4>1 DEF LastReferences
    <3>2. CASE i \in list
      BY <1>2, <3>1, <3>2 DEF Releases, Listed
    <3>3. CASE i \notin list
      <4>1. PICK j \in Jobs : pc[j] \in Built /\ job[j].version = i
        BY <3>1, <3>3 DEF IKept, BuiltBy
      <4>2. versions[i].tables = (Tables \ job[j].in) \union job[j].out
        BY <4>1, JobKnown DEF JobOK
      <4>3. t \notin job[j].pending
        BY <2>1, <4>1, OwnedFacts DEF OwnedOK, Owning
      <4>4. t \in Tables
        <5>1. job[j].out = job[j].pending \/ job[j].out = job[j].in
          BY <4>1, JobKnown DEF JobOK, Owning, Built
        <5>2. job[j].in \subseteq Tables
          BY JobKnown DEF JobOK
        <5> QED BY <3>1, <4>2, <4>3, <5>1, <5>2
      <4> QED BY <1>1, <1>2, <4>4 DEF Tables
    <3> QED BY <3>2, <3>3
  <2> QED BY <2>2, <2>3
<1> QED BY <1>3

(* Versions leave the list when they are released. *)
ListKeep ==
  /\ Len(versions') = Len(versions)
  /\ \A v \in 1 .. Len(versions) : ~versions'[v].released => ~versions[v].released /\ (v \in list => v \in list')

LEMMA ListKeepOK ==
  ASSUME ListKeep, \A v : BuiltBy(v) => BuiltBy(v)'
  PROVE  VersionsKeep
BY DEF ListKeep, VersionsKeep

(* readState.unrefLocked. *)
LEMMA LockedKeeps ==
  ASSUME IRefs, IRefs', IFiles, IKept, current' = current, NEW i \in 1 .. Len(states), UnrefStateLocked(i)
  PROVE  ListKeep /\ obsolete \subseteq obsolete' /\ \A t : IsLive(t) => IsLive(t)' \/ t \in obsolete'
<1>1. CASE states[i].refs # 1
  <2>1. UNCHANGED <<versions, list, obsolete>>
    BY <1>1 DEF UnrefStateLocked, listVars
  <2>2. LiveSame
    BY <2>1, SameVersions
  <2> QED BY <2>1, <2>2 DEF ListKeep, LiveSame
<1>2. CASE states[i].refs = 1
  <2>0. PICK v, s : v = states[i].version /\ s = UnrefLocked(VersionState, v)
    OBVIOUS
  <2>1. versions' = s.versions /\ list' = s.list /\ obsolete' = s.obsolete
    BY <1>2, <2>0 DEF UnrefStateLocked, SetVersions
  <2>2. IRefType /\ v \in 1 .. Len(versions) /\ v \in list /\ ~versions[v].released /\ list \subseteq 1 .. Len(versions)
    BY <1>2, <2>0, LiveListed, StateFacts, SMTT(40) DEF IRefs, IRefType
  <2>3. Unreffed(s, v)
    BY <2>0, <2>2, UnrefLockedIs
  <2>4. /\ \A k \in 1 .. Len(versions) : versions'[k].tables = versions[k].tables
        /\ \A k \in 1 .. Len(versions) : k # v => versions'[k] = versions[k]
        /\ Len(versions') = Len(versions)
    BY <2>1, <2>3 DEF Unreffed
  <2>5. CASE versions[v].refs > 1
    <3>1. versions'[v].released = versions[v].released /\ list' = list /\ obsolete' = obsolete
      BY <2>1, <2>3, <2>5 DEF Unreffed
    <3>2. LiveSame
      BY <2>4, <3>1, RefsOnly
    <3> QED BY <2>4, <3>1, <3>2 DEF LiveSame, ListKeep
  <2>6. CASE ~(versions[v].refs > 1)
    <3>1. /\ versions'[v].released = TRUE /\ list' = list \ {v}
          /\ obsolete' = obsolete \union LastReferences(versions, v)
      BY <2>1, <2>3, <2>6 DEF Unreffed
    <3>2. v # current
      BY <3>1 DEF IRefs, IRefType
    <3>3. Listed' = Listed \ {v}
      BY <2>2, <2>4, <3>1 DEF Listed
    <3>4. Releases(v)
      BY <2>2, <2>4, <3>2, <3>3 DEF Releases, Listed
    <3>5. \A t : IsLive(t) => IsLive(t)' \/ t \in LastReferences(versions, v)
      BY <3>4, ReleaseKeeps
    <3>6. ListKeep
      BY <2>4, <3>1 DEF ListKeep
    <3> QED BY <3>1, <3>5, <3>6
  <2> QED BY <2>5, <2>6
<1> QED BY <1>1, <1>2

LEMMA LockedKept ==
  ASSUME IRefs, IRefs', IFiles, IKept, current' = current, NEW i \in 1 .. Len(states), UnrefStateLocked(i),
         UNCHANGED <<disk, zombies, oldManifests, taken, todo, pacing, manifests, manifestNum, reader>>,
         \A j \in Jobs : JobHolds(j)
  PROVE  IKept'
<1>1. /\ \A t : Owned(t) => Owned(t)'
      /\ \A v : BuiltBy(v) => BuiltBy(v)'
      /\ \A m : Named(m) => Named(m)'
  BY HoldsAll
<1>2. ListKeep /\ obsolete \subseteq obsolete' /\ \A t : IsLive(t) => IsLive(t)' \/ t \in obsolete'
  BY LockedKeeps
<1>3. VersionsKeep
  BY <1>1, <1>2, ListKeepOK
<1>4. Given' = Given
  BY DEF Given
<1>5. LiveKeep
  BY <1>2 DEF LiveKeep
<1>6. GoingKeep /\ ZombieKeep
  BY <1>2, <1>4 DEF GoingKeep, ZombieKeep, Going
<1>7. OwnedKeep /\ DiskKeep /\ DirKeep
  BY <1>1 DEF OwnedKeep, DiskKeep, DirKeep
<1> QED BY <1>3, <1>5, <1>6, <1>7, KeepFrame

LEMMA UnrefOldKept ==
  ASSUME IControl, IRefs, IRefs', IFiles, IKept, current' = current, NEW j \in Jobs, UnrefOld(j)
  PROVE  IKept'
<1> PICK n : n = Len(states)
  OBVIOUS
<1>1. /\ pc[j] = "unrefold" /\ UnrefStateLocked(n - 1)
      /\ UNCHANGED <<disk, zombies, oldManifests, taken, todo, pacing, manifests, manifestNum, reader>>
      /\ Finish(j) \/ (Goto(j, "clean") /\ UNCHANGED <<job, ckpt>>)
  BY DEF UnrefOld, diskVars, numVars, cleanerVars
<1>2. n - 1 \in 1 .. Len(states)
  <2>1. Swapping
    BY <1>1 DEF Swapping
  <2>2. n \in Nat /\ n > 1
    BY <2>1, StateFacts DEF IRefs, IStates
  <2> QED BY <2>2
<1>3. Moves(j)
  BY <1>1, JobIs, GotoMoves, FinishWithin DEF IControl, IType
<1>4. \A k \in Jobs : k # j => job'[k] = job[k]
  BY <1>1 DEF Finish
<1>5. \A k \in Jobs : JobHolds(k)
  BY <1>1, <1>3, <1>4, JobIs, HoldsUnmoved DEF Owning, Built
<1> QED BY <1>1, <1>2, <1>5, LockedKept

LEMMA CloseStateKept ==
  ASSUME IControl, IRefs, IRefs', IFiles, IKept, current' = current, CloseState
  PROVE  IKept'
<1> PICK n : n = Len(states)
  OBVIOUS
<1>1. /\ UnrefStateLocked(n)
      /\ UNCHANGED <<disk, zombies, oldManifests, taken, todo, pacing, manifests, manifestNum, reader, job>>
      /\ \E s : Goto(Closer, s)
  BY DEF CloseState, closeRest, diskVars, numVars
<1>2. n \in 1 .. Len(states)
  BY StateFacts DEF IRefs
<1>3. Moves(Closer)
  BY <1>1, OthersAre, GotoMoves DEF IControl, IType
<1>4. \A k \in Jobs : JobHolds(k)
  BY <1>1, <1>3, OthersAre, HoldsUnmoved
<1> QED BY <1>1, <1>2, <1>4, LockedKept

LEMMA UnrefFilesKept ==
  ASSUME IControl, IRefs, IFiles, IKept, NEW r \in Readers, UnrefFiles(r)
  PROVE  IKept'
<1> PICK v : v = VersionOf(r)
  OBVIOUS
<1> PICK S : S = LastReferences(versions, v)
  OBVIOUS
<1>1. /\ pc[r] = "unreffiles" /\ versions' = [versions EXCEPT ![v].released = TRUE]
      /\ reader' = [reader EXCEPT ![r].obsolete = S] /\ Goto(r, "remove")
      /\ UNCHANGED <<disk, zombies, obsolete, oldManifests, taken, todo, pacing, manifests, manifestNum, job, list>>
  BY DEF UnrefFiles, readerRest, diskVars, numVars, VersionOf
<1>2. /\ versions \in Seq(VersionType) /\ v \in list /\ v \in 1 .. Len(versions) /\ ~versions[v].released
      /\ versions[v].refs = 0
  BY <1>1 DEF IRefs, IRefType, IReaders
<1>3. Moves(r)
  BY <1>1, ReaderIs, GotoMoves DEF IControl, IType
<1>4. /\ \A k \in 1 .. Len(versions) : versions'[k].tables = versions[k].tables
      /\ \A k \in 1 .. Len(versions) : k # v => versions'[k].released = versions[k].released
      /\ versions'[v].released = TRUE
      /\ Len(versions') = Len(versions)
  BY <1>1, <1>2 DEF VersionType
<1>5. Releases(v)
  <2>1. v # current
    BY <1>2, CurrentHeld
  <2>2. Listed' = Listed \ {v} /\ v \in Listed
    <3>1. list \subseteq 1 .. Len(versions)
      BY DEF IRefs, IRefType
    <3> QED BY <1>1, <1>2, <1>4, <3>1 DEF Listed
  <2>3. current' = current
    BY <1>1 DEF current
  <2> QED BY <1>4, <2>1, <2>2, <2>3 DEF Releases
<1>6. reader'[r].obsolete = S /\ reader[r].obsolete = {} /\ \A q \in Readers : q # r => reader'[q] = reader[q]
  BY <1>1, ReadersKnown DEF ReaderType, IFiles, IObsolete, ObsoleteOK
<1>7. \A t : t \in Given' <=> t \in Given \/ t \in S
  BY <1>6, GivenIs
<1>8. \A k \in Jobs : JobHolds(k)
  BY <1>1, <1>3, JobIs, ReaderIs DEF JobHolds, Moves
<1>9. /\ \A t : Owned(t) => Owned(t)'
      /\ \A k : BuiltBy(k) => BuiltBy(k)'
      /\ \A m : Named(m) => Named(m)'
  BY <1>8, HoldsAll
<1>10. VersionsKeep
  <2>1. ListKeep
    BY <1>1, <1>4 DEF ListKeep
  <2> QED BY <1>9, <2>1, ListKeepOK
<1>11. LiveKeep
  BY <1>5, <1>7, ReleaseKeeps DEF LiveKeep
<1>12. GoingKeep /\ ZombieKeep
  BY <1>1, <1>7 DEF GoingKeep, ZombieKeep, Going
<1>13. OwnedKeep /\ DiskKeep /\ DirKeep
  BY <1>1, <1>9 DEF OwnedKeep, DiskKeep, DirKeep
<1> QED BY <1>10, <1>11, <1>12, <1>13, KeepFrame

LEMMA RemoveVersionKept ==
  ASSUME IControl, IRefs, IFiles, IKept, NEW r \in Readers, RemoveVersion(r)
  PROVE  IKept'
<1> PICK v : v = VersionOf(r)
  OBVIOUS
<1>1. /\ pc[r] = "remove" /\ list' = list \ {v} /\ obsolete' = obsolete \union reader[r].obsolete
      /\ reader' = [reader EXCEPT ![r].obsolete = {}] /\ Goto(r, "schedule")
      /\ UNCHANGED <<disk, zombies, oldManifests, taken, todo, pacing, manifests, manifestNum, job, versions>>
  BY DEF RemoveVersion, readerRest, diskVars, numVars, VersionOf
<1>2. versions[v].released
  BY <1>1 DEF IRefs, IReaders
<1>3. Moves(r)
  BY <1>1, ReaderIs, GotoMoves DEF IControl, IType
<1>4. \A q \in Readers : q # r => reader'[q] = reader[q]
  BY <1>1, ReadersKnown DEF ReaderType
<1>5. \A t \in Given : t \in Given' \/ t \in obsolete'
  BY <1>1, <1>4, GivenIs
<1>6. \A k \in Jobs : JobHolds(k)
  BY <1>1, <1>3, JobIs, ReaderIs DEF JobHolds, Moves
<1>7. /\ \A t : Owned(t) => Owned(t)'
      /\ \A k : BuiltBy(k) => BuiltBy(k)'
      /\ \A m : Named(m) => Named(m)'
  BY <1>6, HoldsAll
<1>8. VersionsKeep
  <2>1. ListKeep
    BY <1>1, <1>2 DEF ListKeep
  <2> QED BY <1>7, <2>1, ListKeepOK
<1>9. LiveKeep
  <2>1. Listed' = Listed
    BY <1>1, <1>2 DEF Listed
  <2> QED BY <1>1, <2>1 DEF LiveKeep, IsLive
<1>10. GoingKeep /\ ZombieKeep
  BY <1>1, <1>5 DEF GoingKeep, ZombieKeep, Going
<1>11. OwnedKeep /\ DiskKeep /\ DirKeep
  BY <1>1, <1>7 DEF OwnedKeep, DiskKeep, DirKeep
<1> QED BY <1>8, <1>9, <1>10, <1>11, KeepFrame

(* logAndApply installs a version: the old one leaves the list when it is released. *)
LEMMA InstallList ==
  ASSUME IControl, IRefs, NEW j \in Jobs, Install(j)
  PROVE  ListKeep /\ Len(versions) \in list'
<1> PICK n, c, s, x : /\ n = Len(versions) /\ c = current /\ s = UnrefLocked(VersionState, c)
                      /\ x = [s.versions[n] EXCEPT !.refs = 1]
  OBVIOUS
<1>1. /\ pc[j] = "install"
      /\ versions' = [s.versions EXCEPT ![job[j].version].refs = 1] /\ list' = s.list \union {job[j].version}
  BY DEF Install
<1>2. /\ IRefType /\ c \in 1 .. n /\ n \in Nat /\ c \in 1 .. Len(versions)
      /\ job[j].version = n /\ ~versions[n].released /\ n # c /\ n \notin list /\ n \in 1 .. n
  <2>1. IRefType /\ c \in 1 .. n /\ n \in Nat /\ c \in list
    BY VersionFacts DEF IRefs, IRefType
  <2> QED BY <1>1, <2>1 DEF IRefs, IBuilt, Built
<1>3. Unreffed(s, c)
  BY <1>2, UnrefLockedIs
<1>4. /\ s.versions \in Seq(VersionType) /\ Len(s.versions) = n
      /\ \A k \in 1 .. n : k # c => s.versions[k] = versions[k]
  BY <1>3 DEF Unreffed
<1>5. /\ Len(versions') = n
      /\ \A k \in 1 .. n : k # n => versions'[k] = s.versions[k]
  <2>1. versions' = [s.versions EXCEPT ![n] = x]
    BY <1>1, <1>2, <1>4
  <2> QED BY <1>2, <1>4, <2>1
<1>6. ~versions[c].released
  BY CurrentHeld
<1>7. versions'[c].released = s.versions[c].released
  BY <1>2, <1>5
<1>8. ASSUME NEW k \in 1 .. n, ~versions'[k].released PROVE ~versions[k].released /\ (k \in list => k \in list')
  <2>1. CASE k = n
    BY <1>2, <2>1
  <2>2. CASE k = c
    BY <1>1, <1>3, <1>6, <1>7, <1>8, <2>2 DEF Unreffed
  <2>3. CASE k # n /\ k # c
    <3>1. versions'[k] = versions[k]
      BY <1>4, <1>5, <2>3
    <3>2. list \ {c} \subseteq s.list
      BY <1>3 DEF Unreffed
    <3> QED BY <1>1, <1>8, <2>3, <3>1, <3>2
  <2> QED BY <2>1, <2>2, <2>3
<1> QED BY <1>1, <1>2, <1>5, <1>8 DEF ListKeep

LEMMA InstallKept ==
  ASSUME IControl, IRefs, IFiles, IKept, NEW j \in Jobs, Install(j)
  PROVE  IKept'
<1> PICK n, c, S, m : n = Len(versions) /\ c = current /\ S = LastReferences(versions, c) /\ m = job[j].manifest
  OBVIOUS
<1>1. /\ pc[j] = "install" /\ Goto(j, "state") /\ zombies' = zombies \union (job[j].in \ job[j].out)
      /\ oldManifests' = (IF m = 0 THEN oldManifests ELSE oldManifests \union {manifestNum})
      /\ manifestNum' = (IF m = 0 THEN manifestNum ELSE m)
      /\ job' = [job EXCEPT ![j].in = {}]
      /\ UNCHANGED <<disk, manifests, taken, todo, pacing, reader>>
  BY DEF Install, diskVars, cleanerVars
<1>2. Moves(j) /\ pc'[j] = "state"
  BY <1>1, JobIs, GotoMoves DEF IControl, IType
<1>3. \A k \in Jobs : k # j => pc'[k] = pc[k] /\ job'[k] = job[k]
  BY <1>1, <1>2, JobKnown, JobIs DEF JobType, Moves
<1>4. Installs(n, c) /\ job[j].version = n /\ Listed \subseteq 1 .. Len(versions)
  <2>1. Installs(n, c) /\ job[j].version = n
    BY InstallIs
  <2>2. list \subseteq 1 .. Len(versions)
    BY DEF IRefs, IRefType
  <2> QED BY <2>1, <2>2 DEF Listed
<1>5. ListKeep /\ n \in list'
  BY InstallList
<1>6. JobOK(j) /\ job[j].in \subseteq Tables
  BY JobKnown DEF JobOK
<1>7. /\ versions[n].tables = (Tables \ job[j].in) \union job[j].out
      /\ job[j].out = job[j].pending \/ job[j].pending = {}
  BY <1>1, <1>4, <1>6 DEF JobOK, Owning, Built
<1>8. \A k \in Jobs : pc[k] \in Built => k = j
  BY <1>1, OnlyBuilder DEF Locking, Built
<1>9. n \in Listed' /\ versions'[n].tables = versions[n].tables
  BY <1>4 DEF Installs
<1>10. \A t \in job[j].pending : IsLive(t)'
  BY <1>7, <1>9 DEF IsLive
<1>11. VersionsKeep
  <2>1. ASSUME NEW v \in 1 .. Len(versions'), ~versions'[v].released, v # n, v \notin list'
        PROVE  v \in 1 .. Len(versions) /\ ~versions[v].released /\ v \notin list /\ (BuiltBy(v) => BuiltBy(v)')
    <3>1. v \in 1 .. Len(versions) /\ ~versions[v].released /\ v \notin list
      BY <1>5, <2>1 DEF ListKeep
    <3>2. ~BuiltBy(v)
      BY <1>4, <1>8, <2>1 DEF BuiltBy
    <3> QED BY <3>1, <3>2
  <2> QED BY <1>5, <2>1 DEF VersionsKeep
<1>12. LiveKeep
  <2>1. ASSUME NEW t, IsLive(t), ~IsLive(t)' PROVE t \in obsolete'
    <3>1. PICK k \in Listed : t \in versions[k].tables
      BY <2>1 DEF IsLive
    <3>2. versions'[k].tables = versions[k].tables /\ k \in 1 .. Len(versions)
      BY <1>4, <3>1 DEF Installs
    <3>3. k \notin Listed'
      BY <2>1, <3>1, <3>2 DEF IsLive
    <3>4. k = c /\ Listed' = (Listed \ {c}) \union {n} /\ obsolete' = obsolete \union S
      BY <1>4, <3>1, <3>3 DEF Installs
    <3>5. t \in S
      <4>1. SUFFICES ASSUME t \notin S PROVE FALSE
        OBVIOUS
      <4>2. DOMAIN versions = 1 .. Len(versions)
        BY DEF IRefs, IRefType
      <4>3. PICK i \in 1 .. Len(versions) : i # c /\ ~versions[i].released /\ t \in versions[i].tables
        BY <3>1, <3>4, <4>1, <4>2 DEF LastReferences
      <4>4. i \in list \/ i = n
        BY <1>4, <1>8, <4>3 DEF IKept, BuiltBy
      <4>5. i \in Listed'
        BY <3>4, <4>3, <4>4 DEF Listed
      <4>6. versions'[i].tables = versions[i].tables
        BY <1>4 DEF Installs
      <4> QED BY <2>1, <4>3, <4>5, <4>6 DEF IsLive
    <3> QED BY <3>4, <3>5
  <2> QED BY <2>1 DEF LiveKeep
<1>13. Given' = Given
  BY <1>1 DEF Given
<1>14. obsolete \subseteq obsolete'
  BY <1>4 DEF Installs
<1>15. GoingKeep
  BY <1>1, <1>13, <1>14 DEF GoingKeep, Going
<1>16. ZombieKeep
  <2>1. \A t \in Tables : IsLive(t)
    BY LiveFacts
  <2> QED BY <1>1, <1>6, <1>13, <1>14, <2>1 DEF ZombieKeep
<1>17. OwnedKeep
  BY <1>3, <1>10 DEF OwnedKeep, Owned
<1>18. DiskKeep
  BY <1>1 DEF DiskKeep
<1>19. DirKeep
  <2>1. ASSUME NEW f, Named(f) PROVE f = manifestNum'
    BY <1>1, <1>8, <2>1 DEF Named, NewManifest
  <2> QED BY <1>1, <2>1 DEF DirKeep
<1> QED BY <1>11, <1>12, <1>15, <1>16, <1>17, <1>18, <1>19, KeepFrame

-----------------------------------------------------------------------------
(* The invariant. *)

LEMMA InitLeft ==
  ASSUME Init
  PROVE  ILeft
<1>1. /\ versions = <<[tables |-> LiveTables, refs |-> 2, released |-> FALSE]>> /\ list = {1}
      /\ disk = LiveTables /\ zombies = {} /\ manifests = [m \in {FirstManifest} |-> <<LiveTables>>]
      /\ manifestNum = FirstManifest /\ failures = 0
  BY DEF Init
<1>2. Len(versions) = 1 /\ versions[1].tables = LiveTables /\ ~versions[1].released
  BY <1>1
<1>3. \A v \in 1 .. Len(versions) : v \in list
  BY <1>1, <1>2
<1>4. 1 \in Listed
  BY <1>1, <1>2 DEF Listed
<1>5. \A t \in disk : IsLive(t)
  BY <1>1, <1>2, <1>4 DEF IsLive
<1>6. \A m \in DOMAIN manifests : m = manifestNum
  BY <1>1
<1>7. IKept
  BY <1>1, <1>3, <1>5, <1>6 DEF IKept
<1> QED BY <1>1, <1>7, InitCleaned DEF ILeft

(* A failed call of the file system is counted. *)
LEMMA FailuresCount ==
  ASSUME failures \in Nat, [Next]_vars
  PROVE  /\ failures' = failures \/ failures' = failures + 1
         /\ \A j \in Jobs : FailOutputs(j) \/ FailIngest(j) \/ FailManifest(j) => failures' = failures + 1
<1>1. ASSUME NEW j \in Jobs, JobStep(j) PROVE failures' = failures \/ failures' = failures + 1
  BY <1>1 DEF JobStep, LogLock, Pick, PickNothing, NewOutput, NoOutput, SyncOutputs, FailOutputs, FailIngest, Edit,
     CreateManifest, FailManifest, IngestCleanup, AppendEdit, SetCurrentFile, Install, SwapState, UnrefOld, boundVars
<1>2. ASSUME NEW j \in Jobs, NEW kind, Begin(j, kind) PROVE failures' = failures
  BY <1>2 DEF Begin
<1>3. ASSUME NEW w \in Workers, CleaningStep(w) PROVE failures' = failures
  BY <1>3 DEF CleaningStep, AcquireCleaningTurn, DeleteFile, ReleaseCleaningTurn, boundVars
<1>4. ASSUME NEW r \in Readers, Load(r) \/ UnrefState(r) \/ UnrefStep(r) PROVE failures' = failures
  BY <1>4 DEF UnrefStep, Load, UnrefState, UnrefVersion, UnrefFiles, RemoveVersion, Schedule, readerRest, boundVars
<1>5. ASSUME NEW c \in Checkpoints, CheckpointStep(c) \/ Disable(c) PROVE failures' = failures \/ failures' = failures + 1
  BY <1>5 DEF CheckpointStep, Disable, DisableWoken, LogLock, Snapshot, CopyManifest, LinkTable, FailCheckpoint, Enable,
     boundVars
<1>6. ASSUME BeginClose \/ CloseStep PROVE failures' = failures
  BY <1>6 DEF BeginClose, CloseStep, CloseState, Drain, AwaitDeleters, closeRest, boundVars
<1>7. ASSUME PacedDelete \/ CleanerStart PROVE failures' = failures
  BY <1>7 DEF PacedDelete, CleanerStart, boundVars
<1>8. ASSUME Terminated \/ UNCHANGED vars PROVE failures' = failures
  BY <1>8 DEF Terminated, vars, boundVars
<1>9. failures' = failures \/ failures' = failures + 1
  BY <1>1, <1>2, <1>3, <1>4, <1>5, <1>6, <1>7, <1>8 DEF Next
<1>10. \A j \in Jobs : FailOutputs(j) \/ FailIngest(j) \/ FailManifest(j) => failures' = failures + 1
  BY DEF FailOutputs, FailIngest, FailManifest
<1> QED BY <1>9, <1>10

LEMMA NextKept ==
  ASSUME IControl, IRefs, IFiles, IKept, [Next]_vars, failures \in Nat, failures' = 0
  PROVE  IKept'
<1>1. IRefs' /\ job' \in [Jobs -> JobType] /\ nextFile' \in Nat \ {0}
  BY NextRefs, NextJobType
<1>2. ASSUME NEW j \in Jobs, JobStep(j) PROVE IKept'
  <2>1. ~(FailOutputs(j) \/ FailIngest(j) \/ FailManifest(j))
    BY FailuresCount
  <2>2. CASE LogLock(j) \/ Pick(j) \/ PickNothing(j) \/ NewOutput(j) \/ NoOutput(j) \/ SyncOutputs(j)
    BY <2>2, PickKept, NewOutputKept, NoOutputKept, SyncOutputsKept
  <2>3. CASE \E replace \in BOOLEAN : Edit(j, replace)
    BY <2>3, EditKept
  <2>4. CASE CreateManifest(j) \/ IngestCleanup(j) \/ AppendEdit(j) \/ SetCurrentFile(j) \/ Install(j) \/ SwapState(j)
    BY <2>4, ManifestKept, IngestCleanupKept, InstallKept, SwapStateKept
  <2>5. CASE UnrefOld(j)
    <3>1. current' = current
      BY <1>1, <2>5, UnrefOldRefs
    <3> QED BY <1>1, <2>5, <3>1, UnrefOldKept
  <2> QED BY <1>2, <2>1, <2>2, <2>3, <2>4, <2>5 DEF JobStep
<1>3. ASSUME NEW j \in Jobs, NEW kind \in {"flush", "compaction", "ingest", "rotation"}, Begin(j, kind) PROVE IKept'
  BY <1>3, BeginKept
<1>4. ASSUME NEW w \in Workers, CleaningStep(w) PROVE IKept'
  BY <1>4, AcquireKept, DeleteKept, ReleaseKept DEF CleaningStep
<1>5. ASSUME NEW r \in Readers, Load(r) \/ UnrefState(r) \/ UnrefStep(r) PROVE IKept'
  BY <1>5, ReaderKept, UnrefFilesKept, RemoveVersionKept DEF UnrefStep
<1>6. ASSUME NEW c \in Checkpoints, CheckpointStep(c) \/ Disable(c) PROVE IKept'
  BY <1>6, CheckpointKept
<1>7. CASE CloseState
  <2>1. current' = current
    BY <1>1, <1>7, CloseStateRefs
  <2> QED BY <1>1, <1>7, <2>1, CloseStateKept
<1>8. CASE BeginClose \/ Drain \/ AwaitDeleters \/ Terminated \/ UNCHANGED vars
  BY <1>8, CloserKept
<1>9. CASE PacedDelete
  BY <1>9, DeleteKept
<1>10. CASE CleanerStart
  BY <1>10, CleanerStartKept
<1> QED BY <1>2, <1>3, <1>4, <1>5, <1>6, <1>7, <1>8, <1>9, <1>10 DEF Next, CloseStep

LEMMA NextLeft ==
  ASSUME IControl, IRefs, IFiles, ILeft, [Next]_vars
  PROVE  ILeft'
<1>1. failures \in Nat /\ (failures' = failures \/ failures' = failures + 1)
  BY FailuresCount DEF ILeft
<1>2. failures' \in Nat /\ (failures' = 0 => failures = 0)
  BY <1>1
<1>3. failures' = 0 => IKept'
  BY <1>1, <1>2, NextKept DEF ILeft
<1>4. ICleaned'
  BY NextCleaned DEF ILeft
<1> QED BY <1>2, <1>3, <1>4 DEF ILeft

(* In every state of a database whose file system has not failed, each table and manifest in the directory    *)
(* is of a version, belongs to the job that wrote it or is on somebody's list to delete, and for old manifests *)
(* somebody is on the way to deleteObsoleteFiles; the end of Close finds nothing obsolete and nobody deleting. *)
THEOREM LeftInvariant == Spec => []ILeft
<1>1. Init => ILeft
  BY InitLeft
<1>2. IControl /\ IRefs /\ IFiles /\ ILeft /\ [Next]_vars => ILeft'
  BY NextLeft
<1> QED BY <1>1, <1>2, ControlInvariant, RefsInvariant, FilesInvariant, PTL DEF Spec

-----------------------------------------------------------------------------
(* What Close leaves. *)

LEMMA LeftCloseClean ==
  ASSUME IControl, IRefs, IFiles, ILeft
  PROVE  CloseClean
<1>1. pc[Closer] # "leaked"
  BY DEF ILeft, ICleaned, IEnd
<1>2. ASSUME pc[Closer] = "closed", failures = 0
      PROVE  /\ disk = versions[current].tables
             /\ DOMAIN manifests = {manifestNum}
             /\ zombies = {} /\ obsolete = {}
  <2>1. Drained
    BY <1>2 DEF Drained
  <2>2. /\ \A r \in Readers : pc[r] = "idle"
        /\ \A j \in Jobs : pc[j] \in {"idle", "pick", "picking"}
    BY <2>1, DrainedFacts
  <2>3. obsolete = {} /\ oldManifests = {} /\ ~cleaning /\ pacing = {}
    BY <1>2 DEF ILeft, ICleaned, IEnd
  <2>4. taken = {} /\ todo = {}
    <3>1. \A w \in Workers : pc[w] # "delete"
      BY <2>3, DeleterCleans
    <3> QED BY <3>1 DEF IControl, ITurn
  <2>5. Given = {}
    BY <2>2 DEF Given, IFiles, IObsolete, ObsoleteOK
  <2>6. \A j \in Jobs : pc[j] \notin Owning /\ pc[j] \notin Built
    BY <2>2 DEF Owning, Built
  <2>7. Listed = {current}
    <3>1. current \in Listed /\ list \subseteq 1 .. Len(versions)
      BY CurrentHeld DEF IRefs, IRefType, Listed
    <3>2. ASSUME NEW v \in Listed, v # current PROVE FALSE
      <4>1. v \in list /\ ~versions[v].released /\ v \in 1 .. Len(versions)
        BY <3>1, <3>2 DEF Listed
      <4>2. versions[v].refs = 0
        BY <2>1, <3>2, <4>1, OnlyCurrentHeld
      <4> QED BY <2>2, <4>1, <4>2 DEF IRefs, IVersions
    <3> QED BY <3>1, <3>2
  <2>8. \A t : IsLive(t) <=> t \in Tables
    BY <2>7 DEF IsLive, Tables
  <2>9. IKept
    BY <1>2 DEF ILeft
  <2>10. disk = Tables
    <3>1. \A t \in disk : t \in Tables
      BY <2>3, <2>4, <2>5, <2>6, <2>8, <2>9 DEF IKept, Going, Owned
    <3>2. \A t \in Tables : t \in disk
      BY LiveFacts DEF LiveOK
    <3> QED BY <3>1, <3>2
  <2>11. DOMAIN manifests = {manifestNum}
    <3>1. \A m \in DOMAIN manifests : m = manifestNum
      BY <2>3, <2>4, <2>6, <2>9 DEF IKept, Named, NewManifest
    <3>2. manifestNum \in DOMAIN manifests
      BY DEF IFiles, IManifests
    <3> QED BY <3>1, <3>2
  <2>12. zombies = {}
    <3>1. \A t \in zombies : t \in Tables
      BY <2>3, <2>4, <2>5, <2>8, <2>9 DEF IKept
    <3> QED BY <3>1 DEF IFiles, ITables
  <2> QED BY <2>3, <2>10, <2>11, <2>12 DEF Tables
<1> QED BY <1>1, <1>2 DEF CloseClean

(* DB.Close finds that no read state is leaked, whatever readers, jobs and checkpoints did before, and once it *)
(* returns, unless a call of the file system failed, the directory has the tables and the manifest of the      *)
(* current version, and neither zombies nor obsolete tables are left.                                          *)
THEOREM ClosesClean == Spec => []CloseClean
<1>1. IControl /\ IRefs /\ IFiles /\ ILeft => CloseClean
  BY LeftCloseClean
<1> QED BY <1>1, ControlInvariant, RefsInvariant, FilesInvariant, LeftInvariant, PTL
=============================================================================
