-------------------------- MODULE VersionSetProofs --------------------------
(***************************************************************************)
(* The first two layers of the invariant of the version set, proved for any *)
(* number of jobs, readers and checkpoints and any bounds.                  *)
(*                                                                          *)
(* IControl says who may be where: one holder of DB.mu, one owner of the    *)
(* manifest lock, one of the cleaner's turn, no turn while deletions are    *)
(* disabled, and nobody left once Close has waited.  IRefs says that every  *)
(* reference count is exact: the one of a read state counts the readers and *)
(* the DB itself, the one of a version counts the states that still hold it *)
(* and the version list.  IRefs needs IControl, as only the locks keep two  *)
(* jobs from building a version at once.  VersionSetTheorems puts the files *)
(* on top of both.                                                          *)
(***************************************************************************)
EXTENDS VersionSet, FiniteSetTheorems, TLAPS

-----------------------------------------------------------------------------
(* The first invariant: control.                                           *)

JobPC == {"idle", "pick", "picking", "write", "sync", "lock", "edit", "create", "append", "setcurrent",
          "install", "cleanup", "state", "unrefold", "clean", "turn", "delete"}
CheckpointPC == {"idle", "disable", "lock", "snapshot", "copy", "link", "enable", "clean", "turn", "delete"}
CleanerPC == {"idle", "start", "delete"}
CloserPC == {"idle", "wait", "drain", "leaked", "clean", "turn", "delete", "deleters", "closed"}
ReaderPC == {"idle", "reading", "unrefversion", "unreffiles", "remove", "schedule"}

PCType ==
  /\ DOMAIN pc = Workers \union Readers
  /\ \A j \in Jobs : pc[j] \in JobPC
  /\ \A c \in Checkpoints : pc[c] \in CheckpointPC
  /\ \A r \in Readers : pc[r] \in ReaderPC
  /\ pc[Cleaner] \in CleanerPC
  /\ pc[Closer] \in CloserPC

IType ==
  /\ PCType
  /\ mu \in Workers \union {Nobody}
  /\ writing \in BOOLEAN /\ lockQ \in Seq(Jobs \union Checkpoints)
  /\ cleaning \in BOOLEAN /\ disabled \in Nat
  /\ closed \in BOOLEAN

(* Where a goroutine holds DB.mu, the manifest lock, the cleaner's turn; where deletions are disabled. *)
Holding   == {"picking", "edit", "snapshot", "state", "unrefold", "clean"}
Built     == {"create", "append", "setcurrent", "install"}
Locking   == {"picking", "edit", "snapshot"} \union Built
Turning   == {"start", "delete"}
Disabling == {"disable", "lock", "snapshot", "copy", "link", "enable"}

IMutex == \A w \in Workers : pc[w] \in Holding => mu = w

(* The manifest lock has one owner; who waits for it waits once, and not for nothing. *)
Coming == \E w \in Jobs \union Checkpoints : pc[w] \in {"pick", "lock"} /\ w \notin ToSet(lockQ)

ILock ==
  /\ \A w \in Workers : pc[w] \in Locking => writing
  /\ \A v, w \in Workers : pc[v] \in Locking /\ pc[w] \in Locking => v = w
  /\ \A i \in 1 .. Len(lockQ) : pc[lockQ[i]] \in {"pick", "lock"}
  /\ \A i, k \in 1 .. Len(lockQ) : lockQ[i] = lockQ[k] => i = k
  /\ lockQ # <<>> => writing \/ Coming

(* The turn has one owner, and only the owner has files to delete. *)
ITurn ==
  /\ asleep # {} => cleaning
  /\ cleaning <=> \E w \in Workers : pc[w] \in Turning
  /\ \A v, w \in Workers : pc[v] \in Turning /\ pc[w] \in Turning => v = w
  /\ (\A w \in Workers : pc[w] # "delete") => taken = {} /\ todo = {}

Disablers == {c \in Checkpoints : pc[c] \in Disabling}

(* cleaner.disabled counts the checkpoints, and keeps the turn away from them. *)
IDisabled ==
  /\ IsFiniteSet(Disablers) /\ disabled = Cardinality(Disablers)
  /\ \A c \in Checkpoints : pc[c] \in Disabling \ {"disable"} => ~cleaning

(* Close gave up the read state of the DB. *)
Drained == pc[Closer] \notin {"idle", "wait"}

(* What Close waited for does not come back. *)
IClosed ==
  /\ closed <=> pc[Closer] # "idle"
  /\ closed => \A g \in Readers \union Checkpoints : pc[g] = "idle"
  /\ Drained => \A j \in Jobs : pc[j] \in {"idle", "pick", "picking"}

IControl == IType /\ IMutex /\ ILock /\ ITurn /\ IDisabled /\ IClosed

-----------------------------------------------------------------------------
(* The second invariant: references.                                       *)

VersionType == [tables : SUBSET Nat, refs : Int, released : BOOLEAN]
StateType   == [version : Nat, refs : Int]
ReaderType  == [state : Nat, obsolete : SUBSET Nat]
JobType ==
  [kind : {"none", "flush", "compaction", "ingest", "rotation"}, in : SUBSET Nat, out : SUBSET Nat,
   pending : SUBSET Nat, version : Nat, manifest : Nat]

IRefType ==
  /\ versions \in Seq(VersionType)
  /\ list \subseteq 1 .. Len(versions)
  /\ current \in list /\ \A v \in list : v <= current
  /\ states \in Seq(StateType) /\ states # <<>>
  /\ \A i \in 1 .. Len(states) : states[i].version \in 1 .. Len(versions)
  /\ reader \in [Readers -> ReaderType]
  /\ \A r \in Readers : pc[r] # "idle" => reader[r].state \in 1 .. Len(states)
  /\ job \in [Jobs -> JobType] /\ nextFile \in Nat \ {0}

(* updateReadStateLocked installed a state and still holds the old one. *)
Swapping == \E j \in Jobs : pc[j] = "unrefold"

(* The DB holds the last state until Close, and the one before it during a swap. *)
DBHolds(i) == (i = Len(states) /\ ~Drained) \/ (i + 1 = Len(states) /\ Swapping)

StateHolders(i) ==
  {r \in Readers : pc[r] = "reading" /\ reader[r].state = i} \union {d \in {Nobody} : DBHolds(i)}

(* The count of a read state is exact. *)
IStates ==
  /\ \A i \in 1 .. Len(states) : IsFiniteSet(StateHolders(i)) /\ states[i].refs = Cardinality(StateHolders(i))
  /\ Swapping => Len(states) > 1

(* A reader that gave up a state holds its version a little longer. *)
Releasing(i) == \E r \in Readers : pc[r] = "unrefversion" /\ reader[r].state = i

(* The states that have a reference to version v, and 0 for the version list. *)
Holders(v) ==
  {i \in 1 .. Len(states) : states[i].version = v /\ (states[i].refs > 0 \/ Releasing(i))}
    \union {z \in {0} : v = current}

VersionOf(r) == states[reader[r].state].version

(* The count of a version is exact, and its release is up to one goroutine. *)
IVersions ==
  /\ \A v \in 1 .. Len(versions) : versions[v].refs = Cardinality(Holders(v))
  /\ \A v \in 1 .. Len(versions) : versions[v].refs > 0 => v \in list /\ ~versions[v].released
  /\ \A v \in list : ~versions[v].released /\ versions[v].refs = 0 =>
       \E r \in Readers : pc[r] = "unreffiles" /\ VersionOf(r) = v

IReaders ==
  /\ \A r \in Readers : pc[r] = "unrefversion" => states[reader[r].state].refs = 0
  /\ \A q, r \in Readers :
       pc[q] = "unrefversion" /\ pc[r] = "unrefversion" /\ reader[q].state = reader[r].state => q = r
  /\ \A r \in Readers : pc[r] = "unreffiles" =>
       versions[VersionOf(r)].refs = 0 /\ ~versions[VersionOf(r)].released /\ VersionOf(r) \in list
  /\ \A q, r \in Readers :
       pc[q] = "unreffiles" /\ pc[r] = "unreffiles" /\ VersionOf(q) = VersionOf(r) => q = r
  /\ \A r \in Readers : pc[r] = "remove" => versions[VersionOf(r)].released

(* A version that is not installed yet is the last one built. *)
IBuilt ==
  \A j \in Jobs : pc[j] \in Built =>
    /\ job[j].version = Len(versions) /\ Len(versions) \notin list
    /\ versions[Len(versions)].refs = 0 /\ ~versions[Len(versions)].released

IRefs == IRefType /\ IStates /\ IVersions /\ IReaders /\ IBuilt

-----------------------------------------------------------------------------
(* The goroutines are different ones. *)
LEMMA JobIs ==
  ASSUME NEW j \in Jobs
  PROVE  /\ j \in Workers /\ j \in Workers \union Readers
         /\ j \notin Checkpoints /\ j \notin Readers /\ j # Cleaner /\ j # Closer /\ j # Nobody
BY GoroutinesAssumption DEF Workers

LEMMA CheckpointIs ==
  ASSUME NEW c \in Checkpoints
  PROVE  /\ c \in Workers /\ c \in Workers \union Readers
         /\ c \notin Jobs /\ c \notin Readers /\ c # Cleaner /\ c # Closer /\ c # Nobody
BY GoroutinesAssumption DEF Workers

LEMMA ReaderIs ==
  ASSUME NEW r \in Readers
  PROVE  /\ r \in Workers \union Readers /\ r \notin Workers
         /\ r \notin Jobs /\ r \notin Checkpoints /\ r # Cleaner /\ r # Closer /\ r # Nobody
BY GoroutinesAssumption DEF Workers

LEMMA OthersAre ==
  /\ Cleaner \in Workers /\ Cleaner \in Workers \union Readers
  /\ Cleaner \notin Jobs /\ Cleaner \notin Checkpoints /\ Cleaner \notin Readers
  /\ Closer \in Workers /\ Closer \in Workers \union Readers
  /\ Closer \notin Jobs /\ Closer \notin Checkpoints /\ Closer \notin Readers
  /\ Cleaner # Closer /\ Nobody \notin Workers /\ Nobody \notin Readers
BY GoroutinesAssumption DEF Workers

LEMMA WorkerIs ==
  ASSUME NEW w \in Workers
  PROVE  /\ w # Nobody /\ w \notin Readers /\ w \in Workers \union Readers
         /\ w \in Jobs \/ w \in Checkpoints \/ w = Cleaner \/ w = Closer
BY GoroutinesAssumption DEF Workers

-----------------------------------------------------------------------------
(* Steps, seen from the control state.  In a step one goroutine moves. *)

Moves(w) ==
  /\ DOMAIN pc' = DOMAIN pc
  /\ \A x \in Workers \union Readers : x # w => pc'[x] = pc[x]

LEMMA GotoMoves ==
  ASSUME PCType, NEW w \in Workers \union Readers, NEW s, Goto(w, s)
  PROVE  Moves(w) /\ pc'[w] = s
BY DEF Goto, Moves, PCType

LEMMA StayMoves ==
  ASSUME NEW w, UNCHANGED pc
  PROVE  Moves(w) /\ pc'[w] = pc[w]
BY DEF Moves

MovesWithin(w) ==
  /\ w \in Jobs => pc'[w] \in JobPC
  /\ w \in Checkpoints => pc'[w] \in CheckpointPC
  /\ w \in Readers => pc'[w] \in ReaderPC
  /\ w = Cleaner => pc'[w] \in CleanerPC
  /\ w = Closer => pc'[w] \in CloserPC

LEMMA PCStep ==
  ASSUME PCType, NEW w \in Workers \union Readers, Moves(w), MovesWithin(w)
  PROVE  PCType'
<1>1. \A j \in Jobs : pc'[j] \in JobPC
  BY JobIs DEF PCType, Moves, MovesWithin
<1>2. \A c \in Checkpoints : pc'[c] \in CheckpointPC
  BY CheckpointIs DEF PCType, Moves, MovesWithin
<1>3. \A r \in Readers : pc'[r] \in ReaderPC
  BY ReaderIs DEF PCType, Moves, MovesWithin
<1>4. pc'[Cleaner] \in CleanerPC /\ pc'[Closer] \in CloserPC
  BY OthersAre DEF PCType, Moves, MovesWithin
<1> QED BY <1>1, <1>2, <1>3, <1>4 DEF PCType, Moves

(* DB.mu is taken, given up or left alone. *)
MutexStep(w) ==
  /\ mu' \in {mu, w, Nobody}
  /\ mu' # mu => mu \in {Nobody, w}
  /\ mu' = Nobody \/ mu' = mu \/ w \in Workers
  /\ pc'[w] \in Holding => mu' = w

LEMMA MutexStepOK ==
  ASSUME IControl, NEW w \in Workers \union Readers, Moves(w), MutexStep(w)
  PROVE  IMutex' /\ mu' \in Workers \union {Nobody}
<1>1. mu' \in Workers \union {Nobody}
  BY DEF IControl, IType, MutexStep
<1>2. ASSUME NEW x \in Workers, pc'[x] \in Holding PROVE mu' = x
  <2>1. CASE x = w
    BY <1>2, <2>1 DEF MutexStep
  <2>2. CASE x # w
    <3>1. mu = x
      BY <1>2, <2>2 DEF IControl, IMutex, Moves
    <3> QED BY <2>2, <3>1, WorkerIs DEF MutexStep
  <2> QED BY <2>1, <2>2
<1> QED BY <1>1, <1>2 DEF IMutex

(* The manifest lock is left alone, or given up. *)
KeepsLock(w) ==
  /\ UNCHANGED <<writing, lockQ>>
  /\ pc[w] \in {"pick", "lock"} => pc'[w] = pc[w]
  /\ pc'[w] \in Locking => pc[w] \in Locking

FreesLock(w) ==
  /\ LogUnlock
  /\ w \in Workers /\ pc[w] \in Locking /\ pc'[w] \notin Locking

LEMMA KeepsLockOK ==
  ASSUME IControl, NEW w \in Workers \union Readers, Moves(w), KeepsLock(w)
  PROVE  ILock' /\ writing' \in BOOLEAN /\ lockQ' \in Seq(Jobs \union Checkpoints)
<1>1. lockQ \in Seq(Jobs \union Checkpoints) /\ lockQ' = lockQ /\ writing' = writing /\ writing \in BOOLEAN
  BY DEF IControl, IType, KeepsLock
<1>2. \A x \in Workers : pc'[x] \in Locking => pc[x] \in Locking
  BY DEF Moves, KeepsLock
<1>3. \A x \in Jobs \union Checkpoints : pc[x] \in {"pick", "lock"} => pc'[x] = pc[x]
  BY JobIs, CheckpointIs DEF Moves, KeepsLock
<1>4. \A i \in 1 .. Len(lockQ) : pc'[lockQ[i]] \in {"pick", "lock"}
  BY <1>1, <1>3 DEF IControl, ILock
<1>5. Coming => Coming'
  BY <1>1, <1>3 DEF Coming
<1> QED BY <1>1, <1>2, <1>4, <1>5 DEF IControl, ILock

LEMMA FreesLockOK ==
  ASSUME IControl, NEW w \in Workers, Moves(w), FreesLock(w)
  PROVE  ILock' /\ writing' \in BOOLEAN /\ lockQ' \in Seq(Jobs \union Checkpoints)
<1>1. lockQ \in Seq(Jobs \union Checkpoints) /\ writing' = FALSE
  BY DEF IControl, IType, FreesLock, LogUnlock
<1>2. \A x \in Workers : pc'[x] \notin Locking
  BY WorkerIs DEF IControl, ILock, Moves, FreesLock
<1>3. pc[w] \notin {"pick", "lock"}
  BY DEF FreesLock, Locking, Built
<1>4. \A x \in Jobs \union Checkpoints : pc[x] \in {"pick", "lock"} => pc'[x] = pc[x]
  BY <1>3, JobIs, CheckpointIs DEF Moves
<1>5. CASE lockQ = <<>>
  <2>1. lockQ' = <<>> /\ lockQ' \in Seq(Jobs \union Checkpoints) /\ Len(lockQ') = 0
    BY <1>1, <1>5 DEF FreesLock, LogUnlock
  <2>2. \A i \in 1 .. Len(lockQ') : FALSE
    BY <2>1
  <2> QED BY <1>1, <1>2, <2>1, <2>2 DEF ILock
<1>6. CASE lockQ # <<>>
  <2>1. lockQ' = Tail(lockQ) /\ Len(lockQ) > 0
    BY <1>1, <1>6 DEF FreesLock, LogUnlock
  <2>2. lockQ' \in Seq(Jobs \union Checkpoints) /\ Len(lockQ') = Len(lockQ) - 1
    BY <1>1, <2>1
  <2>3. \A i \in 1 .. Len(lockQ') : i + 1 \in 1 .. Len(lockQ) /\ lockQ'[i] = lockQ[i + 1]
    BY <1>1, <2>1, <2>2
  <2>4. \A i \in 1 .. Len(lockQ') : pc'[lockQ'[i]] \in {"pick", "lock"}
    BY <1>1, <1>4, <2>3 DEF IControl, ILock
  <2>5. \A i, k \in 1 .. Len(lockQ') : lockQ'[i] = lockQ'[k] => i = k
    <3>1. ASSUME NEW i \in 1 .. Len(lockQ'), NEW k \in 1 .. Len(lockQ'), lockQ'[i] = lockQ'[k]
          PROVE  i = k
      <4>1. i + 1 = k + 1
        BY <2>3, <3>1 DEF IControl, ILock
      <4> QED BY <2>2, <4>1
    <3> QED BY <3>1
  <2>6. Coming'
    <3>1. lockQ[1] \in Jobs \union Checkpoints /\ pc[lockQ[1]] \in {"pick", "lock"}
      BY <1>1, <2>1 DEF IControl, ILock
    <3>2. lockQ[1] \notin ToSet(lockQ')
      <4>1. SUFFICES ASSUME lockQ[1] \in ToSet(lockQ') PROVE FALSE
        OBVIOUS
      <4>2. PICK i \in 1 .. Len(lockQ') : lockQ'[i] = lockQ[1]
        BY <2>2, <4>1 DEF ToSet
      <4>3. i + 1 = 1
        BY <1>1, <2>1, <2>3, <4>2 DEF IControl, ILock
      <4> QED BY <2>2, <4>3
    <3> QED BY <1>4, <3>1, <3>2 DEF Coming
  <2> QED BY <1>1, <1>2, <2>2, <2>4, <2>5, <2>6 DEF ILock
<1> QED BY <1>5, <1>6

(* The cleaner's turn is left to its owner, or taken. *)
KeepsTurn(w) ==
  /\ cleaning' = cleaning
  /\ asleep' \subseteq asleep \/ cleaning
  /\ pc'[w] \in Turning <=> pc[w] \in Turning
  /\ pc[w] = "delete" => pc'[w] = "delete"
  /\ UNCHANGED <<taken, todo>> \/ (w \in Workers /\ pc'[w] = "delete")

TakesTurn(w) ==
  /\ ~cleaning /\ cleaning' = TRUE /\ disabled = 0
  /\ w \in Workers /\ pc'[w] \in Turning
  /\ asleep' \subseteq asleep
  /\ UNCHANGED <<taken, todo>> \/ pc'[w] = "delete"

LEMMA KeepsTurnOK ==
  ASSUME IControl, NEW w \in Workers \union Readers, Moves(w), KeepsTurn(w)
  PROVE  ITurn' /\ cleaning' \in BOOLEAN
<1>1. cleaning' = cleaning /\ cleaning \in BOOLEAN
  BY DEF IControl, IType, KeepsTurn
<1>2. \A x \in Workers : pc'[x] \in Turning <=> pc[x] \in Turning
  BY DEF Moves, KeepsTurn
<1>3. asleep' # {} => cleaning
  BY DEF IControl, ITurn, KeepsTurn
<1>4. (\A x \in Workers : pc'[x] # "delete") => taken' = {} /\ todo' = {}
  BY DEF IControl, ITurn, KeepsTurn, Moves
<1> QED BY <1>1, <1>2, <1>3, <1>4 DEF IControl, ITurn

LEMMA TakesTurnOK ==
  ASSUME IControl, NEW w \in Workers, Moves(w), TakesTurn(w)
  PROVE  ITurn' /\ cleaning' \in BOOLEAN
<1>1. \A x \in Workers : pc[x] \notin Turning
  BY DEF IControl, ITurn, TakesTurn
<1>2. \A x \in Workers : x # w => pc'[x] \notin Turning
  BY <1>1 DEF Moves
<1>3. (\A x \in Workers : pc'[x] # "delete") => taken' = {} /\ todo' = {}
  BY <1>1 DEF IControl, ITurn, TakesTurn, Turning
<1> QED BY <1>2, <1>3 DEF ITurn, TakesTurn

(* Deletions stay disabled as long as a checkpoint needs it. *)
KeepsDisabled(w) ==
  /\ disabled' = disabled
  /\ w \in Checkpoints => (pc'[w] \in Disabling <=> pc[w] \in Disabling)
  /\ w \in Checkpoints /\ pc'[w] \in Disabling \ {"disable"} =>
       pc[w] \in Disabling \ {"disable"} \/ ~cleaning'
  /\ cleaning' => cleaning \/ disabled = 0

LEMMA KeepsDisabledOK ==
  ASSUME IControl, NEW w \in Workers \union Readers, Moves(w), KeepsDisabled(w)
  PROVE  IDisabled' /\ disabled' \in Nat
<1>1. Disablers' = Disablers
  BY CheckpointIs DEF Disablers, Moves, KeepsDisabled
<1>2. disabled' = disabled /\ disabled \in Nat
  BY DEF IControl, IType, KeepsDisabled
<1>3. IsFiniteSet(Disablers') /\ disabled' = Cardinality(Disablers')
  BY <1>1, <1>2 DEF IControl, IDisabled
<1>4. ASSUME NEW c \in Checkpoints, pc'[c] \in Disabling \ {"disable"}, cleaning' PROVE FALSE
  <2>1. pc[c] \in Disabling
    BY <1>4, CheckpointIs DEF Moves, KeepsDisabled
  <2>2. disabled # 0
    <3>1. c \in Disablers /\ IsFiniteSet(Disablers) /\ disabled = Cardinality(Disablers)
      BY <2>1 DEF Disablers, IControl, IDisabled
    <3> QED BY <3>1, FS_EmptySet
  <2>3. cleaning
    BY <1>4, <2>2 DEF KeepsDisabled
  <2>4. pc[c] \in Disabling \ {"disable"}
    BY <1>4, CheckpointIs DEF Moves, KeepsDisabled
  <2> QED BY <2>3, <2>4 DEF IControl, IDisabled
<1> QED BY <1>2, <1>3, <1>4 DEF IDisabled

(* A closed database stays closed and quiet. *)
KeepsClosed(w) ==
  /\ closed' = closed
  /\ w = Closer => pc'[w] = pc[w]
  /\ closed => w \notin Readers /\ (w \in Checkpoints => pc'[w] = "idle")
  /\ w \in Jobs /\ Drained => pc'[w] \in {"idle", "pick", "picking"}

LEMMA KeepsClosedOK ==
  ASSUME IControl, NEW w \in Workers \union Readers, Moves(w), KeepsClosed(w)
  PROVE  IClosed' /\ closed' \in BOOLEAN
<1>1. pc'[Closer] = pc[Closer] /\ closed' = closed /\ closed \in BOOLEAN
  BY OthersAre DEF IControl, IType, Moves, KeepsClosed
<1>2. Drained' <=> Drained
  BY <1>1 DEF Drained
<1>3. ASSUME closed, NEW g \in Readers \union Checkpoints PROVE pc'[g] = "idle"
  BY <1>3, CheckpointIs, ReaderIs DEF IControl, IClosed, Moves, KeepsClosed
<1>4. ASSUME Drained, NEW j \in Jobs PROVE pc'[j] \in {"idle", "pick", "picking"}
  BY <1>4, JobIs DEF IControl, IClosed, Moves, KeepsClosed
<1> QED BY <1>1, <1>2, <1>3, <1>4 DEF IControl, IClosed

LEMMA ControlStep ==
  ASSUME IControl, NEW w \in Workers \union Readers, Moves(w), MovesWithin(w),
         MutexStep(w), KeepsLock(w) \/ FreesLock(w), KeepsTurn(w) \/ TakesTurn(w),
         KeepsDisabled(w), KeepsClosed(w)
  PROVE  IControl'
<1>1. PCType'
  BY PCStep DEF IControl, IType
<1>2. ILock' /\ writing' \in BOOLEAN /\ lockQ' \in Seq(Jobs \union Checkpoints)
  BY KeepsLockOK, FreesLockOK DEF FreesLock
<1>3. ITurn' /\ cleaning' \in BOOLEAN
  BY KeepsTurnOK, TakesTurnOK DEF TakesTurn
<1>4. IMutex' /\ mu' \in Workers \union {Nobody}
  BY MutexStepOK
<1>5. IDisabled' /\ disabled' \in Nat
  BY KeepsDisabledOK
<1>6. IClosed' /\ closed' \in BOOLEAN
  BY KeepsClosedOK
<1> QED BY <1>1, <1>2, <1>3, <1>4, <1>5, <1>6 DEF IControl, IType

-----------------------------------------------------------------------------
(* The steps of the jobs. *)

LEMMA FinishGoto ==
  ASSUME NEW w \in Workers, w # Closer, Finish(w)
  PROVE  Goto(w, "idle")
BY DEF Finish

LEMMA JobControl ==
  ASSUME IControl, NEW j \in Jobs, NEW s \in JobPC, Goto(j, s), pc[j] \notin Turning, s \notin Turning,
         UNCHANGED <<cleanerVars, closed>>,
         mu' = mu \/ (mu \in {Nobody, j} /\ mu' \in {Nobody, j}), s \in Holding => mu' = j,
         \/ UNCHANGED lockVars /\ pc[j] \notin {"pick", "lock"} /\ (s \in Locking => pc[j] \in Locking)
         \/ LogUnlock /\ pc[j] \in Locking /\ s \notin Locking,
         ~closed \/ pc[j] \notin {"idle", "pick", "picking"} \/ s \in {"idle", "pick", "picking"}
  PROVE  IControl'
<1>1. j \in Workers /\ j \in Workers \union Readers
  BY JobIs
<1>2. Moves(j) /\ pc'[j] = s
  BY <1>1, GotoMoves DEF IControl, IType
<1>3. MovesWithin(j)
  BY <1>2, JobIs DEF MovesWithin
<1>4. MutexStep(j)
  BY <1>1, <1>2 DEF MutexStep
<1>5. KeepsLock(j) \/ FreesLock(j)
  BY <1>1, <1>2 DEF KeepsLock, FreesLock, lockVars
<1>6. KeepsTurn(j) /\ KeepsDisabled(j)
  BY <1>2, JobIs DEF KeepsTurn, KeepsDisabled, cleanerVars, Turning
<1>7. KeepsClosed(j)
  <2>1. Drained => closed
    BY DEF Drained, IControl, IClosed
  <2>2. Drained => pc[j] \in {"idle", "pick", "picking"}
    BY DEF IControl, IClosed
  <2> QED BY <1>2, <2>1, <2>2, JobIs DEF KeepsClosed
<1> QED BY <1>1, <1>2, <1>3, <1>4, <1>5, <1>6, <1>7, ControlStep

LEMMA BeginControl ==
  ASSUME IControl, NEW j \in Jobs, NEW kind \in {"flush", "compaction", "ingest", "rotation"}, Begin(j, kind)
  PROVE  IControl'
<1>1. PICK s \in {"pick", "state", "write"} : Goto(j, s) /\ (s = "state" => mu' = j)
  BY DEF Begin
<1> QED BY <1>1, JobControl
        DEF Begin, JobPC, Turning, Holding, Locking, Built, lockVars, cleanerVars

LEMMA PickControl ==
  ASSUME IControl, NEW j \in Jobs, Pick(j) \/ PickNothing(j)
  PROVE  IControl'
<1>1. PICK s \in {"write", "lock", "idle"} : Goto(j, s) /\ (s # "idle" => ~closed)
  BY DEF Pick, PickNothing
<1>2. /\ pc[j] = "picking" /\ mu = j /\ mu' = Nobody /\ LogUnlock
      /\ UNCHANGED <<cleanerVars, closed>>
  BY DEF Pick, PickNothing
<1> QED BY <1>1, <1>2, JobControl
        DEF JobPC, Turning, Holding, Locking, Built

LEMMA OutputsControl ==
  ASSUME IControl, NEW j \in Jobs,
         NewOutput(j) \/ NoOutput(j) \/ SyncOutputs(j) \/ FailOutputs(j) \/ IngestCleanup(j)
  PROVE  IControl'
<1>1. j \in Workers /\ j # Closer
  BY JobIs
<1>2. CASE NewOutput(j) \/ SyncOutputs(j)
  <2>1. PICK s \in {"sync", "lock"} : Goto(j, s)
    BY <1>2 DEF NewOutput, SyncOutputs
  <2> QED BY <1>2, <2>1, JobControl
          DEF NewOutput, SyncOutputs, JobPC, Turning, Holding, Locking, Built, lockVars, cleanerVars
<1>3. CASE NoOutput(j) \/ IngestCleanup(j)
  <2>1. PICK s \in {"sync", "idle"} : Goto(j, s)
    BY <1>1, <1>3, FinishGoto DEF NoOutput, IngestCleanup
  <2> QED BY <1>3, <2>1, JobControl
          DEF NoOutput, IngestCleanup, JobPC, Turning, Holding, Locking, Built, lockVars, cleanerVars
<1>4. CASE FailOutputs(j)
  BY <1>4, JobControl DEF FailOutputs, JobPC, Turning, Holding, Locking, Built, lockVars, cleanerVars
<1> QED BY <1>2, <1>3, <1>4

LEMMA FailIngestControl ==
  ASSUME IControl, NEW j \in Jobs, FailIngest(j)
  PROVE  IControl'
<1>1. j \in Workers /\ j # Closer
  BY JobIs
<1>2. CASE pc[j] = "sync"
  <2>1. Goto(j, "idle")
    BY <1>1, <1>2, FinishGoto DEF FailIngest
  <2> QED BY <1>2, <2>1, JobControl DEF FailIngest, JobPC, Turning, Holding, Locking, Built
<1>3. CASE pc[j] # "sync"
  BY <1>3, JobControl DEF FailIngest, JobPC, Turning, Holding, Locking, Built
<1> QED BY <1>2, <1>3

LEMMA ManifestControl ==
  ASSUME IControl, NEW j \in Jobs,
         \/ \E replace \in BOOLEAN : Edit(j, replace)
         \/ CreateManifest(j) \/ FailManifest(j) \/ AppendEdit(j) \/ SetCurrentFile(j) \/ Install(j)
  PROVE  IControl'
<1>1. CASE \E replace \in BOOLEAN : Edit(j, replace)
  <2>1. PICK s \in {"create", "append"} : Goto(j, s)
    BY <1>1 DEF Edit
  <2> QED BY <1>1, <2>1, JobControl
          DEF Edit, JobPC, Turning, Holding, Locking, Built, lockVars, cleanerVars
<1>2. CASE CreateManifest(j) \/ AppendEdit(j) \/ SetCurrentFile(j)
  <2>1. PICK s \in {"append", "install", "setcurrent"} : Goto(j, s)
    BY <1>2 DEF CreateManifest, AppendEdit, SetCurrentFile
  <2> QED BY <1>2, <2>1, JobControl
          DEF CreateManifest, AppendEdit, SetCurrentFile, JobPC, Turning, Holding, Locking, Built, lockVars,
              cleanerVars
<1>3. CASE FailManifest(j)
  <2>1. PICK s \in {"cleanup", "clean"} : Goto(j, s) /\ (s = "clean" => mu' = j) /\ mu' \in {mu, j}
    BY <1>3 DEF FailManifest
  <2> QED BY <1>3, <2>1, JobControl DEF FailManifest, JobPC, Turning, Holding, Locking, Built
<1>4. CASE Install(j)
  BY <1>4, JobControl DEF Install, JobPC, Turning, Holding, Locking, Built
<1> QED BY <1>1, <1>2, <1>3, <1>4

LEMMA StateControl ==
  ASSUME IControl, NEW j \in Jobs, SwapState(j) \/ UnrefOld(j)
  PROVE  IControl'
<1>1. j \in Workers /\ j # Closer
  BY JobIs
<1>2. CASE SwapState(j)
  BY <1>2, JobControl DEF SwapState, JobPC, Turning, Holding, Locking, Built, lockVars, cleanerVars
<1>3. CASE UnrefOld(j)
  <2>1. PICK s \in {"idle", "clean"} : Goto(j, s) /\ (s = "clean" => mu' = mu)
    BY <1>1, <1>3, FinishGoto DEF UnrefOld
  <2>2. mu = j /\ mu' \in {mu, Nobody} /\ pc[j] = "unrefold" /\ UNCHANGED <<lockVars, cleanerVars, closed>>
    BY <1>3 DEF UnrefOld
  <2> QED BY <2>1, <2>2, JobControl DEF JobPC, Turning, Holding, Locking, Built
<1> QED BY <1>2, <1>3

(* Taking the manifest lock, or falling asleep on it. *)
LEMMA LogLockControl ==
  ASSUME IControl, NEW w \in Jobs \union Checkpoints, LogLock(w)
  PROVE  IControl'
<1>1. w \in Workers /\ w \in Workers \union Readers /\ w # Closer /\ w # Cleaner /\ w \notin Readers
  BY JobIs, CheckpointIs
<1>2. /\ pc[w] \in {"pick", "lock"} /\ w \notin ToSet(lockQ) /\ mu \in {Nobody, w} /\ mu' \in {Nobody, w}
      /\ UNCHANGED <<cleanerVars, closed>>
  BY DEF LogLock
<1>3. lockQ \in Seq(Jobs \union Checkpoints) /\ writing \in BOOLEAN
  BY DEF IControl, IType
<1>4. CASE writing
  <2>1. lockQ' = Append(lockQ, w) /\ mu' = Nobody /\ UNCHANGED <<pc, writing>>
    BY <1>4 DEF LogLock
  <2>2. Moves(w) /\ pc'[w] = pc[w]
    BY <2>1, StayMoves
  <2>3. MutexStep(w)
    BY <1>1, <1>2, <2>1, <2>2 DEF MutexStep, Holding
  <2>4. KeepsTurn(w) /\ KeepsDisabled(w) /\ KeepsClosed(w)
    BY <1>1, <1>2, <2>1, CheckpointIs DEF KeepsTurn, KeepsDisabled, KeepsClosed, cleanerVars, IControl, IClosed
  <2>5. ILock' /\ writing' \in BOOLEAN /\ lockQ' \in Seq(Jobs \union Checkpoints)
    <3>1. lockQ' \in Seq(Jobs \union Checkpoints) /\ Len(lockQ') = Len(lockQ) + 1 /\ Len(lockQ) \in Nat
      BY <1>3, <2>1
    <3>2. \A i \in 1 .. Len(lockQ') : lockQ'[i] = IF i <= Len(lockQ) THEN lockQ[i] ELSE w
      BY <1>3, <2>1
    <3>3. \A i \in 1 .. Len(lockQ) : lockQ[i] # w
      BY <1>2, <1>3 DEF ToSet
    <3>4. \A i, k \in 1 .. Len(lockQ') : lockQ'[i] = lockQ'[k] => i = k
      <4>1. ASSUME NEW i \in 1 .. Len(lockQ'), NEW k \in 1 .. Len(lockQ'), lockQ'[i] = lockQ'[k]
            PROVE  i = k
        <5>1. CASE i <= Len(lockQ) /\ k <= Len(lockQ)
          BY <3>1, <3>2, <4>1, <5>1 DEF IControl, ILock
        <5>2. CASE i <= Len(lockQ) /\ ~(k <= Len(lockQ))
          BY <3>1, <3>2, <3>3, <4>1, <5>2
        <5>3. CASE ~(i <= Len(lockQ)) /\ k <= Len(lockQ)
          BY <3>1, <3>2, <3>3, <4>1, <5>3
        <5>4. CASE ~(i <= Len(lockQ)) /\ ~(k <= Len(lockQ))
          BY <3>1, <5>4
        <5> QED BY <5>1, <5>2, <5>3, <5>4
      <4> QED BY <4>1
    <3>5. \A i \in 1 .. Len(lockQ') : pc'[lockQ'[i]] \in {"pick", "lock"}
      BY <1>2, <2>1, <3>1, <3>2 DEF IControl, ILock
    <3> QED BY <1>4, <2>1, <3>1, <3>4, <3>5 DEF IControl, ILock
  <2>6. PCType'
    BY <2>1 DEF IControl, IType, PCType
  <2> QED BY <1>1, <2>2, <2>3, <2>4, <2>5, <2>6, MutexStepOK, KeepsTurnOK, KeepsDisabledOK, KeepsClosedOK
          DEF IControl, IType
<1>5. CASE ~writing
  <2>1. /\ writing' = TRUE /\ mu' = w /\ lockQ' = lockQ
        /\ \E s \in {"picking", "edit", "snapshot"} :
             Goto(w, s) /\ (s = "picking" <=> pc[w] = "pick") /\ (s = "edit" => w \in Jobs)
               /\ (s = "snapshot" => w \in Checkpoints)
    BY <1>2, <1>5 DEF LogLock
  <2>2. PICK s \in {"picking", "edit", "snapshot"} :
             Goto(w, s) /\ (s = "picking" <=> pc[w] = "pick") /\ (s = "edit" => w \in Jobs)
               /\ (s = "snapshot" => w \in Checkpoints)
    BY <2>1
  <2>3. Moves(w) /\ pc'[w] = s
    BY <1>1, <2>2, GotoMoves DEF IControl, IType
  <2>4. w \in Checkpoints => s = "snapshot" /\ pc[w] = "lock" /\ w \notin Jobs
    BY <1>2, <2>2, CheckpointIs DEF IControl, IType, PCType, CheckpointPC
  <2>5. MovesWithin(w)
    BY <1>1, <2>2, <2>3, <2>4 DEF MovesWithin, JobPC, CheckpointPC
  <2>6. MutexStep(w)
    BY <1>1, <1>2, <2>1, <2>3 DEF MutexStep
  <2>7. KeepsTurn(w)
    BY <1>2, <2>3, <2>2 DEF KeepsTurn, Turning, cleanerVars
  <2>8. KeepsDisabled(w)
    BY <1>2, <2>3, <2>4 DEF KeepsDisabled, cleanerVars, Disabling
  <2>9. KeepsClosed(w)
    <3>1. w \in Jobs /\ Drained => s = "picking"
      BY <1>2, <2>2 DEF IControl, IClosed
    <3>2. w \in Checkpoints => ~closed
      BY <1>2 DEF IControl, IClosed
    <3> QED BY <1>1, <1>2, <2>3, <3>1, <3>2 DEF KeepsClosed
  <2>10. ILock' /\ writing' \in BOOLEAN /\ lockQ' \in Seq(Jobs \union Checkpoints)
    <3>1. \A x \in Workers : pc'[x] \in Locking => x = w
      BY <1>5, <2>3 DEF IControl, ILock, Moves
    <3>2. \A i \in 1 .. Len(lockQ) : lockQ[i] # w /\ lockQ[i] \in Jobs \union Checkpoints
      BY <1>2, <1>3 DEF ToSet
    <3>3. \A i \in 1 .. Len(lockQ) : pc'[lockQ[i]] \in {"pick", "lock"}
      BY <2>3, <3>2, JobIs, CheckpointIs DEF IControl, ILock, Moves
    <3> QED BY <1>3, <2>1, <3>1, <3>3 DEF IControl, ILock
  <2>11. PCType'
    BY <1>1, <2>3, <2>5, PCStep DEF IControl, IType
  <2> QED BY <1>1, <2>3, <2>6, <2>7, <2>8, <2>9, <2>10, <2>11, MutexStepOK, KeepsTurnOK, KeepsDisabledOK,
             KeepsClosedOK
          DEF IControl, IType
<1> QED BY <1>3, <1>4, <1>5

-----------------------------------------------------------------------------
(* The steps of the cleaners. *)

LEMMA FinishWithin ==
  ASSUME IControl, NEW w \in Workers, Finish(w)
  PROVE  /\ Moves(w) /\ MovesWithin(w) /\ pc'[w] = (IF w = Closer THEN "deleters" ELSE "idle")
<1>1. Moves(w) /\ pc'[w] = (IF w = Closer THEN "deleters" ELSE "idle")
  BY WorkerIs, GotoMoves DEF Finish, IControl, IType
<1> QED BY <1>1, OthersAre, WorkerIs DEF MovesWithin, JobPC, CheckpointPC, CleanerPC, CloserPC

(* The closer may move on once it is past the read state. *)
LEMMA CleanerClosed ==
  ASSUME IControl, NEW w \in Workers, Moves(w), closed' = closed, pc[w] \in {"clean", "turn", "delete"},
         pc'[w] \in {"turn", "delete", "deleters", "idle"}, pc'[w] = "idle" => w # Closer,
         pc'[w] = "deleters" => w = Closer
  PROVE  IClosed' /\ closed' \in BOOLEAN
<1>1. CASE w = Closer
  <2>1. /\ closed /\ Drained /\ Drained' /\ pc'[Closer] # "idle"
        /\ \A g \in Readers \union Checkpoints : g # Closer /\ g \in Workers \union Readers
        /\ \A j \in Jobs : j # Closer /\ j \in Workers \union Readers
    BY <1>1, OthersAre, JobIs, CheckpointIs, ReaderIs DEF IControl, IClosed, Drained
  <2> QED BY <1>1, <2>1 DEF IControl, IType, IClosed, Moves
<1>2. CASE w # Closer
  <2>1. w \in Checkpoints => ~closed
    BY DEF IControl, IClosed
  <2>2. w \in Jobs => ~Drained
    BY DEF IControl, IClosed
  <2>3. KeepsClosed(w)
    BY <1>2, <2>1, <2>2, WorkerIs DEF KeepsClosed
  <2> QED BY <2>3, WorkerIs, KeepsClosedOK
<1> QED BY <1>1, <1>2

(* A step that keeps the invariant but for IClosed, which is known. *)
LEMMA ControlParts ==
  ASSUME IControl, NEW w \in Workers \union Readers, Moves(w), MovesWithin(w),
         MutexStep(w), KeepsLock(w), KeepsTurn(w) \/ TakesTurn(w), IDisabled' /\ disabled' \in Nat,
         IClosed' /\ closed' \in BOOLEAN
  PROVE  IControl'
<1>1. PCType'
  BY PCStep DEF IControl, IType
<1>2. ILock' /\ writing' \in BOOLEAN /\ lockQ' \in Seq(Jobs \union Checkpoints)
  BY KeepsLockOK
<1>3. ITurn' /\ cleaning' \in BOOLEAN
  BY KeepsTurnOK, TakesTurnOK DEF TakesTurn
<1>4. IMutex' /\ mu' \in Workers \union {Nobody}
  BY MutexStepOK
<1> QED BY <1>1, <1>2, <1>3, <1>4 DEF IControl, IType

LEMMA AcquireControl ==
  ASSUME IControl, NEW w \in Workers, AcquireCleaningTurn(w)
  PROVE  IControl'
<1>1. w \in Workers \union Readers /\ w \notin Readers
  BY WorkerIs
<1>2. /\ pc[w] \in {"clean", "turn"} /\ mu \in {Nobody, w} /\ mu' = Nobody
      /\ closed' = closed /\ UNCHANGED lockVars /\ disabled' = disabled
  BY DEF AcquireCleaningTurn
<1>3. w # Cleaner
  BY <1>2 DEF IControl, IType, PCType, CleanerPC
<1>4. /\ Moves(w) /\ MovesWithin(w) /\ (KeepsTurn(w) \/ TakesTurn(w))
      /\ pc'[w] \in {"turn", "delete", "deleters", "idle"}
      /\ (pc'[w] = "idle" => w # Closer) /\ (pc'[w] = "deleters" => w = Closer)
      /\ cleaning' => cleaning \/ disabled = 0
  <2>1. CASE cleaning /\ disabled = 0 /\ asleep' = asleep \union {w} /\ Goto(w, "turn")
             /\ UNCHANGED <<cleaning, taken, todo>>
    <3>1. Moves(w) /\ pc'[w] = "turn"
      BY <1>1, <2>1, GotoMoves DEF IControl, IType
    <3> QED BY <1>1, <1>2, <1>3, <2>1, <3>1
            DEF MovesWithin, KeepsTurn, Turning, JobPC, CheckpointPC, CloserPC
  <2>2. CASE disabled > 0 /\ Finish(w) /\ UNCHANGED <<cleaning, taken, todo, asleep>>
    BY <1>2, <2>2, FinishWithin DEF KeepsTurn, Turning
  <2>3. CASE ~cleaning /\ disabled = 0 /\ cleaning' = TRUE /\ Goto(w, "delete") /\ UNCHANGED asleep
    <3>1. Moves(w) /\ pc'[w] = "delete"
      BY <1>1, <2>3, GotoMoves DEF IControl, IType
    <3> QED BY <1>1, <1>2, <1>3, <2>3, <3>1
            DEF MovesWithin, TakesTurn, Turning, JobPC, CheckpointPC, CloserPC
  <2> QED BY <2>1, <2>2, <2>3 DEF AcquireCleaningTurn
<1>5. MutexStep(w) /\ KeepsLock(w)
  BY <1>2, <1>4 DEF MutexStep, KeepsLock, lockVars, Holding, Locking, Built
<1>6. KeepsDisabled(w)
  BY <1>2, <1>4, OthersAre DEF KeepsDisabled, Disabling
<1>7. IClosed' /\ closed' \in BOOLEAN
  BY <1>2, <1>4, CleanerClosed
<1> QED BY <1>1, <1>4, <1>5, <1>6, <1>7, ControlParts, KeepsDisabledOK

LEMMA DeleteControl ==
  ASSUME IControl, NEW w \in Workers, DeleteFile(w)
  PROVE  IControl'
<1>1. /\ UNCHANGED <<pc, mu, lockVars, cleaning, disabled, asleep, taken, closed>> /\ pc[w] = "delete"
      /\ w \in Workers \union Readers
  BY WorkerIs DEF DeleteFile
<1>2. Moves(w) /\ pc'[w] = pc[w] /\ MovesWithin(w)
  BY <1>1, StayMoves DEF MovesWithin, IControl, IType, PCType
<1>3. MutexStep(w) /\ KeepsLock(w) /\ KeepsTurn(w)
  BY <1>1, <1>2 DEF MutexStep, KeepsLock, KeepsTurn, lockVars, Holding
<1>4. KeepsDisabled(w)
  BY <1>1, <1>2 DEF KeepsDisabled
<1>5. IClosed' /\ closed' \in BOOLEAN
  BY <1>1, <1>2, CleanerClosed
<1> QED BY <1>1, <1>2, <1>3, <1>4, <1>5, ControlParts, KeepsDisabledOK

LEMMA ReleaseControl ==
  ASSUME IControl, NEW w \in Workers, ReleaseCleaningTurn(w)
  PROVE  IControl'
<1>1. /\ UNCHANGED <<mu, lockVars, disabled, todo, closed>> /\ pc[w] = "delete" /\ todo = {} /\ mu = Nobody
      /\ taken' = {} /\ cleaning' = FALSE /\ asleep' = {} /\ w \in Workers \union Readers
  BY WorkerIs DEF ReleaseCleaningTurn, Broadcast
<1>2. Moves(w) /\ MovesWithin(w) /\ pc'[w] = (IF w = Closer THEN "deleters" ELSE "idle")
  BY FinishWithin DEF ReleaseCleaningTurn
<1>3. PCType'
  BY <1>1, <1>2, PCStep DEF IControl, IType
<1>4. MutexStep(w) /\ KeepsLock(w)
  BY <1>1, <1>2 DEF MutexStep, KeepsLock, lockVars, Holding, Locking, Built
<1>5. IMutex' /\ mu' \in Workers \union {Nobody} /\ ILock' /\ writing' \in BOOLEAN
        /\ lockQ' \in Seq(Jobs \union Checkpoints)
  BY <1>1, <1>2, <1>4, MutexStepOK, KeepsLockOK
<1>6. ITurn' /\ cleaning' \in BOOLEAN
  <2>1. \A x \in Workers : pc'[x] \notin Turning
    BY <1>1, <1>2 DEF IControl, ITurn, Moves, Turning
  <2> QED BY <1>1, <2>1 DEF ITurn
<1>7. KeepsDisabled(w)
  BY <1>1, <1>2, OthersAre DEF KeepsDisabled, Disabling
<1>8. IDisabled' /\ disabled' \in Nat
  BY <1>1, <1>2, <1>7, KeepsDisabledOK
<1>9. IClosed' /\ closed' \in BOOLEAN
  BY <1>1, <1>2, CleanerClosed
<1> QED BY <1>3, <1>5, <1>6, <1>8, <1>9 DEF IControl, IType

LEMMA CleanerStartControl ==
  ASSUME IControl, CleanerStart
  PROVE  IControl'
<1>1. /\ UNCHANGED <<mu, lockVars, cleaning, disabled, asleep, closed>> /\ pc[Cleaner] = "start"
      /\ Goto(Cleaner, "delete")
  BY DEF CleanerStart
<1>2. Moves(Cleaner) /\ pc'[Cleaner] = "delete" /\ MovesWithin(Cleaner)
  BY <1>1, OthersAre, GotoMoves DEF MovesWithin, CleanerPC, IControl, IType
<1>3. MutexStep(Cleaner) /\ KeepsLock(Cleaner) /\ KeepsTurn(Cleaner) /\ KeepsDisabled(Cleaner)
        /\ KeepsClosed(Cleaner)
  BY <1>1, <1>2, OthersAre
     DEF MutexStep, KeepsLock, KeepsTurn, KeepsDisabled, KeepsClosed, lockVars, Holding, Locking, Built, Turning
<1> QED BY <1>2, <1>3, OthersAre, ControlStep

(* The steps of no goroutine of the model. *)
LEMMA StutterControl ==
  ASSUME IControl,
         UNCHANGED <<pc, mu, lockVars, cleaning, disabled, asleep, taken, todo, closed>>
  PROVE  IControl'
BY DEF IControl, IType, PCType, IMutex, ILock, Coming, ITurn, IDisabled, Disablers, IClosed, Drained, lockVars

LEMMA PacedControl ==
  ASSUME IControl, PacedDelete
  PROVE  IControl'
BY StutterControl DEF PacedDelete, cleanerVars

-----------------------------------------------------------------------------
(* The steps of the readers. *)

LEMMA ReaderControl ==
  ASSUME IControl, NEW r \in Readers, Load(r) \/ UnrefState(r) \/ UnrefVersion(r) \/ UnrefFiles(r) \/ RemoveVersion(r)
  PROVE  IControl'
<1>1. /\ UNCHANGED <<mu, lockVars, cleaning, disabled, asleep, taken, todo, closed>> /\ ~closed
      /\ \E s \in ReaderPC : Goto(r, s)
  <2>1. UNCHANGED <<mu, lockVars, cleaning, disabled, asleep, taken, todo, closed>>
    BY DEF Load, UnrefState, UnrefVersion, UnrefFiles, RemoveVersion, readerRest
  <2>2. \E s \in ReaderPC : Goto(r, s)
    BY DEF Load, UnrefState, UnrefVersion, UnrefFiles, RemoveVersion, ReaderPC
  <2>3. ~closed
    BY DEF Load, UnrefState, UnrefVersion, UnrefFiles, RemoveVersion, IControl, IClosed
  <2> QED BY <2>1, <2>2, <2>3
<1>2. Moves(r) /\ pc'[r] \in ReaderPC /\ pc[r] \in ReaderPC
  BY <1>1, ReaderIs, GotoMoves DEF IControl, IType, PCType
<1>3. MovesWithin(r)
  BY <1>2, ReaderIs DEF MovesWithin
<1>4. MutexStep(r) /\ KeepsLock(r) /\ KeepsTurn(r) /\ KeepsDisabled(r)
  BY <1>1, <1>2, ReaderIs
     DEF MutexStep, KeepsLock, KeepsTurn, KeepsDisabled, lockVars, Holding, Locking, Built, Turning, ReaderPC
<1>5. KeepsClosed(r)
  BY <1>1, ReaderIs DEF KeepsClosed
<1> QED BY <1>2, <1>3, <1>4, <1>5, ReaderIs, ControlStep

(* Schedule moves the cleaner, too. *)
LEMMA ScheduleControl ==
  ASSUME IControl, NEW r \in Readers, Schedule(r)
  PROVE  IControl'
<1> DEFINE take == obsolete # {} /\ ~cleaning /\ disabled = 0
<1>1. /\ UNCHANGED <<mu, lockVars, disabled, asleep, taken, todo, closed>> /\ pc[r] = "schedule"
      /\ cleaning' = (cleaning \/ take)
      /\ pc' = [pc EXCEPT ![r] = "idle", ![Cleaner] = IF take THEN "start" ELSE @]
  BY DEF Schedule, readerRest
<1> HIDE DEF take
<1>2. r # Cleaner /\ r \in DOMAIN pc /\ Cleaner \in DOMAIN pc /\ ~closed
  BY <1>1, ReaderIs, OthersAre DEF IControl, IType, PCType, IClosed
<1>3. /\ DOMAIN pc' = DOMAIN pc /\ pc'[r] = "idle" /\ pc'[Cleaner] = IF take THEN "start" ELSE pc[Cleaner]
      /\ \A x \in DOMAIN pc : x # r /\ x # Cleaner => pc'[x] = pc[x]
  BY <1>1, <1>2
<1>4. take => ~cleaning /\ disabled = 0
  BY DEF take
<1>5. DOMAIN pc = Workers \union Readers
  BY DEF IControl, IType, PCType
<1>6. PCType'
  <2>1. \A j \in Jobs : pc'[j] = pc[j]
    BY <1>3, <1>5, JobIs, ReaderIs
  <2>2. \A c \in Checkpoints : pc'[c] = pc[c]
    BY <1>3, <1>5, CheckpointIs, ReaderIs
  <2>3. \A q \in Readers : pc'[q] = IF q = r THEN "idle" ELSE pc[q]
    BY <1>3, <1>5, ReaderIs
  <2>4. pc'[Closer] = pc[Closer]
    BY <1>3, <1>5, OthersAre
  <2> QED BY <1>3, <2>1, <2>2, <2>3, <2>4 DEF IControl, IType, PCType, ReaderPC, CleanerPC
<1>7. \A x \in Workers : x # Cleaner => pc'[x] = pc[x]
  BY <1>3, <1>5, ReaderIs
<1>8. pc[Cleaner] \in CleanerPC /\ pc'[Cleaner] \in CleanerPC
  BY <1>6 DEF IControl, IType, PCType
<1>9. IMutex' /\ mu' \in Workers \union {Nobody}
  BY <1>1, <1>7, <1>8 DEF IControl, IType, IMutex, Holding, CleanerPC
<1>10. ILock' /\ writing' \in BOOLEAN /\ lockQ' \in Seq(Jobs \union Checkpoints)
  <2>1. \A x \in Workers : pc'[x] \in Locking => pc[x] \in Locking
    BY <1>7, <1>8 DEF Locking, Built, CleanerPC
  <2>2. \A x \in Jobs \union Checkpoints : pc'[x] = pc[x]
    BY <1>7, JobIs, CheckpointIs
  <2>3. lockQ' = lockQ /\ writing' = writing /\ lockQ \in Seq(Jobs \union Checkpoints)
    BY <1>1 DEF lockVars, IControl, IType
  <2>4. Coming => Coming'
    BY <2>2, <2>3 DEF Coming
  <2>5. \A i \in 1 .. Len(lockQ) : pc'[lockQ[i]] = pc[lockQ[i]]
    BY <2>2, <2>3
  <2> QED BY <2>1, <2>3, <2>4, <2>5 DEF IControl, IType, ILock
<1>11. ITurn' /\ cleaning' \in BOOLEAN
  <2>1. CASE take
    <3>1. \A x \in Workers : pc[x] \notin Turning
      BY <1>4, <2>1 DEF IControl, ITurn
    <3>2. \A x \in Workers : pc'[x] \in Turning <=> x = Cleaner
      BY <1>3, <1>7, <2>1, <3>1 DEF Turning
    <3> QED BY <1>1, <2>1, <3>1, <3>2, OthersAre DEF IControl, ITurn, Turning
  <2>2. CASE ~take
    <3>1. \A x \in Workers : pc'[x] = pc[x]
      BY <1>3, <1>7, <2>2
    <3> QED BY <1>1, <2>2, <3>1 DEF IControl, IType, ITurn
  <2> QED BY <2>1, <2>2
<1>12. IDisabled' /\ disabled' \in Nat
  <2>1. \A c \in Checkpoints : pc'[c] = pc[c]
    BY <1>7, CheckpointIs
  <2>2. Disablers' = Disablers
    BY <2>1 DEF Disablers
  <2>3. disabled = 0 => Disablers = {}
    BY FS_EmptySet DEF IControl, IDisabled
  <2>4. disabled' = disabled /\ disabled \in Nat
    BY <1>1 DEF IControl, IType
  <2>5. take => \A c \in Checkpoints : pc[c] \notin Disabling
    BY <1>4, <2>3 DEF Disablers
  <2> QED BY <1>1, <2>1, <2>2, <2>4, <2>5 DEF IControl, IDisabled
<1>13. IClosed' /\ closed' \in BOOLEAN
  <2>1. pc'[Closer] = pc[Closer] /\ closed' = closed
    BY <1>1, <1>7, OthersAre
  <2>2. \A j \in Jobs : pc'[j] = pc[j]
    BY <1>7, JobIs
  <2> QED BY <1>2, <2>1, <2>2 DEF IControl, IType, IClosed, Drained
<1> QED BY <1>6, <1>9, <1>10, <1>11, <1>12, <1>13 DEF IControl, IType

-----------------------------------------------------------------------------
(* The steps of checkpoints. *)

LEMMA CheckpointClosed ==
  ASSUME IControl, NEW c \in Checkpoints, closed' = closed, pc[c] # "idle" \/ ~closed
  PROVE  KeepsClosed(c)
BY CheckpointIs DEF KeepsClosed, IControl, IClosed

(* disableFileDeletions waits for the turn, or goes on. *)
LEMMA AwaitTurnSteps ==
  ASSUME IControl, NEW c \in Checkpoints, mu = Nobody, AwaitTurn(c),
         UNCHANGED <<lockVars, cleaning, taken, todo, closed>>, pc[c] \in {"idle", "disable"}
  PROVE  /\ Moves(c) /\ MovesWithin(c) /\ MutexStep(c) /\ KeepsLock(c) /\ KeepsTurn(c)
         /\ pc'[c] \in {"disable", "lock"} /\ (pc'[c] = "lock" => ~cleaning')
<1>1. PICK s \in {"disable", "lock"} : /\ Goto(c, s) /\ (s = "lock" => ~cleaning) /\ mu' \in {Nobody, c}
                                       /\ asleep' \subseteq asleep \/ cleaning
  BY DEF AwaitTurn, Broadcast
<1>2. Moves(c) /\ pc'[c] = s
  BY <1>1, CheckpointIs, GotoMoves DEF IControl, IType
<1>3. MovesWithin(c)
  BY <1>2, CheckpointIs DEF MovesWithin, CheckpointPC
<1> QED BY <1>1, <1>2, <1>3, CheckpointIs
        DEF MutexStep, KeepsLock, KeepsTurn, lockVars, Holding, Locking, Built, Turning

LEMMA DisableControl ==
  ASSUME IControl, NEW c \in Checkpoints, Disable(c)
  PROVE  IControl'
<1>1. /\ pc[c] = "idle" /\ mu = Nobody /\ ~closed /\ disabled' = disabled + 1 /\ AwaitTurn(c)
      /\ UNCHANGED <<lockVars, cleaning, taken, todo, closed>>
  BY DEF Disable, ckptRest
<1>2. /\ Moves(c) /\ MovesWithin(c) /\ MutexStep(c) /\ KeepsLock(c) /\ KeepsTurn(c)
      /\ pc'[c] \in {"disable", "lock"} /\ (pc'[c] = "lock" => ~cleaning')
  BY <1>1, AwaitTurnSteps
<1>3. KeepsClosed(c)
  BY <1>1, CheckpointClosed
<1>4. IClosed' /\ closed' \in BOOLEAN
  BY <1>2, <1>3, CheckpointIs, KeepsClosedOK
<1>5. IDisabled' /\ disabled' \in Nat
  <2>1. IsFiniteSet(Disablers) /\ disabled = Cardinality(Disablers) /\ disabled \in Nat
    BY DEF IControl, IType, IDisabled
  <2>2. c \notin Disablers
    BY <1>1 DEF Disablers, Disabling
  <2>3. Disablers' = Disablers \union {c}
    BY <1>2, CheckpointIs DEF Disablers, Moves, Disabling
  <2>4. IsFiniteSet(Disablers') /\ Cardinality(Disablers') = disabled + 1
    BY <2>1, <2>2, <2>3, FS_AddElement
  <2>5. ASSUME NEW x \in Checkpoints, pc'[x] \in Disabling \ {"disable"} PROVE ~cleaning'
    <3>1. CASE x = c
      BY <1>2, <2>5, <3>1
    <3>2. CASE x # c
      BY <1>1, <1>2, <2>5, <3>2, CheckpointIs DEF IControl, IDisabled, Moves
    <3> QED BY <3>1, <3>2
  <2> QED BY <1>1, <2>1, <2>4, <2>5 DEF IDisabled
<1> QED BY <1>2, <1>4, <1>5, CheckpointIs, ControlParts

LEMMA DisableWokenControl ==
  ASSUME IControl, NEW c \in Checkpoints, DisableWoken(c)
  PROVE  IControl'
<1>1. /\ pc[c] = "disable" /\ mu = Nobody /\ disabled' = disabled /\ AwaitTurn(c)
      /\ UNCHANGED <<lockVars, cleaning, taken, todo, closed>>
  BY DEF DisableWoken, ckptRest
<1>2. /\ Moves(c) /\ MovesWithin(c) /\ MutexStep(c) /\ KeepsLock(c) /\ KeepsTurn(c)
      /\ pc'[c] \in {"disable", "lock"} /\ (pc'[c] = "lock" => ~cleaning')
  BY <1>1, AwaitTurnSteps
<1>3. KeepsClosed(c)
  BY <1>1, CheckpointClosed
<1>4. KeepsDisabled(c)
  BY <1>1, <1>2 DEF KeepsDisabled, Disabling
<1> QED BY <1>2, <1>3, <1>4, CheckpointIs, ControlStep

LEMMA CopyControl ==
  ASSUME IControl, NEW c \in Checkpoints,
         Snapshot(c) \/ CopyManifest(c) \/ LinkTable(c) \/ FailCheckpoint(c)
  PROVE  IControl'
<1>1. /\ UNCHANGED <<cleanerVars, closed>> /\ pc[c] \in {"snapshot", "copy", "link"}
      /\ MutexStep(c) /\ Moves(c) /\ pc'[c] \in {"copy", "link", "enable"}
      /\ \/ UNCHANGED lockVars /\ pc[c] # "snapshot"
         \/ LogUnlock /\ pc[c] = "snapshot"
  <2>1. CASE Snapshot(c)
    BY <2>1, CheckpointIs, GotoMoves DEF Snapshot, MutexStep, ckptRest, IControl, IType, Holding
  <2>2. CASE CopyManifest(c) \/ FailCheckpoint(c)
    BY <2>2, CheckpointIs, GotoMoves DEF CopyManifest, FailCheckpoint, MutexStep, ckptRest, IControl, IType, Holding
  <2>3. CASE LinkTable(c)
    BY <2>3, CheckpointIs, StayMoves DEF LinkTable, MutexStep, ckptRest, Holding
  <2> QED BY <2>1, <2>2, <2>3
<1>2. MovesWithin(c)
  BY <1>1, CheckpointIs DEF MovesWithin, CheckpointPC
<1>3. KeepsLock(c) \/ FreesLock(c)
  BY <1>1, CheckpointIs DEF KeepsLock, FreesLock, lockVars, Locking, Built
<1>4. KeepsTurn(c)
  BY <1>1 DEF KeepsTurn, cleanerVars, Turning
<1>5. KeepsDisabled(c)
  BY <1>1 DEF KeepsDisabled, cleanerVars, Disabling
<1>6. KeepsClosed(c)
  BY <1>1, CheckpointClosed
<1> QED BY <1>1, <1>2, <1>3, <1>4, <1>5, <1>6, CheckpointIs, ControlStep

LEMMA EnableControl ==
  ASSUME IControl, NEW c \in Checkpoints, Enable(c)
  PROVE  IControl'
<1>1. /\ pc[c] \in {"enable", "link"} /\ mu = Nobody /\ disabled' = disabled - 1
      /\ UNCHANGED <<lockVars, cleaning, asleep, taken, todo, closed>>
  BY DEF Enable
<1>2. PICK s \in {"idle", "clean"} : Goto(c, s) /\ (s = "clean" => mu' = c) /\ mu' \in {Nobody, c}
  BY <1>1, CheckpointIs, FinishGoto DEF Enable
<1>3. Moves(c) /\ pc'[c] = s
  BY <1>2, CheckpointIs, GotoMoves DEF IControl, IType
<1>4. MovesWithin(c)
  BY <1>3, CheckpointIs DEF MovesWithin, CheckpointPC
<1>5. MutexStep(c) /\ KeepsLock(c) /\ KeepsTurn(c)
  BY <1>1, <1>2, <1>3, CheckpointIs
     DEF MutexStep, KeepsLock, KeepsTurn, lockVars, Holding, Locking, Built, Turning
<1>6. KeepsClosed(c)
  BY <1>1, CheckpointClosed
<1>7. IClosed' /\ closed' \in BOOLEAN
  BY <1>3, <1>6, CheckpointIs, KeepsClosedOK
<1>8. IDisabled' /\ disabled' \in Nat
  <2>1. IsFiniteSet(Disablers) /\ disabled = Cardinality(Disablers) /\ disabled \in Nat
    BY DEF IControl, IType, IDisabled
  <2>2. c \in Disablers
    BY <1>1 DEF Disablers, Disabling
  <2>3. Disablers' = Disablers \ {c}
    BY <1>3, CheckpointIs DEF Disablers, Moves, Disabling
  <2>4. IsFiniteSet(Disablers') /\ Cardinality(Disablers') = disabled - 1 /\ Cardinality(Disablers') \in Nat
    BY <2>1, <2>2, <2>3, FS_RemoveElement, FS_CardinalityType
  <2>5. ASSUME NEW x \in Checkpoints, pc'[x] \in Disabling \ {"disable"} PROVE ~cleaning'
    <3>1. x # c
      BY <1>3, <2>5 DEF Disabling
    <3> QED BY <1>1, <1>3, <2>5, <3>1, CheckpointIs DEF IControl, IDisabled, Moves
  <2> QED BY <1>1, <2>1, <2>4, <2>5 DEF IDisabled
<1> QED BY <1>3, <1>4, <1>5, <1>7, <1>8, CheckpointIs, ControlParts

-----------------------------------------------------------------------------
(* The steps of Close. *)

LEMMA CloseControl ==
  ASSUME IControl, BeginClose \/ CloseState \/ Drain \/ AwaitDeleters
  PROVE  IControl'
<1>1. /\ Moves(Closer) /\ MovesWithin(Closer) /\ MutexStep(Closer) /\ UNCHANGED <<lockVars, disabled, taken, todo>>
      /\ pc[Closer] \notin Locking \union Turning \union {"pick", "lock"}
      /\ pc'[Closer] \notin Locking \union Turning
      /\ cleaning' = cleaning /\ (asleep' = asleep \/ cleaning)
      /\ IClosed' /\ closed' \in BOOLEAN
  <2>1. CASE BeginClose
    <3>1. Moves(Closer) /\ pc'[Closer] = "wait" /\ closed' = TRUE /\ pc[Closer] = "idle"
      BY <2>1, OthersAre, GotoMoves DEF BeginClose, IControl, IType, IClosed
    <3>2. \A g \in Readers \union Checkpoints : pc'[g] = "idle"
      BY <2>1, <3>1, CheckpointIs, ReaderIs DEF BeginClose, Moves
    <3> QED BY <2>1, <3>1, <3>2, OthersAre
            DEF BeginClose, closeRest, MovesWithin, CloserPC, MutexStep, Holding, Locking, Built, Turning,
                IClosed, Drained
  <2>2. CASE CloseState
    <3>1. /\ Moves(Closer) /\ pc'[Closer] \in {"drain", "leaked"} /\ closed' = closed /\ pc[Closer] = "wait"
      BY <2>2, OthersAre, GotoMoves DEF CloseState, IControl, IType
    <3>2. \A j \in Jobs : pc'[j] \in {"idle", "pick", "picking"}
      BY <2>2, <3>1, JobIs DEF CloseState, Moves
    <3>3. \A g \in Readers \union Checkpoints : pc'[g] = "idle"
      BY <3>1, CheckpointIs, ReaderIs DEF IControl, IClosed, Moves
    <3>4. closed
      BY <3>1 DEF IControl, IClosed
    <3> QED BY <2>2, <3>1, <3>2, <3>3, <3>4, OthersAre
            DEF CloseState, closeRest, MovesWithin, CloserPC, MutexStep, Holding, Locking, Built, Turning,
                IClosed
  <2>3. CASE Drain \/ AwaitDeleters
    <3>1. /\ Moves(Closer) /\ pc'[Closer] \in {"drain", "clean", "deleters", "closed"} /\ closed' = closed
          /\ pc[Closer] \in {"drain", "deleters"} /\ (pc'[Closer] = "clean" => mu' = Closer)
      BY <2>3, OthersAre, GotoMoves, StayMoves DEF Drain, AwaitDeleters, IControl, IType
    <3>2. \A j \in Jobs : pc'[j] \in {"idle", "pick", "picking"}
      BY <3>1, JobIs DEF IControl, IClosed, Drained, Moves
    <3>3. \A g \in Readers \union Checkpoints : pc'[g] = "idle"
      BY <3>1, CheckpointIs, ReaderIs DEF IControl, IClosed, Moves
    <3>4. closed
      BY <3>1 DEF IControl, IClosed
    <3> QED BY <2>3, <3>1, <3>2, <3>3, <3>4, OthersAre
            DEF Drain, AwaitDeleters, closeRest, MovesWithin, CloserPC, MutexStep, Holding, Locking, Built,
                Turning, IClosed
  <2> QED BY <2>1, <2>2, <2>3
<1>2. KeepsLock(Closer) /\ KeepsTurn(Closer)
  BY <1>1 DEF KeepsLock, KeepsTurn, lockVars, Turning
<1>3. KeepsDisabled(Closer)
  BY <1>1, OthersAre DEF KeepsDisabled
<1> QED BY <1>1, <1>2, <1>3, OthersAre, ControlParts, KeepsDisabledOK

-----------------------------------------------------------------------------
LEMMA InitControl ==
  ASSUME Init
  PROVE  IControl
<1>1. \A w \in Workers \union Readers : pc[w] = "idle"
  BY DEF Init
<1>2. PCType
  BY <1>1, JobIs, CheckpointIs, ReaderIs, OthersAre
     DEF Init, PCType, JobPC, CheckpointPC, ReaderPC, CleanerPC, CloserPC
<1>3. Disablers = {}
  BY <1>1, CheckpointIs DEF Disablers, Disabling
<1>4. IDisabled
  BY <1>1, <1>3, FS_EmptySet, CheckpointIs DEF IDisabled, Init
<1>5. lockQ \in Seq(Jobs \union Checkpoints) /\ Len(lockQ) = 0 /\ lockQ = <<>>
  BY DEF Init
<1>6. ILock
  BY <1>1, <1>5 DEF ILock, Locking, Built
<1>7. IType
  BY <1>2, <1>5 DEF IType, Init
<1>8. IMutex /\ ITurn
  BY <1>1 DEF IMutex, ITurn, Init, Holding, Turning
<1>9. IClosed
  BY <1>1, OthersAre DEF IClosed, Drained, Init
<1> QED BY <1>4, <1>6, <1>7, <1>8, <1>9 DEF IControl

LEMMA NextControl ==
  ASSUME IControl, [Next]_vars
  PROVE  IControl'
<1>1. CASE UNCHANGED vars
  BY <1>1, StutterControl DEF vars, cleanerVars
<1>2. ASSUME NEW j \in Jobs, JobStep(j) PROVE IControl'
  BY <1>2, LogLockControl, PickControl, OutputsControl, FailIngestControl, ManifestControl, StateControl
     DEF JobStep
<1>3. ASSUME NEW j \in Jobs, NEW kind \in {"flush", "compaction", "ingest", "rotation"}, Begin(j, kind)
      PROVE  IControl'
  BY <1>3, BeginControl
<1>4. ASSUME NEW w \in Workers, CleaningStep(w) PROVE IControl'
  BY <1>4, AcquireControl, DeleteControl, ReleaseControl DEF CleaningStep
<1>5. ASSUME NEW r \in Readers, Load(r) \/ UnrefState(r) \/ UnrefStep(r) PROVE IControl'
  BY <1>5, ReaderControl, ScheduleControl DEF UnrefStep
<1>6. ASSUME NEW c \in Checkpoints, CheckpointStep(c) \/ Disable(c) PROVE IControl'
  BY <1>6, DisableControl, DisableWokenControl, LogLockControl, CopyControl, EnableControl DEF CheckpointStep
<1>7. CASE BeginClose \/ CloseStep
  BY <1>7, CloseControl DEF CloseStep
<1>8. CASE PacedDelete \/ CleanerStart
  BY <1>8, PacedControl, CleanerStartControl
<1>9. CASE Terminated
  BY <1>1, <1>9 DEF Terminated
<1> QED BY <1>1, <1>2, <1>3, <1>4, <1>5, <1>6, <1>7, <1>8, <1>9 DEF Next

(* In every state one goroutine at most holds DB.mu, the manifest lock (logLock) and the cleaner's turn     *)
(* (acquireCleaningTurn), only the owner of the turn has files to delete, cleaner.disabled counts the       *)
(* checkpoints that disabled deletions and keeps the turn away from them, sleepers sleep for a reason, and  *)
(* what Close waited for does not come back.                                                                *)
THEOREM ControlInvariant == Spec => []IControl
BY InitControl, NextControl, PTL DEF Spec

-----------------------------------------------------------------------------
(* References: facts about the operators. *)

LEMMA MaxIs ==
  ASSUME NEW S, S \subseteq Nat, NEW x \in S, \A y \in S : y <= x
  PROVE  Max(S) = x
<1>1. \E m \in S : \A y \in S : m >= y
  OBVIOUS
<1>2. Max(S) \in S /\ \A y \in S : Max(S) >= y
  BY <1>1 DEF Max
<1>3. Max(S) \in Nat /\ x \in Nat /\ Max(S) <= x /\ Max(S) >= x
  BY <1>2
<1> QED BY <1>3

LEMMA VersionFacts ==
  ASSUME IRefType
  PROVE  /\ Len(versions) \in Nat
         /\ current \in 1 .. Len(versions)
         /\ \A v \in 1 .. Len(versions) :
              /\ versions[v] \in VersionType /\ versions[v].tables \subseteq Nat
              /\ versions[v].refs \in Int /\ versions[v].released \in BOOLEAN
<1>1. versions \in Seq(VersionType)
  BY DEF IRefType
<1>2. Len(versions) \in Nat /\ \A v \in 1 .. Len(versions) : versions[v] \in VersionType
  BY <1>1
<1>3. current \in 1 .. Len(versions)
  BY DEF IRefType
<1> QED BY <1>2, <1>3 DEF VersionType

LEMMA StateFacts ==
  ASSUME IRefType
  PROVE  /\ Len(states) \in Nat /\ Len(states) > 0
         /\ \A i \in 1 .. Len(states) :
              /\ states[i] \in StateType /\ states[i].refs \in Int
              /\ states[i].version \in 1 .. Len(versions)
<1>1. states \in Seq(StateType) /\ states # <<>>
  BY DEF IRefType
<1>2. Len(states) \in Nat /\ Len(states) > 0 /\ \A i \in 1 .. Len(states) : states[i] \in StateType
  BY <1>1
<1> QED BY <1>2 DEF IRefType, StateType

LEMMA HoldersFinite ==
  ASSUME IRefType, NEW v
  PROVE  IsFiniteSet(Holders(v)) /\ Cardinality(Holders(v)) \in Nat
<1>1. Len(states) \in Nat
  BY StateFacts
<1>2. IsFiniteSet(0 .. Len(states))
  BY <1>1, FS_Interval
<1>3. Holders(v) \subseteq 0 .. Len(states)
  BY <1>1 DEF Holders
<1>4. IsFiniteSet(Holders(v))
  BY <1>2, <1>3, FS_Subset
<1> QED BY <1>4, FS_CardinalityType

(* A version has a reference if and only if somebody holds it. *)
LEMMA RefsHolders ==
  ASSUME IRefs, NEW v \in 1 .. Len(versions)
  PROVE  /\ versions[v].refs \in Nat
         /\ versions[v].refs = 0 <=> Holders(v) = {}
<1>1. versions[v].refs = Cardinality(Holders(v)) /\ IsFiniteSet(Holders(v)) /\ Cardinality(Holders(v)) \in Nat
  BY HoldersFinite DEF IRefs, IVersions
<1> QED BY <1>1, FS_EmptySet

LEMMA StateRefs ==
  ASSUME IRefs, NEW i \in 1 .. Len(states)
  PROVE  /\ states[i].refs \in Nat
         /\ states[i].refs = 0 <=> StateHolders(i) = {}
<1>1. states[i].refs = Cardinality(StateHolders(i)) /\ IsFiniteSet(StateHolders(i))
  BY DEF IRefs, IStates
<1> QED BY <1>1, FS_EmptySet, FS_CardinalityType

LEMMA CurrentHeld ==
  ASSUME IRefs
  PROVE  versions[current].refs > 0 /\ ~versions[current].released /\ 0 \in Holders(current)
<1>1. 0 \in Holders(current)
  BY DEF Holders
<1>2. current \in 1 .. Len(versions)
  BY VersionFacts DEF IRefs
<1>3. versions[current].refs \in Nat /\ versions[current].refs # 0
  BY <1>1, <1>2, RefsHolders
<1> QED BY <1>1, <1>2, <1>3 DEF IRefs, IVersions

(* The version of a state that has a reference is in the list. *)
LEMMA LiveListed ==
  ASSUME IRefs, NEW i \in 1 .. Len(states), states[i].refs > 0 \/ Releasing(i)
  PROVE  /\ states[i].version \in list /\ ~versions[states[i].version].released
         /\ versions[states[i].version].refs > 0 /\ i \in Holders(states[i].version)
<1>1. i \in Holders(states[i].version)
  BY DEF Holders
<1>2. states[i].version \in 1 .. Len(versions)
  BY StateFacts DEF IRefs
<1>3. versions[states[i].version].refs \in Nat /\ versions[states[i].version].refs # 0
  BY <1>1, <1>2, RefsHolders
<1> QED BY <1>1, <1>2, <1>3 DEF IRefs, IVersions

(* What UnrefLocked does to the versions, the list and the obsolete tables. *)
Unreffed(s, v) ==
  /\ s.versions \in Seq(VersionType) /\ Len(s.versions) = Len(versions)
  /\ \A k \in 1 .. Len(versions) : k # v => s.versions[k] = versions[k]
  /\ s.versions[v].tables = versions[v].tables /\ s.versions[v].refs = versions[v].refs - 1
  /\ versions[v].refs > 1 => /\ s.versions[v].released = versions[v].released
                             /\ s.list = list /\ s.obsolete = obsolete
  /\ ~(versions[v].refs > 1) => /\ s.versions[v].released = TRUE
                                /\ s.list = list \ {v}
                                /\ s.obsolete = obsolete \union LastReferences(versions, v)

LEMMA UnrefLockedIs ==
  ASSUME IRefType, NEW v \in 1 .. Len(versions), NEW s, s = UnrefLocked(VersionState, v)
  PROVE  Unreffed(s, v)
<1> DEFINE vs == [versions EXCEPT ![v].refs = @ - 1]
           ws == [vs EXCEPT ![v].released = TRUE]
<1>1. versions \in Seq(VersionType) /\ versions[v] \in VersionType /\ versions[v].refs \in Int
        /\ v \in DOMAIN versions /\ Len(versions) \in Nat
  BY VersionFacts DEF IRefType
<1>2. /\ vs \in Seq(VersionType) /\ Len(vs) = Len(versions)
      /\ \A k \in 1 .. Len(versions) : k # v => vs[k] = versions[k]
      /\ vs[v] = [versions[v] EXCEPT !.refs = @ - 1]
  <2> DEFINE n == versions[v].refs - 1
  <2>1. vs = [versions EXCEPT ![v] = [versions[v] EXCEPT !.refs = n]]
    BY <1>1
  <2>2. [versions[v] EXCEPT !.refs = n] \in VersionType
    <3>1. n \in Int
      BY <1>1
    <3> HIDE DEF n
    <3> QED BY <1>1, <3>1 DEF VersionType
  <2> HIDE DEF vs
  <2> QED BY <1>1, <2>1, <2>2
<1> HIDE DEF vs
<1>3. /\ vs[v] \in VersionType /\ vs[v].tables = versions[v].tables /\ vs[v].refs = versions[v].refs - 1
      /\ vs[v].released = versions[v].released
  BY <1>1, <1>2 DEF VersionType
<1>4. /\ ws \in Seq(VersionType) /\ Len(ws) = Len(versions)
      /\ \A k \in 1 .. Len(versions) : k # v => ws[k] = versions[k]
      /\ ws[v] = [vs[v] EXCEPT !.released = TRUE]
  <2>1. ws = [vs EXCEPT ![v] = [vs[v] EXCEPT !.released = TRUE]] /\ v \in DOMAIN vs
    BY <1>1, <1>2
  <2>2. [vs[v] EXCEPT !.released = TRUE] \in VersionType
    BY <1>3 DEF VersionType
  <2> HIDE DEF ws
  <2> QED BY <1>1, <1>2, <2>1, <2>2
<1> HIDE DEF ws
<1>5. /\ ws[v].tables = versions[v].tables /\ ws[v].refs = versions[v].refs - 1 /\ ws[v].released = TRUE
  BY <1>3, <1>4 DEF VersionType
<1>6. LastReferences(vs, v) = LastReferences(versions, v)
  <2>1. DOMAIN vs = DOMAIN versions /\ DOMAIN versions = 1 .. Len(versions)
    BY <1>1, <1>2
  <2>2. {k \in DOMAIN vs : k # v /\ ~vs[k].released} = {k \in DOMAIN versions : k # v /\ ~versions[k].released}
    BY <1>2, <2>1
  <2>3. \A k \in {k \in DOMAIN versions : k # v /\ ~versions[k].released} : vs[k].tables = versions[k].tables
    BY <1>2, <2>1
  <2>4. {vs[k].tables : k \in {k \in DOMAIN vs : k # v /\ ~vs[k].released}}
          = {versions[k].tables : k \in {k \in DOMAIN versions : k # v /\ ~versions[k].released}}
    BY <2>2, <2>3
  <2> QED BY <1>3, <2>4 DEF LastReferences
<1>7. s = IF vs[v].refs > 0 THEN [VersionState EXCEPT !.versions = vs]
          ELSE [versions |-> ws, list |-> list \ {v}, obsolete |-> obsolete \union LastReferences(vs, v)]
  BY DEF UnrefLocked, VersionState, vs, ws
<1>8. CASE versions[v].refs > 1
  <2>1. s.versions = vs /\ s.list = list /\ s.obsolete = obsolete
    BY <1>1, <1>3, <1>7, <1>8 DEF VersionState
  <2> QED BY <1>2, <1>3, <1>8, <2>1 DEF Unreffed
<1>9. CASE ~(versions[v].refs > 1)
  <2>1. s.versions = ws /\ s.list = list \ {v} /\ s.obsolete = obsolete \union LastReferences(versions, v)
    BY <1>1, <1>3, <1>6, <1>7, <1>9
  <2> QED BY <1>4, <1>5, <1>9, <2>1 DEF Unreffed
<1> QED BY <1>8, <1>9

-----------------------------------------------------------------------------
(* Steps that leave the references alone. *)

SameBuilt == \A j \in Jobs : pc'[j] \in Built => pc[j] \in Built /\ job'[j].version = job[j].version

LEMMA SameRefs ==
  ASSUME IRefs, UNCHANGED <<versions, list, states, reader>>, \A r \in Readers : pc'[r] = pc[r],
         Drained' <=> Drained, Swapping' <=> Swapping, SameBuilt,
         job' \in [Jobs -> JobType] /\ nextFile' \in Nat \ {0}
  PROVE  IRefs'
<1>1. current' = current
  BY DEF current
<1>2. IRefType'
  BY <1>1 DEF IRefs, IRefType
<1>3. \A i : StateHolders(i)' = StateHolders(i)
  BY DEF StateHolders, DBHolds
<1>4. \A i : Releasing(i)' <=> Releasing(i)
  BY DEF Releasing
<1>5. \A v : Holders(v)' = Holders(v)
  BY <1>1, <1>4 DEF Holders
<1>6. \A r : VersionOf(r)' = VersionOf(r)
  BY DEF VersionOf
<1>7. IStates'
  BY <1>3 DEF IRefs, IStates
<1>8. IVersions'
  BY <1>5, <1>6 DEF IRefs, IVersions
<1>9. IReaders'
  BY <1>6 DEF IRefs, IReaders
<1>10. IBuilt'
  BY DEF IRefs, IBuilt, SameBuilt
<1> QED BY <1>2, <1>7, <1>8, <1>9, <1>10 DEF IRefs

LEMMA NoJobType == NoJob \in JobType
BY DEF NoJob, JobType

(* The tables the picker may choose from. *)
LEMMA PickableType ==
  ASSUME IRefType
  PROVE  Pickable \subseteq versions[current].tables /\ versions[current].tables \subseteq Nat
BY VersionFacts DEF Pickable

LEMMA JobFields ==
  ASSUME NEW f \in [Jobs -> JobType], NEW j \in Jobs
  PROVE  /\ DOMAIN f = Jobs /\ f[j] \in JobType
         /\ f[j].in \subseteq Nat /\ f[j].out \subseteq Nat /\ f[j].pending \subseteq Nat
         /\ f[j].version \in Nat /\ f[j].manifest \in Nat
BY DEF JobType

LEMMA NextJobType ==
  ASSUME IControl, IRefs, [Next]_vars
  PROVE  job' \in [Jobs -> JobType] /\ nextFile' \in Nat \ {0}
<1>1. job \in [Jobs -> JobType] /\ nextFile \in Nat \ {0} /\ Len(versions) \in Nat
  BY VersionFacts DEF IRefs, IRefType
<1>2. CASE UNCHANGED <<job, nextFile>>
  BY <1>1, <1>2
<1>3. ASSUME NEW w, Finish(w) PROVE job' \in [Jobs -> JobType]
  BY <1>1, <1>3, NoJobType DEF Finish
<1>4. ASSUME NEW j \in Jobs, JobStep(j) PROVE job' \in [Jobs -> JobType] /\ nextFile' \in Nat \ {0}
  <2>1. CASE LogLock(j) \/ SyncOutputs(j) \/ CreateManifest(j) \/ AppendEdit(j) \/ SetCurrentFile(j) \/ SwapState(j)
    BY <1>2, <2>1 DEF LogLock, SyncOutputs, CreateManifest, AppendEdit, SetCurrentFile, SwapState, numVars
  <2>2. CASE Pick(j)
    <3>1. PICK in \in SUBSET Pickable \ {{}} :
            \/ job' = [job EXCEPT ![j].in = in]
            \/ job' = [job EXCEPT ![j].in = in, ![j].out = in]
      BY <2>2 DEF Pick
    <3>2. in \subseteq Nat
      BY <3>1, PickableType DEF IRefs
    <3>3. [job EXCEPT ![j].in = in] \in [Jobs -> JobType]
      BY <1>1, <3>2 DEF JobType
    <3>4. [job EXCEPT ![j].in = in, ![j].out = in] \in [Jobs -> JobType]
      BY <1>1, <3>2 DEF JobType
    <3>5. nextFile' = nextFile
      BY <2>2 DEF Pick, numVars
    <3> QED BY <1>1, <3>1, <3>3, <3>4, <3>5
  <2>3. CASE PickNothing(j)
    BY <1>1, <2>3, NoJobType DEF PickNothing, numVars
  <2>4. CASE NewOutput(j)
    <3>1. {nextFile} \subseteq Nat /\ nextFile' = nextFile + 1
      BY <1>1, <2>4 DEF NewOutput
    <3>2. job' = [job EXCEPT ![j].out = {nextFile}, ![j].pending = {nextFile}]
      BY <2>4 DEF NewOutput
    <3>3. \A n \in SUBSET Nat : [job EXCEPT ![j].out = n, ![j].pending = n] \in [Jobs -> JobType]
      BY <1>1 DEF JobType
    <3>4. nextFile' \in Nat \ {0}
      BY <1>1, <3>1
    <3>5. job' \in [Jobs -> JobType]
      BY <3>1, <3>2, <3>3
    <3> QED BY <3>4, <3>5
  <2>5. CASE NoOutput(j) \/ IngestCleanup(j) \/ FailIngest(j) \/ UnrefOld(j)
    BY <1>1, <1>3, <2>5 DEF NoOutput, IngestCleanup, FailIngest, UnrefOld, numVars
  <2>6. CASE FailOutputs(j)
    BY <1>1, <2>6, ZenonT(60) DEF FailOutputs, numVars, JobType
  <2>7. ASSUME NEW replace \in BOOLEAN, Edit(j, replace)
        PROVE  job' \in [Jobs -> JobType] /\ nextFile' \in Nat \ {0}
    <3>1. PICK m \in Nat : job' = [job EXCEPT ![j].version = Len(versions) + 1, ![j].manifest = m]
      BY <1>1, <2>7 DEF Edit
    <3>2. \A n \in Nat : [job EXCEPT ![j].version = n, ![j].manifest = m] \in [Jobs -> JobType]
      BY <1>1 DEF JobType
    <3>3. Len(versions) + 1 \in Nat
      BY <1>1
    <3>4. nextFile' \in Nat \ {0}
      BY <1>1, <2>7 DEF Edit
    <3> QED BY <3>1, <3>2, <3>3, <3>4
  <2>8. CASE FailManifest(j)
    <3>1. job' = [job EXCEPT ![j].in = {}, ![j].out = {}, ![j].version = 0, ![j].manifest = 0]
      BY <2>8 DEF FailManifest
    <3>2. nextFile' = nextFile
      BY <2>8 DEF FailManifest, numVars
    <3> DEFINE f == [job EXCEPT ![j].in = {}, ![j].out = {}]
    <3>3. f \in [Jobs -> JobType]
      BY <1>1 DEF JobType
    <3>4. job' = [f EXCEPT ![j].version = 0, ![j].manifest = 0]
      BY <3>1
    <3> HIDE DEF f
    <3>5. job' \in [Jobs -> JobType]
      BY <3>3, <3>4 DEF JobType
    <3> QED BY <1>1, <3>2, <3>5
  <2>9. CASE Install(j)
    <3>1. job' = [job EXCEPT ![j].in = {}] /\ nextFile' = nextFile
      BY <2>9 DEF Install
    <3> QED BY <1>1, <3>1 DEF JobType
  <2> QED BY <1>4, <2>1, <2>2, <2>3, <2>4, <2>5, <2>6, <2>7, <2>8, <2>9 DEF JobStep
<1>5. ASSUME NEW j \in Jobs, NEW kind \in {"flush", "compaction", "ingest", "rotation"}, Begin(j, kind)
      PROVE  job' \in [Jobs -> JobType] /\ nextFile' \in Nat \ {0}
  BY <1>1, <1>5 DEF Begin, numVars, JobType
<1>6. ASSUME NEW w \in Workers, CleaningStep(w) PROVE job' \in [Jobs -> JobType] /\ nextFile' \in Nat \ {0}
  BY <1>1, <1>3, <1>6 DEF CleaningStep, AcquireCleaningTurn, DeleteFile, ReleaseCleaningTurn, numVars
<1>7. ASSUME NEW r \in Readers, Load(r) \/ UnrefState(r) \/ UnrefStep(r)
      PROVE  UNCHANGED <<job, nextFile>>
  BY <1>7 DEF UnrefStep, Load, UnrefState, UnrefVersion, UnrefFiles, RemoveVersion, Schedule, readerRest, numVars
<1>8. ASSUME NEW c \in Checkpoints, CheckpointStep(c) \/ Disable(c)
      PROVE  job' \in [Jobs -> JobType] /\ nextFile' \in Nat \ {0}
  BY <1>1, <1>3, <1>8 DEF CheckpointStep, Disable, DisableWoken, LogLock, Snapshot, CopyManifest, LinkTable,
                          FailCheckpoint, Enable, ckptRest, numVars
<1>9. CASE PacedDelete \/ CleanerStart \/ BeginClose \/ CloseStep \/ Terminated \/ UNCHANGED vars
  BY <1>2, <1>9 DEF PacedDelete, CleanerStart, BeginClose, CloseStep, CloseState, Drain, AwaitDeleters, closeRest,
                    Terminated, vars, numVars
<1> QED BY <1>2, <1>4, <1>5, <1>6, <1>7, <1>8, <1>9 DEF Next

(* A step of a worker that leaves them alone. *)
LEMMA WorkerRefs ==
  ASSUME IControl, IRefs, NEW w \in Workers, Moves(w), UNCHANGED <<versions, list, states, reader>>,
         w = Closer => (pc'[w] \in {"idle", "wait"} <=> pc[w] \in {"idle", "wait"}),
         w \in Jobs => (pc'[w] = "unrefold" <=> pc[w] = "unrefold"),
         w \in Jobs /\ pc'[w] \in Built => pc[w] \in Built,
         \A j \in Jobs : pc'[j] \in Built => job'[j].version = job[j].version,
         job' \in [Jobs -> JobType] /\ nextFile' \in Nat \ {0}
  PROVE  IRefs'
<1>1. \A r \in Readers : pc'[r] = pc[r]
  BY ReaderIs DEF Moves
<1>2. \A j \in Jobs : j \in Workers \union Readers
  BY JobIs
<1>3. Drained' <=> Drained
  BY OthersAre DEF Drained, Moves
<1>4. Swapping' <=> Swapping
  BY <1>2 DEF Swapping, Moves
<1>5. SameBuilt
  BY <1>2 DEF SameBuilt, Moves
<1> QED BY <1>1, <1>3, <1>4, <1>5, SameRefs

(* Goroutines that finish keep the jobs that have built a version. *)
LEMMA FinishKeeps ==
  ASSUME IControl, NEW w \in Workers, Finish(w)
  PROVE  \A j \in Jobs : pc'[j] \in Built => job'[j] = job[j]
<1>1. Moves(w) /\ pc'[w] = (IF w = Closer THEN "deleters" ELSE "idle")
  BY FinishWithin
<1>2. pc'[w] \notin Built
  BY <1>1 DEF Built
<1> QED BY <1>1, <1>2 DEF Finish

LEMMA QuietJobRefs ==
  ASSUME IControl, IRefs, NEW j \in Jobs, JobStep(j), job' \in [Jobs -> JobType] /\ nextFile' \in Nat \ {0},
         ~(\E replace \in BOOLEAN : Edit(j, replace)), ~Install(j), ~SwapState(j), ~UnrefOld(j)
  PROVE  IRefs'
<1>1. j \in Workers /\ j # Closer /\ j \in Workers \union Readers
  BY JobIs
<1>2. \A k \in Jobs : k \in DOMAIN job
  BY DEF IRefs, IRefType
<1>3. CASE LogLock(j)
  <2>1. \/ UNCHANGED pc
        \/ \E s \in {"picking", "edit", "snapshot"} : Goto(j, s)
    BY <1>3 DEF LogLock
  <2>2. Moves(j) /\ pc'[j] \in {"pick", "lock", "picking", "edit", "snapshot"} /\ pc[j] \in {"pick", "lock"}
    BY <1>1, <1>3, <2>1, StayMoves, GotoMoves DEF LogLock, IControl, IType
  <2>3. UNCHANGED <<versions, list, states, reader, job>>
    BY <1>3 DEF LogLock, listVars
  <2> QED BY <1>1, <2>2, <2>3, WorkerRefs DEF Built
<1>4. CASE Pick(j) \/ PickNothing(j) \/ NewOutput(j)
  <2>1. PICK s \in {"write", "lock", "idle", "sync"} : Goto(j, s)
    BY <1>4 DEF Pick, PickNothing, NewOutput
  <2>2. Moves(j) /\ pc'[j] = s
    BY <1>1, <2>1, GotoMoves DEF IControl, IType
  <2>3. pc[j] \in {"picking", "write"} /\ UNCHANGED <<versions, list, states, reader>>
    BY <1>4 DEF Pick, PickNothing, NewOutput, listVars
  <2>4. \A k \in Jobs : k # j => job'[k] = job[k]
    BY <1>2, <1>4 DEF Pick, PickNothing, NewOutput
  <2> QED BY <1>1, <2>2, <2>3, <2>4, WorkerRefs DEF Built
<1>5. CASE SyncOutputs(j) \/ CreateManifest(j) \/ AppendEdit(j) \/ SetCurrentFile(j)
  <2>1. PICK s \in {"lock", "append", "install", "setcurrent"} : Goto(j, s)
    BY <1>5 DEF SyncOutputs, CreateManifest, AppendEdit, SetCurrentFile
  <2>2. Moves(j) /\ pc'[j] = s
    BY <1>1, <2>1, GotoMoves DEF IControl, IType
  <2>3. /\ UNCHANGED <<versions, list, states, reader, job>> /\ pc[j] \in Built \union {"sync"}
        /\ pc[j] = "sync" => pc'[j] = "lock"
    BY <1>1, <1>5, GotoMoves DEF SyncOutputs, CreateManifest, AppendEdit, SetCurrentFile, listVars, Built, IControl, IType
  <2> QED BY <1>1, <2>2, <2>3, WorkerRefs DEF Built
<1>6. CASE NoOutput(j) \/ IngestCleanup(j) \/ FailIngest(j)
  <2>1. /\ UNCHANGED <<versions, list, states, reader>> /\ pc[j] \in {"write", "sync", "edit", "cleanup"}
        /\ \/ Finish(j)
           \/ UNCHANGED job /\ \E s \in {"sync", "cleanup"} : Goto(j, s)
    BY <1>6 DEF NoOutput, IngestCleanup, FailIngest, listVars
  <2>2. Moves(j) /\ pc'[j] \in {"idle", "sync", "cleanup"}
    BY <1>1, <2>1, FinishWithin, GotoMoves DEF IControl, IType
  <2>3. \A k \in Jobs : pc'[k] \in Built => job'[k] = job[k]
    BY <1>1, <2>1, FinishKeeps
  <2> QED BY <1>1, <2>1, <2>2, <2>3, WorkerRefs DEF Built
<1>7. CASE FailOutputs(j) \/ FailManifest(j)
  <2>1. PICK s \in {"clean", "cleanup"} : Goto(j, s)
    BY <1>7 DEF FailOutputs, FailManifest
  <2>2. Moves(j) /\ pc'[j] = s
    BY <1>1, <2>1, GotoMoves DEF IControl, IType
  <2>3. pc[j] \in {"sync", "create"} /\ UNCHANGED <<versions, list, states, reader>>
    BY <1>7 DEF FailOutputs, FailManifest, listVars
  <2>4. \A k \in Jobs : k # j => job'[k] = job[k]
    BY <1>2, <1>7 DEF FailOutputs, FailManifest
  <2> QED BY <1>1, <2>2, <2>3, <2>4, WorkerRefs DEF Built
<1> QED BY <1>3, <1>4, <1>5, <1>6, <1>7 DEF JobStep

LEMMA BeginRefs ==
  ASSUME IControl, IRefs, NEW j \in Jobs, NEW kind \in {"flush", "compaction", "ingest", "rotation"}, Begin(j, kind),
         job' \in [Jobs -> JobType] /\ nextFile' \in Nat \ {0}
  PROVE  IRefs'
<1>1. j \in Workers /\ j # Closer /\ j \in Workers \union Readers
  BY JobIs
<1>2. PICK s \in {"pick", "state", "write"} : Goto(j, s)
  BY DEF Begin
<1>3. Moves(j) /\ pc'[j] = s
  BY <1>1, <1>2, GotoMoves DEF IControl, IType
<1>4. pc[j] = "idle" /\ UNCHANGED <<versions, list, states, reader>>
  BY DEF Begin, listVars
<1>5. \A k \in Jobs : k # j => job'[k] = job[k]
  BY DEF Begin, IRefs, IRefType
<1> QED BY <1>1, <1>3, <1>4, <1>5, WorkerRefs DEF Built

LEMMA CleaningRefs ==
  ASSUME IControl, IRefs, NEW w \in Workers, CleaningStep(w), job' \in [Jobs -> JobType] /\ nextFile' \in Nat \ {0}
  PROVE  IRefs'
<1>1. w \in Workers \union Readers
  BY WorkerIs
<1>2. CASE AcquireCleaningTurn(w)
  <2>1. /\ pc[w] \in {"clean", "turn"} /\ UNCHANGED <<versions, list, states, reader>>
        /\ \/ Finish(w)
           \/ UNCHANGED job /\ \E s \in {"turn", "delete"} : Goto(w, s)
    BY <1>2 DEF AcquireCleaningTurn, listVars
  <2>2. Moves(w) /\ pc'[w] \in {"turn", "delete", "idle", "deleters"} /\ (w = Closer => pc'[w] # "idle")
    BY <1>1, <2>1, FinishWithin, GotoMoves DEF IControl, IType
  <2>3. \A k \in Jobs : pc'[k] \in Built => job'[k] = job[k]
    BY <2>1, FinishKeeps
  <2> QED BY <2>1, <2>2, <2>3, WorkerRefs DEF Built
<1>3. CASE DeleteFile(w)
  BY <1>3, StayMoves, WorkerRefs DEF DeleteFile, listVars
<1>4. CASE ReleaseCleaningTurn(w)
  <2>1. pc[w] = "delete" /\ UNCHANGED <<versions, list, states, reader>> /\ Finish(w)
    BY <1>4 DEF ReleaseCleaningTurn, listVars
  <2>2. Moves(w) /\ pc'[w] \in {"idle", "deleters"} /\ (w = Closer => pc'[w] # "idle")
    BY <2>1, FinishWithin
  <2> QED BY <2>1, <2>2, FinishKeeps, WorkerRefs DEF Built
<1> QED BY <1>2, <1>3, <1>4 DEF CleaningStep

LEMMA CheckpointRefs ==
  ASSUME IControl, IRefs, NEW c \in Checkpoints, CheckpointStep(c) \/ Disable(c),
         job' \in [Jobs -> JobType] /\ nextFile' \in Nat \ {0}
  PROVE  IRefs'
<1>1. c \in Workers /\ c # Closer /\ c \notin Jobs /\ c \in Workers \union Readers
  BY CheckpointIs
<1>2. UNCHANGED <<versions, list, states, reader>>
  BY DEF CheckpointStep, Disable, DisableWoken, LogLock, Snapshot, CopyManifest, LinkTable, FailCheckpoint,
         Enable, ckptRest, listVars
<1>3. \/ Finish(c)
      \/ UNCHANGED job /\ (UNCHANGED pc \/ \E s : Goto(c, s))
  BY DEF CheckpointStep, Disable, DisableWoken, AwaitTurn, LogLock, Snapshot, CopyManifest, LinkTable,
         FailCheckpoint, Enable, ckptRest
<1>4. Moves(c)
  BY <1>1, <1>3, FinishWithin, GotoMoves, StayMoves DEF IControl, IType
<1>5. \A j \in Jobs : pc'[j] \in Built => job'[j] = job[j]
  BY <1>1, <1>3, FinishKeeps
<1> QED BY <1>1, <1>2, <1>4, <1>5, WorkerRefs

LEMMA OtherRefs ==
  ASSUME IControl, IRefs, PacedDelete \/ CleanerStart \/ BeginClose \/ Drain \/ AwaitDeleters,
         job' \in [Jobs -> JobType] /\ nextFile' \in Nat \ {0}
  PROVE  IRefs'
<1>1. CASE PacedDelete
  BY <1>1, StayMoves, OthersAre, WorkerRefs DEF PacedDelete, listVars
<1>2. CASE CleanerStart
  <2>1. Moves(Cleaner)
    BY <1>2, OthersAre, GotoMoves DEF CleanerStart, IControl, IType
  <2> QED BY <1>2, <2>1, OthersAre, WorkerRefs DEF CleanerStart, listVars
<1>3. CASE BeginClose \/ Drain \/ AwaitDeleters
  <2>1. UNCHANGED <<versions, list, states, reader, job>>
    BY <1>3 DEF BeginClose, Drain, AwaitDeleters, listVars, closeRest
  <2>2. /\ Moves(Closer)
        /\ (pc[Closer] = "idle" /\ pc'[Closer] = "wait")
             \/ (pc[Closer] \in {"drain", "deleters"} /\ pc'[Closer] \in {"drain", "clean", "deleters", "closed"})
    BY <1>3, OthersAre, GotoMoves, StayMoves DEF BeginClose, Drain, AwaitDeleters, IControl, IType, IClosed
  <2> QED BY <2>1, <2>2, OthersAre, WorkerRefs
<1> QED BY <1>1, <1>2, <1>3

-----------------------------------------------------------------------------
(* The steps of the readers. *)

LEMMA StateUpdate ==
  ASSUME IRefType, NEW i \in 1 .. Len(states), NEW n \in Int, states' = [states EXCEPT ![i].refs = n]
  PROVE  /\ states' \in Seq(StateType) /\ Len(states') = Len(states) /\ states' # <<>>
         /\ states'[i].refs = n
         /\ \A k \in 1 .. Len(states) : states'[k].version = states[k].version
         /\ \A k \in 1 .. Len(states) : k # i => states'[k] = states[k]
<1>1. states \in Seq(StateType) /\ Len(states) \in Nat /\ Len(states) > 0 /\ states[i] \in StateType
        /\ i \in DOMAIN states
  BY StateFacts DEF IRefType
<1> DEFINE s == [states[i] EXCEPT !.refs = n]
<1>2. s \in StateType /\ s.refs = n /\ s.version = states[i].version
  BY <1>1 DEF StateType
<1>3. states' = [states EXCEPT ![i] = s]
  BY <1>1
<1> HIDE DEF s
<1>4. /\ states' \in Seq(StateType) /\ Len(states') = Len(states) /\ states'[i] = s
      /\ \A k \in 1 .. Len(states) : k # i => states'[k] = states[k]
  BY <1>1, <1>2, <1>3
<1> QED BY <1>1, <1>2, <1>4

SameStates ==
  Len(states') = Len(states) /\ \A k \in 1 .. Len(states) : states'[k].version = states[k].version

LEMMA SameHolders ==
  ASSUME IRefType, SameStates, current' = current,
         \A k \in 1 .. Len(states) :
           (states'[k].refs > 0 \/ Releasing(k)') <=> (states[k].refs > 0 \/ Releasing(k))
  PROVE  \A v : Holders(v)' = Holders(v)
BY DEF Holders, SameStates

(* In a step of reader r the others keep what they have. *)
OthersRead(r) ==
  /\ Moves(r)
  /\ reader' \in [Readers -> ReaderType]
  /\ \A q \in Readers : q # r => reader'[q] = reader[q]

LEMMA OthersKeep ==
  ASSUME IRefType, NEW r \in Readers, OthersRead(r), SameStates
  PROVE  /\ \A q \in Readers : q # r => pc'[q] = pc[q] /\ reader'[q].state = reader[q].state
         /\ \A q \in Readers : q # r /\ pc[q] # "idle" => VersionOf(q)' = VersionOf(q)
         /\ Drained' <=> Drained
         /\ Swapping' <=> Swapping
         /\ \A j \in Jobs : pc'[j] = pc[j]
         /\ \A i : DBHolds(i)' <=> DBHolds(i)
<1>1. \A q \in Readers : q # r => pc'[q] = pc[q] /\ reader'[q].state = reader[q].state
  BY ReaderIs DEF OthersRead, Moves
<1>2. \A q \in Readers : q # r /\ pc[q] # "idle" => VersionOf(q)' = VersionOf(q)
  BY <1>1 DEF VersionOf, IRefType, SameStates
<1>3. \A j \in Jobs : pc'[j] = pc[j]
  BY JobIs, ReaderIs DEF OthersRead, Moves
<1>4. Drained' <=> Drained
  BY OthersAre, ReaderIs DEF Drained, OthersRead, Moves
<1>5. Swapping' <=> Swapping
  BY <1>3 DEF Swapping
<1> QED BY <1>1, <1>2, <1>3, <1>4, <1>5 DEF DBHolds, SameStates

(* The release of a version may concern only reader r. *)
LEMMA BuiltStays ==
  ASSUME IRefs, NEW r \in Readers, Moves(r), UNCHANGED <<versions, list, job>>
  PROVE  IBuilt'
<1>1. \A j \in Jobs : pc'[j] = pc[j]
  BY JobIs, ReaderIs DEF Moves
<1> QED BY <1>1 DEF IRefs, IBuilt

LEMMA LoadRefs ==
  ASSUME IControl, IRefs, NEW r \in Readers, Load(r), job' \in [Jobs -> JobType] /\ nextFile' \in Nat \ {0}
  PROVE  IRefs'
<1>0. PICK n : n = Len(states)
  OBVIOUS
<1>1. /\ pc[r] = "idle" /\ ~closed /\ UNCHANGED <<versions, list, job>>
      /\ states' = [states EXCEPT ![n].refs = states[n].refs + 1]
      /\ reader' = [reader EXCEPT ![r].state = n] /\ Goto(r, "reading")
  BY <1>0 DEF Load, listVars, readerRest
<1>2. n \in Nat /\ n \in 1 .. Len(states) /\ IRefType /\ reader \in [Readers -> ReaderType]
  BY <1>0, StateFacts DEF IRefs, IRefType
<1>3. DBHolds(n) /\ Nobody \in StateHolders(n)
  BY <1>0, <1>1 DEF DBHolds, StateHolders, Drained, IControl, IClosed
<1>4. states[n].refs \in Nat /\ states[n].refs > 0 /\ states[n].refs + 1 \in Int
  BY <1>2, <1>3, StateRefs
<1>5. /\ states' \in Seq(StateType) /\ SameStates /\ states' # <<>> /\ states'[n].refs = states[n].refs + 1
      /\ \A k \in 1 .. Len(states) : k # n => states'[k] = states[k]
  BY <1>1, <1>2, <1>4, StateUpdate DEF SameStates
<1>6. Moves(r) /\ pc'[r] = "reading"
  BY <1>1, ReaderIs, GotoMoves DEF IControl, IType
<1>7. OthersRead(r) /\ reader'[r].state = n
  BY <1>1, <1>2, <1>6 DEF OthersRead, ReaderType
<1>8. current' = current
  BY <1>1 DEF current
<1>9. /\ \A q \in Readers : q # r => pc'[q] = pc[q] /\ reader'[q].state = reader[q].state
      /\ \A q \in Readers : q # r /\ pc[q] # "idle" => VersionOf(q)' = VersionOf(q)
      /\ \A i : DBHolds(i)' <=> DBHolds(i)
      /\ Swapping' <=> Swapping
  BY <1>2, <1>5, <1>7, OthersKeep
<1>10. IRefType'
  BY <1>1, <1>2, <1>5, <1>6, <1>7, <1>8, <1>9 DEF IRefType, SameStates, OthersRead
<1>11. IStates'
  <2>1. StateHolders(n)' = StateHolders(n) \union {r}
    BY <1>6, <1>7, <1>9 DEF StateHolders
  <2>2. r \notin StateHolders(n)
    BY <1>1, ReaderIs DEF StateHolders
  <2>3. IsFiniteSet(StateHolders(n)) /\ states[n].refs = Cardinality(StateHolders(n))
    BY <1>2 DEF IRefs, IStates
  <2>4. IsFiniteSet(StateHolders(n)') /\ states'[n].refs = Cardinality(StateHolders(n)')
    BY <1>5, <2>1, <2>2, <2>3, FS_AddElement
  <2>5. ASSUME NEW i \in 1 .. Len(states), i # n
        PROVE  IsFiniteSet(StateHolders(i)') /\ states'[i].refs = Cardinality(StateHolders(i)')
    <3>1. StateHolders(i)' = StateHolders(i)
      BY <1>1, <1>6, <1>7, <1>9, <2>5 DEF StateHolders
    <3> QED BY <1>5, <2>5, <3>1 DEF IRefs, IStates
  <2> QED BY <1>5, <1>9, <2>4, <2>5 DEF IRefs, IStates, SameStates
<1>12. \A v : Holders(v)' = Holders(v)
  <2>1. \A k : Releasing(k)' <=> Releasing(k)
    BY <1>1, <1>6, <1>9 DEF Releasing
  <2>2. states'[n].refs > 0
    BY <1>4, <1>5
  <2>3. \A k \in 1 .. Len(states) : states'[k].refs > 0 <=> states[k].refs > 0
    BY <1>4, <1>5, <2>2
  <2> QED BY <1>2, <1>5, <1>8, <2>1, <2>3, SameHolders
<1>13. IVersions'
  BY <1>1, <1>6, <1>9, <1>12 DEF IRefs, IVersions
<1>14. IReaders'
  <2>1. \A q \in Readers : pc[q] = "unrefversion" => reader[q].state # n
    BY <1>4 DEF IRefs, IReaders
  <2>2. \A q \in Readers : pc'[q] = "unrefversion" => q # r /\ states'[reader'[q].state].refs = 0
    BY <1>2, <1>5, <1>6, <1>9, <2>1, SMTT(40) DEF IRefs, IReaders, IRefType
  <2> QED BY <1>1, <1>6, <1>9, <2>2 DEF IRefs, IReaders
<1>15. IBuilt'
  BY <1>1, <1>6, BuiltStays
<1> QED BY <1>10, <1>11, <1>13, <1>14, <1>15 DEF IRefs

LEMMA UnrefStateRefs ==
  ASSUME IControl, IRefs, NEW r \in Readers, UnrefState(r), job' \in [Jobs -> JobType] /\ nextFile' \in Nat \ {0}
  PROVE  IRefs'
<1>0. PICK n : n = reader[r].state
  OBVIOUS
<1>1. /\ pc[r] = "reading" /\ UNCHANGED <<versions, list, job>>
      /\ states' = [states EXCEPT ![n].refs = states[n].refs - 1]
      /\ IF states[n].refs = 1
         THEN Goto(r, "unrefversion") /\ UNCHANGED reader
         ELSE Goto(r, "idle") /\ reader' = [reader EXCEPT ![r] = NoReader]
  BY <1>0 DEF UnrefState, listVars, readerRest
<1>2. n \in Nat /\ n \in 1 .. Len(states) /\ IRefType /\ reader \in [Readers -> ReaderType]
  BY <1>0, <1>1, StateFacts DEF IRefs, IRefType, ReaderType
<1>3. r \in StateHolders(n)
  BY <1>0, <1>1 DEF StateHolders
<1>4. states[n].refs \in Nat /\ states[n].refs > 0 /\ states[n].refs - 1 \in Int
  BY <1>2, <1>3, StateRefs
<1>5. reader' \in [Readers -> ReaderType] /\ \A q \in Readers : q # r => reader'[q] = reader[q]
  <2>1. NoReader \in ReaderType
    BY DEF NoReader, ReaderType
  <2>2. reader' = reader \/ reader' = [reader EXCEPT ![r] = NoReader]
    BY <1>1
  <2> QED BY <1>2, <2>1, <2>2
<1>6. /\ Moves(r)
      /\ states[n].refs = 1 => pc'[r] = "unrefversion" /\ reader'[r].state = n
      /\ states[n].refs # 1 => pc'[r] = "idle"
  BY <1>0, <1>1, ReaderIs, GotoMoves DEF IControl, IType
<1>7. /\ states' \in Seq(StateType) /\ SameStates /\ states' # <<>> /\ states'[n].refs = states[n].refs - 1
      /\ \A k \in 1 .. Len(states) : k # n => states'[k] = states[k]
  BY <1>1, <1>2, <1>4, StateUpdate DEF SameStates
<1>8. OthersRead(r)
  BY <1>5, <1>6 DEF OthersRead
<1>9. current' = current
  BY <1>1 DEF current
<1>10. /\ \A q \in Readers : q # r => pc'[q] = pc[q] /\ reader'[q].state = reader[q].state
       /\ \A q \in Readers : q # r /\ pc[q] # "idle" => VersionOf(q)' = VersionOf(q)
       /\ \A i : DBHolds(i)' <=> DBHolds(i)
       /\ Swapping' <=> Swapping
  BY <1>2, <1>7, <1>8, OthersKeep
<1>11. IRefType'
  <2>1. \A q \in Readers : pc'[q] # "idle" => reader'[q].state \in 1 .. Len(states')
    <3>1. ASSUME NEW q \in Readers, pc'[q] # "idle" PROVE reader'[q].state \in 1 .. Len(states)
      <4>1. CASE q = r
        BY <1>2, <1>6, <3>1, <4>1
      <4>2. CASE q # r
        BY <1>2, <1>10, <3>1, <4>2 DEF IRefType
      <4> QED BY <4>1, <4>2
    <3> QED BY <1>7, <3>1 DEF SameStates
  <2>2. \A i \in 1 .. Len(states') : states'[i].version \in 1 .. Len(versions')
    BY <1>1, <1>2, <1>7 DEF IRefType, SameStates
  <2> QED BY <1>1, <1>2, <1>5, <1>7, <1>9, <2>1, <2>2 DEF IRefType
<1>12. pc'[r] # "reading" /\ pc'[r] # "unreffiles" /\ pc'[r] # "remove"
  BY <1>6
<1>13. \A q \in Readers : pc[q] = "unrefversion" => reader[q].state # n /\ q # r
  BY <1>1, <1>4 DEF IRefs, IReaders
<1>14. IStates'
  <2>1. StateHolders(n)' = StateHolders(n) \ {r}
    BY <1>10, <1>12, ReaderIs DEF StateHolders
  <2>2. IsFiniteSet(StateHolders(n)) /\ states[n].refs = Cardinality(StateHolders(n))
    BY <1>2 DEF IRefs, IStates
  <2>3. IsFiniteSet(StateHolders(n)') /\ states'[n].refs = Cardinality(StateHolders(n)')
    BY <1>3, <1>7, <2>1, <2>2, FS_RemoveElement
  <2>4. ASSUME NEW i \in 1 .. Len(states), i # n
        PROVE  IsFiniteSet(StateHolders(i)') /\ states'[i].refs = Cardinality(StateHolders(i)')
    <3>1. reader[r].state # i
      BY <1>0, <2>4
    <3>2. StateHolders(i)' = StateHolders(i)
      BY <1>10, <1>12, <3>1 DEF StateHolders
    <3> QED BY <1>7, <2>4, <3>2 DEF IRefs, IStates
  <2> QED BY <1>7, <1>10, <2>3, <2>4 DEF IRefs, IStates, SameStates
<1>15. \A v : Holders(v)' = Holders(v)
  <2>1. \A k : k # n => (Releasing(k)' <=> Releasing(k))
    BY <1>1, <1>6, <1>10 DEF Releasing
  <2>2. states'[n].refs > 0 \/ Releasing(n)'
    <3>1. CASE states[n].refs = 1
      BY <1>6, <3>1 DEF Releasing
    <3>2. CASE states[n].refs # 1
      BY <1>4, <1>7, <3>2
    <3> QED BY <3>1, <3>2
  <2> QED BY <1>2, <1>4, <1>7, <1>9, <2>1, <2>2, SameHolders
<1>16. IVersions'
  BY <1>1, <1>10, <1>12, <1>15 DEF IRefs, IVersions
<1>17. IReaders'
  <2>1. ASSUME NEW q \in Readers, pc'[q] = "unrefversion" PROVE states'[reader'[q].state].refs = 0
    <3>1. CASE q = r
      BY <1>4, <1>6, <1>7, <2>1, <3>1
    <3>2. CASE q # r
      <4>1. pc[q] = "unrefversion" /\ reader'[q].state = reader[q].state /\ reader[q].state # n
        BY <1>10, <1>13, <2>1, <3>2
      <4>2. reader[q].state \in 1 .. Len(states) /\ states[reader[q].state].refs = 0
        BY <1>2, <4>1 DEF IRefs, IReaders, IRefType
      <4> QED BY <1>7, <4>1, <4>2
    <3> QED BY <3>1, <3>2
  <2>2. ASSUME NEW p \in Readers, NEW q \in Readers, pc'[p] = "unrefversion", pc'[q] = "unrefversion",
               reader'[p].state = reader'[q].state
        PROVE  p = q
    BY <1>6, <1>10, <1>13, <2>2 DEF IRefs, IReaders
  <2> QED BY <1>1, <1>10, <1>12, <2>1, <2>2 DEF IRefs, IReaders
<1>18. IBuilt'
  BY <1>1, <1>6, BuiltStays
<1> QED BY <1>11, <1>14, <1>16, <1>17, <1>18 DEF IRefs

(* One field of one version changes. *)
LEMMA VersionUpdate ==
  ASSUME IRefType, NEW v \in 1 .. Len(versions), NEW x \in VersionType, x.tables = versions[v].tables,
         versions' = [versions EXCEPT ![v] = x]
  PROVE  /\ versions' \in Seq(VersionType) /\ Len(versions') = Len(versions) /\ versions'[v] = x
         /\ \A k \in 1 .. Len(versions) : k # v => versions'[k] = versions[k]
<1>1. versions \in Seq(VersionType) /\ v \in DOMAIN versions /\ Len(versions) \in Nat
  BY VersionFacts DEF IRefType
<1> QED BY <1>1

LEMMA UnrefVersionRefs ==
  ASSUME IControl, IRefs, NEW r \in Readers, UnrefVersion(r), job' \in [Jobs -> JobType] /\ nextFile' \in Nat \ {0}
  PROVE  IRefs'
<1>0. PICK n, v, x : /\ n = reader[r].state /\ v = states[n].version
                     /\ x = [versions[v] EXCEPT !.refs = versions[v].refs - 1]
  OBVIOUS
<1>1. /\ pc[r] = "unrefversion" /\ UNCHANGED <<list, states, reader, job>>
      /\ versions' = [versions EXCEPT ![v] = x]
      /\ Goto(r, IF versions[v].refs = 1 THEN "unreffiles" ELSE "schedule")
  BY <1>0 DEF UnrefVersion, readerRest
<1>2. n \in 1 .. Len(states) /\ IRefType /\ v \in 1 .. Len(versions) /\ states[n].refs = 0 /\ Releasing(n)
  BY <1>0, <1>1, StateFacts DEF IRefs, IRefType, IReaders, Releasing
<1>3. n \in Holders(v) /\ v \in list /\ ~versions[v].released /\ versions[v].refs > 0
  BY <1>0, <1>2, LiveListed
<1>4. versions[v].refs \in Nat /\ versions[v] \in VersionType
  BY <1>2, RefsHolders, VersionFacts
<1>5. x \in VersionType /\ x.tables = versions[v].tables /\ x.refs = versions[v].refs - 1
        /\ x.released = versions[v].released
  <2> DEFINE y == versions[v].refs - 1
  <2>1. y \in Int
    BY <1>4
  <2>2. x = [versions[v] EXCEPT !.refs = y]
    BY <1>0
  <2> HIDE DEF y
  <2>3. x \in VersionType /\ x.tables = versions[v].tables /\ x.refs = y /\ x.released = versions[v].released
    BY <1>4, <2>1, <2>2 DEF VersionType
  <2> QED BY <2>3 DEF y
<1>6. Moves(r) /\ pc'[r] = (IF versions[v].refs = 1 THEN "unreffiles" ELSE "schedule")
  BY <1>1, ReaderIs, GotoMoves DEF IControl, IType
<1>7. VersionOf(r) = v
  BY <1>0 DEF VersionOf
<1>8. reader[r].state = n
  BY <1>0
<1>9. /\ versions' \in Seq(VersionType) /\ Len(versions') = Len(versions)
      /\ versions'[v].refs = versions[v].refs - 1 /\ versions'[v].released = versions[v].released
      /\ \A k \in 1 .. Len(versions) : k # v => versions'[k] = versions[k]
  <2>1. /\ versions' \in Seq(VersionType) /\ Len(versions') = Len(versions) /\ versions'[v] = x
        /\ \A k \in 1 .. Len(versions) : k # v => versions'[k] = versions[k]
    BY <1>1, <1>2, <1>5, VersionUpdate
  <2> QED BY <1>5, <2>1
<1>10. OthersRead(r) /\ SameStates /\ \A q : VersionOf(q)' = VersionOf(q)
  BY <1>1, <1>2, <1>6 DEF OthersRead, SameStates, VersionOf, IRefType
<1>11. current' = current
  BY <1>1 DEF current
<1>12. /\ \A q \in Readers : q # r => pc'[q] = pc[q]
       /\ \A i : DBHolds(i)' <=> DBHolds(i)
       /\ Swapping' <=> Swapping
       /\ \A j \in Jobs : pc'[j] = pc[j]
  BY <1>2, <1>10, OthersKeep
<1>13. IRefType'
  BY <1>1, <1>2, <1>9, <1>11, <1>12 DEF IRefType
<1>14. IStates'
  <2>1. \A i : StateHolders(i)' = StateHolders(i)
    BY <1>1, <1>6, <1>12 DEF StateHolders
  <2> QED BY <1>1, <1>12, <2>1 DEF IRefs, IStates
<1>15. /\ Holders(v)' = Holders(v) \ {n}
       /\ \A k : k # v => Holders(k)' = Holders(k)
  <2>1. ~Releasing(n)'
    BY <1>1, <1>6, <1>8, <1>12 DEF Releasing, IRefs, IReaders
  <2>2. \A i : i # n => (Releasing(i)' <=> Releasing(i))
    BY <1>1, <1>6, <1>8, <1>12 DEF Releasing
  <2>3. ~(states[n].refs > 0) /\ states[n].version = v /\ n # 0
    BY <1>0, <1>2, StateFacts
  <2> QED BY <1>1, <1>11, <2>1, <2>2, <2>3 DEF Holders
<1>16. IsFiniteSet(Holders(v)) /\ versions[v].refs = Cardinality(Holders(v))
  BY <1>2, HoldersFinite DEF IRefs, IVersions
<1>17. Cardinality(Holders(v)') = versions[v].refs - 1
  BY <1>3, <1>15, <1>16, FS_RemoveElement
<1>18. versions[v].refs = 1 => pc'[r] = "unreffiles"
  BY <1>6
<1>19. IVersions'
  <2>1. \A k \in 1 .. Len(versions') : versions'[k].refs = Cardinality(Holders(k)')
    BY <1>9, <1>15, <1>17 DEF IRefs, IVersions
  <2>2. \A k \in 1 .. Len(versions') : versions'[k].refs > 0 => k \in list' /\ ~versions'[k].released
    BY <1>1, <1>3, <1>9 DEF IRefs, IVersions
  <2>3. ASSUME NEW k \in list', ~versions'[k].released, versions'[k].refs = 0
        PROVE  \E q \in Readers : pc'[q] = "unreffiles" /\ VersionOf(q)' = k
    <3>1. CASE k = v
      BY <1>4, <1>7, <1>9, <1>10, <1>18, <2>3, <3>1
    <3>2. CASE k # v
      <4>1. k \in 1 .. Len(versions) /\ versions'[k] = versions[k] /\ k \in list
        BY <1>1, <1>2, <1>9, <2>3, <3>2 DEF IRefType
      <4>2. PICK q \in Readers : pc[q] = "unreffiles" /\ VersionOf(q) = k
        BY <2>3, <4>1 DEF IRefs, IVersions
      <4>3. q # r
        BY <1>1, <4>2
      <4> QED BY <1>10, <1>12, <4>2, <4>3
    <3> QED BY <3>1, <3>2
  <2> QED BY <2>1, <2>2, <2>3 DEF IVersions
<1>20. IReaders'
  <2>1. \A q \in Readers : pc[q] = "unreffiles" => VersionOf(q) # v /\ VersionOf(q) \in 1 .. Len(versions)
    <3>1. ASSUME NEW q \in Readers, pc[q] = "unreffiles" PROVE VersionOf(q) # v /\ VersionOf(q) \in 1 .. Len(versions)
      <4>1. VersionOf(q) \in list /\ versions[VersionOf(q)].refs = 0
        BY <3>1 DEF IRefs, IReaders
      <4>2. VersionOf(q) # v
        BY <1>3, <4>1
      <4> QED BY <1>2, <4>1, <4>2 DEF IRefType
    <3> QED BY <3>1
  <2>2. ASSUME NEW q \in Readers, pc'[q] = "unreffiles"
        PROVE  versions'[VersionOf(q)].refs = 0 /\ ~versions'[VersionOf(q)].released /\ VersionOf(q) \in list
    <3>1. CASE q = r
      BY <1>3, <1>4, <1>6, <1>7, <1>9, <2>2, <3>1
    <3>2. CASE q # r
      BY <1>9, <1>12, <2>1, <2>2, <3>2 DEF IRefs, IReaders
    <3> QED BY <3>1, <3>2
  <2>3. ASSUME NEW p \in Readers, NEW q \in Readers, pc'[p] = "unreffiles", pc'[q] = "unreffiles",
               VersionOf(p) = VersionOf(q)
        PROVE  p = q
    BY <1>7, <1>12, <2>1, <2>3 DEF IRefs, IReaders
  <2>4. ASSUME NEW q \in Readers, pc'[q] = "remove" PROVE versions'[VersionOf(q)].released
    <3>1. q # r /\ pc[q] = "remove"
      BY <1>6, <1>12, <2>4
    <3>2. versions[VersionOf(q)].released /\ VersionOf(q) \in 1 .. Len(versions)
      BY <1>2, <3>1, StateFacts DEF IRefs, IReaders, VersionOf, IRefType
    <3> QED BY <1>3, <1>9, <3>2
  <2>5. \A q \in Readers : pc'[q] = "unrefversion" => q # r /\ pc[q] = "unrefversion"
    BY <1>6, <1>12
  <2> QED BY <1>1, <1>10, <2>2, <2>3, <2>4, <2>5 DEF IRefs, IReaders
<1>21. IBuilt'
  <2>1. ASSUME NEW j \in Jobs, pc'[j] \in Built
        PROVE  /\ job'[j].version = Len(versions') /\ Len(versions') \notin list'
               /\ versions'[Len(versions')].refs = 0 /\ ~versions'[Len(versions')].released
    <3>1. /\ job[j].version = Len(versions) /\ Len(versions) \notin list
          /\ versions[Len(versions)].refs = 0 /\ ~versions[Len(versions)].released
      BY <1>12, <2>1 DEF IRefs, IBuilt
    <3>2. Len(versions) # v /\ Len(versions) \in 1 .. Len(versions)
      BY <1>2, <1>3, <3>1, VersionFacts
    <3> QED BY <1>1, <1>9, <3>1, <3>2
  <2> QED BY <2>1 DEF IBuilt
<1> QED BY <1>13, <1>14, <1>19, <1>20, <1>21 DEF IRefs

LEMMA UnrefFilesRefs ==
  ASSUME IControl, IRefs, NEW r \in Readers, UnrefFiles(r), job' \in [Jobs -> JobType] /\ nextFile' \in Nat \ {0}
  PROVE  IRefs'
<1> DEFINE v == VersionOf(r)
           x == [versions[v] EXCEPT !.released = TRUE]
<1>1. /\ pc[r] = "unreffiles" /\ UNCHANGED <<list, states, job>>
      /\ versions' = [versions EXCEPT ![v] = x]
      /\ reader' = [reader EXCEPT ![r].obsolete = LastReferences(versions, v)]
      /\ Goto(r, "remove")
  BY DEF UnrefFiles, readerRest, VersionOf
<1>2. IRefType /\ v \in 1 .. Len(versions) /\ v \in list /\ versions[v].refs = 0 /\ reader \in [Readers -> ReaderType]
  BY <1>1 DEF IRefs, IRefType, IReaders
<1>3. versions[v] \in VersionType /\ versions[v].tables \subseteq Nat
  BY <1>2, VersionFacts
<1>4. x \in VersionType /\ x.tables = versions[v].tables /\ x.refs = versions[v].refs /\ x.released = TRUE
  BY <1>3 DEF VersionType
<1>5. LastReferences(versions, v) \subseteq Nat
  BY <1>3 DEF LastReferences
<1>6. Moves(r) /\ pc'[r] = "remove"
  BY <1>1, ReaderIs, GotoMoves DEF IControl, IType
<1>7. /\ reader' \in [Readers -> ReaderType] /\ \A q \in Readers : q # r => reader'[q] = reader[q]
      /\ reader'[r].state = reader[r].state
  <2> DEFINE o == LastReferences(versions, v)
  <2>1. reader' = [reader EXCEPT ![r].obsolete = o] /\ o \subseteq Nat
    BY <1>1, <1>5
  <2> HIDE DEF o
  <2> QED BY <1>2, <2>1 DEF ReaderType
<1>8. v = VersionOf(r)
  OBVIOUS
<1> HIDE DEF v, x
<1>9. /\ versions' \in Seq(VersionType) /\ Len(versions') = Len(versions)
      /\ versions'[v].refs = versions[v].refs /\ versions'[v].released = TRUE
      /\ \A k \in 1 .. Len(versions) : k # v => versions'[k] = versions[k]
  BY <1>1, <1>2, <1>4, VersionUpdate
<1>10. /\ OthersRead(r) /\ SameStates /\ \A q \in Readers : VersionOf(q)' = VersionOf(q)
       /\ \A q \in Readers : reader'[q].state = reader[q].state
  BY <1>1, <1>6, <1>7 DEF OthersRead, SameStates, VersionOf
<1>11. current' = current
  BY <1>1 DEF current
<1>12. /\ \A q \in Readers : q # r => pc'[q] = pc[q]
       /\ \A i : DBHolds(i)' <=> DBHolds(i)
       /\ Swapping' <=> Swapping
       /\ \A j \in Jobs : pc'[j] = pc[j]
  BY <1>2, <1>10, OthersKeep
<1>13. IRefType'
  BY <1>1, <1>2, <1>7, <1>9, <1>10, <1>11, <1>12 DEF IRefType
<1>14. IStates'
  <2>1. \A i : StateHolders(i)' = StateHolders(i)
    BY <1>1, <1>6, <1>10, <1>12 DEF StateHolders
  <2> QED BY <1>1, <1>12, <2>1 DEF IRefs, IStates
<1>15. \A k : Holders(k)' = Holders(k)
  <2>1. \A i : Releasing(i)' <=> Releasing(i)
    BY <1>1, <1>6, <1>10, <1>12 DEF Releasing
  <2> QED BY <1>1, <1>11, <2>1 DEF Holders
<1>16. \A q \in Readers : q # r /\ pc[q] = "unreffiles" => VersionOf(q) # v /\ VersionOf(q) \in 1 .. Len(versions)
  BY <1>1, <1>2, <1>8 DEF IRefs, IReaders, IRefType
<1>17. IVersions'
  <2>1. \A k \in 1 .. Len(versions') : versions'[k].refs = Cardinality(Holders(k)')
    BY <1>9, <1>15 DEF IRefs, IVersions
  <2>2. \A k \in 1 .. Len(versions') : versions'[k].refs > 0 => k \in list' /\ ~versions'[k].released
    BY <1>1, <1>2, <1>9 DEF IRefs, IVersions
  <2>3. ASSUME NEW k \in list', ~versions'[k].released, versions'[k].refs = 0
        PROVE  \E q \in Readers : pc'[q] = "unreffiles" /\ VersionOf(q)' = k
    <3>1. k # v
      BY <1>9, <2>3
    <3>2. k \in 1 .. Len(versions) /\ versions'[k] = versions[k] /\ k \in list
      BY <1>1, <1>2, <1>9, <2>3, <3>1 DEF IRefType
    <3>3. PICK q \in Readers : pc[q] = "unreffiles" /\ VersionOf(q) = k
      BY <2>3, <3>2 DEF IRefs, IVersions
    <3>4. q # r
      BY <1>8, <3>1, <3>3
    <3> QED BY <1>10, <1>12, <3>3, <3>4
  <2> QED BY <2>1, <2>2, <2>3 DEF IVersions
<1>18. IReaders'
  <2>1. ASSUME NEW q \in Readers, pc'[q] = "unreffiles"
        PROVE  /\ q # r /\ versions'[VersionOf(q)].refs = 0 /\ ~versions'[VersionOf(q)].released
               /\ VersionOf(q) \in list
    BY <1>6, <1>9, <1>12, <1>16, <2>1 DEF IRefs, IReaders
  <2>2. ASSUME NEW q \in Readers, pc'[q] = "remove" PROVE versions'[VersionOf(q)].released
    <3>1. CASE q = r
      BY <1>8, <1>9, <3>1
    <3>2. CASE q # r
      <4>1. versions[VersionOf(q)].released /\ VersionOf(q) \in 1 .. Len(versions)
        BY <1>2, <1>12, <2>2, <3>2, StateFacts DEF IRefs, IReaders, VersionOf, IRefType
      <4> QED BY <1>9, <4>1
    <3> QED BY <3>1, <3>2
  <2>3. \A q \in Readers : pc'[q] = "unrefversion" => q # r /\ pc[q] = "unrefversion"
    BY <1>6, <1>12
  <2>4. \A q \in Readers : pc'[q] = "unreffiles" => pc[q] = "unreffiles"
    BY <1>6, <1>12
  <2> QED BY <1>1, <1>10, <2>1, <2>2, <2>3, <2>4 DEF IRefs, IReaders
<1>19. IBuilt'
  <2>1. ASSUME NEW j \in Jobs, pc'[j] \in Built
        PROVE  /\ job'[j].version = Len(versions') /\ Len(versions') \notin list'
               /\ versions'[Len(versions')].refs = 0 /\ ~versions'[Len(versions')].released
    <3>1. /\ job[j].version = Len(versions) /\ Len(versions) \notin list
          /\ versions[Len(versions)].refs = 0 /\ ~versions[Len(versions)].released
      BY <1>12, <2>1 DEF IRefs, IBuilt
    <3>2. Len(versions) # v /\ Len(versions) \in 1 .. Len(versions)
      BY <1>2, <3>1, VersionFacts
    <3> QED BY <1>1, <1>9, <3>1, <3>2
  <2> QED BY <2>1 DEF IBuilt
<1> QED BY <1>13, <1>14, <1>17, <1>18, <1>19 DEF IRefs

LEMMA RemoveVersionRefs ==
  ASSUME IControl, IRefs, NEW r \in Readers, RemoveVersion(r), job' \in [Jobs -> JobType] /\ nextFile' \in Nat \ {0}
  PROVE  IRefs'
<1>0. PICK v : v = VersionOf(r)
  OBVIOUS
<1>1. /\ pc[r] = "remove" /\ UNCHANGED <<versions, states, job>> /\ list' = list \ {v}
      /\ reader' = [reader EXCEPT ![r].obsolete = {}] /\ Goto(r, "schedule")
  BY <1>0 DEF RemoveVersion, readerRest, VersionOf
<1>2. IRefType /\ versions[v].released /\ reader \in [Readers -> ReaderType]
  BY <1>0, <1>1 DEF IRefs, IRefType, IReaders
<1>3. Moves(r) /\ pc'[r] = "schedule"
  BY <1>1, ReaderIs, GotoMoves DEF IControl, IType
<1>4. /\ reader' \in [Readers -> ReaderType] /\ \A q \in Readers : q # r => reader'[q] = reader[q]
      /\ reader'[r].state = reader[r].state
  BY <1>1, <1>2 DEF ReaderType
<1>5. /\ OthersRead(r) /\ SameStates /\ \A q \in Readers : VersionOf(q)' = VersionOf(q)
      /\ \A q \in Readers : reader'[q].state = reader[q].state
  BY <1>1, <1>3, <1>4 DEF OthersRead, SameStates, VersionOf
<1>6. /\ \A q \in Readers : q # r => pc'[q] = pc[q]
      /\ \A i : DBHolds(i)' <=> DBHolds(i)
      /\ Swapping' <=> Swapping
      /\ \A j \in Jobs : pc'[j] = pc[j]
  BY <1>2, <1>5, OthersKeep
<1>7. current # v /\ current \in list'
  BY <1>1, <1>2, CurrentHeld DEF IRefType
<1>8. current' = current
  <2>1. list' \subseteq Nat /\ \A y \in list' : y <= current
    BY <1>1, <1>2, VersionFacts DEF IRefType
  <2> QED BY <1>7, <2>1, MaxIs DEF current
<1>9. IRefType'
  BY <1>1, <1>2, <1>3, <1>4, <1>5, <1>6, <1>7, <1>8 DEF IRefType
<1>10. IStates'
  <2>1. \A i : StateHolders(i)' = StateHolders(i)
    BY <1>1, <1>3, <1>5, <1>6 DEF StateHolders
  <2> QED BY <1>1, <1>6, <2>1 DEF IRefs, IStates
<1>11. \A k : Holders(k)' = Holders(k)
  <2>1. \A i : Releasing(i)' <=> Releasing(i)
    BY <1>1, <1>3, <1>5, <1>6 DEF Releasing
  <2> QED BY <1>1, <1>8, <2>1 DEF Holders
<1>12. IVersions'
  <2>1. \A k \in 1 .. Len(versions) : versions[k].refs > 0 => k \in list'
    BY <1>1, <1>2 DEF IRefs, IVersions
  <2>2. \A k \in list : ~versions[k].released /\ versions[k].refs = 0 =>
          \E q \in Readers : pc'[q] = "unreffiles" /\ VersionOf(q)' = k
    BY <1>1, <1>5, <1>6 DEF IRefs, IVersions
  <2>3. list' \subseteq list
    BY <1>1
  <2> QED BY <1>1, <1>11, <2>1, <2>2, <2>3 DEF IRefs, IVersions
<1>13. IReaders'
  <2>1. \A q \in Readers : pc'[q] # "schedule" => q # r /\ pc'[q] = pc[q]
    BY <1>3, <1>6
  <2>2. \A q \in Readers : pc[q] = "unreffiles" => VersionOf(q) \in list'
    BY <1>1, <1>2 DEF IRefs, IReaders
  <2> QED BY <1>1, <1>5, <2>1, <2>2 DEF IRefs, IReaders
<1>14. IBuilt'
  BY <1>1, <1>6 DEF IRefs, IBuilt
<1> QED BY <1>9, <1>10, <1>12, <1>13, <1>14 DEF IRefs

LEMMA ScheduleRefs ==
  ASSUME IControl, IRefs, NEW r \in Readers, Schedule(r), job' \in [Jobs -> JobType] /\ nextFile' \in Nat \ {0}
  PROVE  IRefs'
<1>1. /\ pc[r] = "schedule" /\ UNCHANGED <<versions, list, states, job>>
      /\ reader' = [reader EXCEPT ![r] = NoReader]
      /\ \E s : pc' = [pc EXCEPT ![r] = "idle", ![Cleaner] = s]
  BY DEF Schedule, readerRest, listVars
<1>2. DOMAIN pc = Workers \union Readers /\ r \in DOMAIN pc /\ r # Cleaner /\ IRefType
  BY ReaderIs DEF IControl, IType, PCType, IRefs
<1>3. pc'[r] = "idle" /\ \A x \in Workers \union Readers : x # r /\ x # Cleaner => pc'[x] = pc[x]
  BY <1>1, <1>2
<1>4. /\ \A q \in Readers : q # r => pc'[q] = pc[q]
      /\ \A j \in Jobs : pc'[j] = pc[j]
      /\ pc'[Closer] = pc[Closer]
  BY <1>3, JobIs, ReaderIs, OthersAre
<1>5. /\ reader' \in [Readers -> ReaderType]
      /\ \A q \in Readers : q # r => reader'[q] = reader[q]
  <2>1. NoReader \in ReaderType
    BY DEF NoReader, ReaderType
  <2> QED BY <1>1, <1>2, <2>1 DEF IRefType
<1>6. current' = current
  BY <1>1 DEF current
<1>7. IRefType'
  BY <1>1, <1>2, <1>3, <1>4, <1>5, <1>6 DEF IRefType
<1>8. \A i : DBHolds(i)' <=> DBHolds(i)
  BY <1>1, <1>4 DEF DBHolds, Drained, Swapping
<1>9. IStates'
  <2>1. \A i : StateHolders(i)' = StateHolders(i)
    BY <1>1, <1>3, <1>4, <1>5, <1>8 DEF StateHolders
  <2>2. Swapping' <=> Swapping
    BY <1>4 DEF Swapping
  <2> QED BY <1>1, <2>1, <2>2 DEF IRefs, IStates
<1>10. \A k : Holders(k)' = Holders(k)
  <2>1. \A i : Releasing(i)' <=> Releasing(i)
    BY <1>1, <1>3, <1>4, <1>5 DEF Releasing
  <2> QED BY <1>1, <1>6, <2>1 DEF Holders
<1>11. \A q \in Readers : q # r => VersionOf(q)' = VersionOf(q)
  BY <1>1, <1>5 DEF VersionOf
<1>12. IVersions'
  BY <1>1, <1>4, <1>10, <1>11 DEF IRefs, IVersions
<1>13. IReaders'
  <2>1. \A q \in Readers : pc'[q] # "idle" => q # r /\ pc'[q] = pc[q] /\ reader'[q] = reader[q] /\ VersionOf(q)' = VersionOf(q)
    BY <1>3, <1>4, <1>5, <1>11
  <2>2. \A q \in Readers : pc'[q] = "unrefversion" => states'[reader'[q].state].refs = 0
    BY <1>1, <2>1 DEF IRefs, IReaders
  <2>3. \A p, q \in Readers :
          pc'[p] = "unrefversion" /\ pc'[q] = "unrefversion" /\ reader'[p].state = reader'[q].state => p = q
    BY <2>1 DEF IRefs, IReaders
  <2>4. \A q \in Readers : pc'[q] = "unreffiles" =>
          versions'[VersionOf(q)'].refs = 0 /\ ~versions'[VersionOf(q)'].released /\ VersionOf(q)' \in list'
    BY <1>1, <2>1 DEF IRefs, IReaders
  <2>5. \A p, q \in Readers : pc'[p] = "unreffiles" /\ pc'[q] = "unreffiles" /\ VersionOf(p)' = VersionOf(q)' => p = q
    BY <2>1 DEF IRefs, IReaders
  <2>6. \A q \in Readers : pc'[q] = "remove" => versions'[VersionOf(q)'].released
    BY <1>1, <2>1 DEF IRefs, IReaders
  <2> QED BY <2>2, <2>3, <2>4, <2>5, <2>6 DEF IReaders
<1>14. IBuilt'
  BY <1>1, <1>4 DEF IRefs, IBuilt
<1> QED BY <1>7, <1>9, <1>12, <1>13, <1>14 DEF IRefs

-----------------------------------------------------------------------------
(* The steps of the jobs that change references. *)

LEMMA EditRefs ==
  ASSUME IControl, IRefs, NEW j \in Jobs, NEW replace \in BOOLEAN, Edit(j, replace),
         job' \in [Jobs -> JobType] /\ nextFile' \in Nat \ {0}
  PROVE  IRefs'
<1>0. PICK n, x : n = Len(versions) /\ x = [tables   |-> (versions[current].tables \ job[j].in) \union job[j].out,
                                            refs     |-> 0,
                                            released |-> FALSE]
  OBVIOUS
<1>1. /\ pc[j] = "edit" /\ UNCHANGED <<list, states, reader>> /\ versions' = Append(versions, x)
      /\ \E m : job' = [job EXCEPT ![j].version = n + 1, ![j].manifest = m]
      /\ \E s \in {"create", "append"} : Goto(j, s)
  BY <1>0 DEF Edit
<1>2. /\ IRefType /\ job \in [Jobs -> JobType] /\ versions \in Seq(VersionType) /\ n \in Nat
      /\ current \in 1 .. n /\ versions[current].tables \subseteq Nat /\ list \subseteq 1 .. n
  BY <1>0, VersionFacts DEF IRefs, IRefType
<1>3. x \in VersionType /\ x.refs = 0 /\ x.released = FALSE
  <2>1. (versions[current].tables \ job[j].in) \union job[j].out \subseteq Nat
    BY <1>2, JobFields
  <2> QED BY <1>0, <2>1 DEF VersionType
<1>4. /\ versions' \in Seq(VersionType) /\ Len(versions') = n + 1 /\ versions'[n + 1] = x
      /\ \A k \in 1 .. n : versions'[k] = versions[k]
  BY <1>0, <1>1, <1>2, <1>3
<1>5. Moves(j) /\ pc'[j] \in Built /\ j \in Workers /\ j # Closer /\ j \notin Readers
  BY <1>1, JobIs, GotoMoves DEF IControl, IType, Built
<1>6. /\ \A r \in Readers : pc'[r] = pc[r]
      /\ \A k \in Jobs : k # j => pc'[k] = pc[k] /\ pc[k] \notin Built
      /\ pc'[Closer] = pc[Closer]
  <2>1. \A k \in Jobs : k # j => pc[k] \notin Built
    BY <1>1, <1>5, JobIs DEF IControl, ILock, Locking
  <2> QED BY <1>5, <2>1, JobIs, ReaderIs, OthersAre DEF Moves
<1>7. current' = current
  BY <1>1 DEF current
<1>8. Swapping' <=> Swapping
  BY <1>1, <1>5, <1>6 DEF Swapping, Built
<1>9. IRefType'
  <2>1. list' \subseteq 1 .. Len(versions')
    BY <1>1, <1>2, <1>4
  <2>2. \A i \in 1 .. Len(states') : states'[i].version \in 1 .. Len(versions')
    BY <1>0, <1>1, <1>2, <1>4 DEF IRefType
  <2>3. \A r \in Readers : pc'[r] # "idle" => reader'[r].state \in 1 .. Len(states')
    BY <1>1, <1>2, <1>6 DEF IRefType
  <2> QED BY <1>1, <1>2, <1>4, <1>7, <2>1, <2>2, <2>3 DEF IRefType
<1>10. \A i : StateHolders(i)' = StateHolders(i)
  BY <1>1, <1>6, <1>8 DEF StateHolders, DBHolds, Drained
<1>11. IStates'
  BY <1>1, <1>8, <1>10 DEF IRefs, IStates
<1>12. \A v : Holders(v)' = Holders(v)
  <2>1. \A i : Releasing(i)' <=> Releasing(i)
    BY <1>1, <1>6 DEF Releasing
  <2> QED BY <1>1, <1>7, <2>1 DEF Holders
<1>13. \A r : VersionOf(r)' = VersionOf(r)
  BY <1>1 DEF VersionOf
<1>14. Holders(n + 1) = {}
  BY <1>0, <1>2, StateFacts DEF Holders
<1>15. IVersions'
  <2>1. Cardinality(Holders(n + 1)) = 0
    BY <1>14, FS_EmptySet
  <2>2. \A v \in 1 .. n + 1 : versions'[v].refs = Cardinality(Holders(v)')
    <3>1. \A v \in 1 .. n : versions'[v].refs = Cardinality(Holders(v)')
      BY <1>0, <1>4, <1>12 DEF IRefs, IVersions
    <3>2. versions'[n + 1].refs = Cardinality(Holders(n + 1)')
      BY <1>3, <1>4, <1>12, <2>1
    <3>3. \A v \in 1 .. n + 1 : v \in 1 .. n \/ v = n + 1
      BY <1>2
    <3> QED BY <3>1, <3>2, <3>3
  <2>3. \A v \in 1 .. n + 1 : versions'[v].refs > 0 => v \in list' /\ ~versions'[v].released
    BY <1>0, <1>1, <1>2, <1>3, <1>4 DEF IRefs, IVersions
  <2>4. \A v \in list' : ~versions'[v].released /\ versions'[v].refs = 0 =>
          \E r \in Readers : pc'[r] = "unreffiles" /\ VersionOf(r)' = v
    BY <1>1, <1>2, <1>4, <1>6, <1>13, ZenonT(60) DEF IRefs, IVersions
  <2> QED BY <1>4, <2>2, <2>3, <2>4 DEF IVersions
<1>16. IReaders'
  <2>1. \A r \in Readers : pc[r] # "idle" => VersionOf(r) \in 1 .. n
    BY <1>0, <1>2 DEF VersionOf, IRefType
  <2>2. \A r \in Readers : pc'[r] = "unreffiles" =>
          versions'[VersionOf(r)'].refs = 0 /\ ~versions'[VersionOf(r)'].released /\ VersionOf(r)' \in list'
    BY <1>1, <1>4, <1>6, <1>13, <2>1 DEF IRefs, IReaders
  <2>3. \A r \in Readers : pc'[r] = "remove" => versions'[VersionOf(r)'].released
    BY <1>4, <1>6, <1>13, <2>1 DEF IRefs, IReaders
  <2>4. \A q, r \in Readers : pc'[q] = "unreffiles" /\ pc'[r] = "unreffiles" /\ VersionOf(q)' = VersionOf(r)' => q = r
    BY <1>6, <1>13 DEF IRefs, IReaders
  <2>5. \A r \in Readers : pc'[r] = "unrefversion" => states'[reader'[r].state].refs = 0
    BY <1>1, <1>6 DEF IRefs, IReaders
  <2>6. \A q, r \in Readers :
          pc'[q] = "unrefversion" /\ pc'[r] = "unrefversion" /\ reader'[q].state = reader'[r].state => q = r
    BY <1>1, <1>6 DEF IRefs, IReaders
  <2> QED BY <2>2, <2>3, <2>4, <2>5, <2>6 DEF IReaders
<1>17. IBuilt'
  <2>1. job'[j].version = n + 1
    BY <1>1, <1>2 DEF JobType
  <2>2. n + 1 \notin list'
    BY <1>1, <1>2
  <2> QED BY <1>3, <1>4, <1>6, <2>1, <2>2 DEF IBuilt
<1> QED BY <1>9, <1>11, <1>15, <1>16, <1>17 DEF IRefs

LEMMA SwapStateRefs ==
  ASSUME IControl, IRefs, NEW j \in Jobs, SwapState(j), job' \in [Jobs -> JobType] /\ nextFile' \in Nat \ {0}
  PROVE  IRefs'
<1>0. PICK n, c, x : /\ n = Len(states) /\ c = current
                     /\ x = [versions[c] EXCEPT !.refs = versions[c].refs + 1]
  OBVIOUS
<1>1. /\ pc[j] = "state" /\ mu = j /\ UNCHANGED <<list, reader, job>>
      /\ states' = Append(states, [version |-> c, refs |-> 1])
      /\ versions' = [versions EXCEPT ![c] = x] /\ Goto(j, "unrefold")
  BY <1>0 DEF SwapState
<1>2. /\ IRefType /\ states \in Seq(StateType) /\ n \in Nat /\ n > 0 /\ c \in 1 .. Len(versions)
      /\ versions[c] \in VersionType /\ versions[c].refs \in Int /\ c \in list
  BY <1>0, StateFacts, VersionFacts DEF IRefs, IRefType
<1>3. /\ x \in VersionType /\ x.tables = versions[c].tables /\ x.refs = versions[c].refs + 1
      /\ x.released = versions[c].released
  <2> DEFINE y == versions[c].refs + 1
  <2>1. x = [versions[c] EXCEPT !.refs = y] /\ y \in Int
    BY <1>0, <1>2
  <2> HIDE DEF y
  <2>2. x \in VersionType /\ x.tables = versions[c].tables /\ x.refs = y /\ x.released = versions[c].released
    BY <1>2, <2>1 DEF VersionType
  <2> QED BY <2>2 DEF y
<1>4. /\ versions' \in Seq(VersionType) /\ Len(versions') = Len(versions) /\ versions'[c] = x
      /\ \A k \in 1 .. Len(versions) : k # c => versions'[k] = versions[k]
  BY <1>1, <1>2, <1>3, VersionUpdate
<1>5. /\ states' \in Seq(StateType) /\ Len(states') = n + 1 /\ states' # <<>>
      /\ states'[n + 1] = [version |-> c, refs |-> 1]
      /\ \A k \in 1 .. n : states'[k] = states[k]
  <2>1. [version |-> c, refs |-> 1] \in StateType
    BY <1>2, VersionFacts DEF StateType
  <2> QED BY <1>0, <1>1, <1>2, <2>1, SMTT(40)
<1>6. states'[n + 1].version = c /\ states'[n + 1].refs = 1
  BY <1>5
<1>7. Moves(j) /\ pc'[j] = "unrefold" /\ j \in Workers /\ j # Closer /\ j \notin Readers
  BY <1>1, JobIs, GotoMoves DEF IControl, IType
<1>8. /\ \A r \in Readers : pc'[r] = pc[r]
      /\ \A k \in Jobs : k # j => pc'[k] = pc[k]
      /\ pc'[Closer] = pc[Closer]
  BY <1>7, JobIs, ReaderIs, OthersAre DEF Moves
<1>9. Swapping' /\ ~Swapping /\ ~Drained /\ ~Drained'
  <2>1. ~Swapping
    BY <1>1, JobIs DEF Swapping, IControl, IMutex, Holding
  <2>2. ~Drained
    BY <1>1 DEF IControl, IClosed
  <2> QED BY <1>7, <1>8, <2>1, <2>2 DEF Swapping, Drained
<1>10. \A i \in 1 .. n : DBHolds(i)' <=> DBHolds(i)
  BY <1>0, <1>2, <1>5, <1>9 DEF DBHolds
<1>11. DBHolds(n + 1)'
  BY <1>5, <1>9 DEF DBHolds
<1>12. current' = c
  BY <1>0, <1>1 DEF current
<1>13. \A r \in Readers : pc[r] # "idle" => reader[r].state \in 1 .. n
  BY <1>0, <1>2 DEF IRefType
<1>14. IRefType'
  <2>1. \A i \in 1 .. n + 1 : states'[i].version \in 1 .. Len(versions')
    <3>1. \A i \in 1 .. n : states'[i].version \in 1 .. Len(versions')
      BY <1>0, <1>2, <1>4, <1>5 DEF IRefType
    <3>2. states'[n + 1].version \in 1 .. Len(versions')
      BY <1>2, <1>4, <1>6
    <3>3. \A i \in 1 .. n + 1 : i \in 1 .. n \/ i = n + 1
      BY <1>2
    <3> QED BY <3>1, <3>2, <3>3
  <2>2. \A r \in Readers : pc'[r] # "idle" => reader'[r].state \in 1 .. Len(states')
    BY <1>1, <1>2, <1>5, <1>8, <1>13
  <2> QED BY <1>0, <1>1, <1>2, <1>4, <1>5, <1>12, <2>1, <2>2 DEF IRefType
<1>15. IStates'
  <2>1. \A i \in 1 .. n : StateHolders(i)' = StateHolders(i)
    BY <1>1, <1>8, <1>10 DEF StateHolders
  <2>2. StateHolders(n + 1)' = {Nobody}
    <3>1. \A r \in Readers : ~(pc'[r] = "reading" /\ reader'[r].state = n + 1)
      BY <1>1, <1>2, <1>8, <1>13
    <3> QED BY <1>11, <3>1 DEF StateHolders
  <2>3. IsFiniteSet(StateHolders(n + 1)') /\ Cardinality(StateHolders(n + 1)') = 1
    <3>1. IsFiniteSet({Nobody}) /\ Cardinality({Nobody}) = 1
      BY FS_Singleton
    <3> QED BY <2>2, <3>1
  <2>4. \A i \in 1 .. n + 1 : IsFiniteSet(StateHolders(i)') /\ states'[i].refs = Cardinality(StateHolders(i)')
    <3>1. ASSUME NEW i \in 1 .. n + 1 PROVE IsFiniteSet(StateHolders(i)') /\ states'[i].refs = Cardinality(StateHolders(i)')
      <4>1. CASE i = n + 1
        BY <1>6, <2>3, <4>1
      <4>2. CASE i # n + 1
        <5>1. i \in 1 .. n /\ i \in 1 .. Len(states)
          BY <1>0, <1>2, <4>2
        <5> QED BY <1>5, <2>1, <5>1 DEF IRefs, IStates
      <4> QED BY <4>1, <4>2
    <3> QED BY <3>1
  <2> QED BY <1>2, <1>5, <2>4 DEF IStates
<1>16. /\ Holders(c)' = Holders(c) \union {n + 1}
       /\ \A v : v # c => Holders(v)' = Holders(v)
  <2>1. \A i : Releasing(i)' <=> Releasing(i)
    BY <1>1, <1>8 DEF Releasing
  <2>2. \A i \in 1 .. n + 1 : i \in 1 .. n \/ i = n + 1
    BY <1>2
  <2>3. 1 .. n \subseteq 1 .. n + 1 /\ n + 1 \in 1 .. n + 1
    BY <1>2
  <2>4. \A v, i : i \in {k \in 1 .. Len(states) : states[k].version = v /\ (states[k].refs > 0 \/ Releasing(k))} <=>
          i \in 1 .. n /\ states[i].version = v /\ (states[i].refs > 0 \/ Releasing(i))
    BY <1>0
  <2>5. \A v, i : i \in {k \in 1 .. Len(states) : states[k].version = v /\ (states[k].refs > 0 \/ Releasing(k))}' <=>
          \/ i \in 1 .. n /\ states[i].version = v /\ (states[i].refs > 0 \/ Releasing(i))
          \/ i = n + 1 /\ v = c
    BY <1>5, <1>6, <2>1, <2>2, <2>3
  <2> QED BY <1>0, <1>12, <2>4, <2>5 DEF Holders
<1>17. n + 1 \notin Holders(c)
  BY <1>0, <1>2 DEF Holders
<1>18. Cardinality(Holders(c)') = versions[c].refs + 1
  <2>1. IsFiniteSet(Holders(c)) /\ versions[c].refs = Cardinality(Holders(c))
    BY <1>2, HoldersFinite DEF IRefs, IVersions
  <2> QED BY <1>16, <1>17, <2>1, FS_AddElement
<1>19. \A r \in Readers : pc[r] # "idle" => VersionOf(r)' = VersionOf(r)
  BY <1>1, <1>5, <1>13 DEF VersionOf
<1>20. versions[c].refs > 0 /\ ~versions[c].released
  BY <1>0, CurrentHeld
<1>21. IVersions'
  <2>1. \A v \in 1 .. Len(versions) : versions'[v].refs = Cardinality(Holders(v)')
    BY <1>3, <1>4, <1>16, <1>18 DEF IRefs, IVersions
  <2>2. \A v \in 1 .. Len(versions) : versions'[v].refs > 0 => v \in list' /\ ~versions'[v].released
    BY <1>1, <1>2, <1>3, <1>4, <1>20 DEF IRefs, IVersions
  <2>3. ASSUME NEW v \in list', ~versions'[v].released, versions'[v].refs = 0
        PROVE  \E r \in Readers : pc'[r] = "unreffiles" /\ VersionOf(r)' = v
    <3>1. v # c
      BY <1>2, <1>3, <1>4, <1>20, <2>3
    <3>2. v \in list /\ versions'[v] = versions[v]
      BY <1>1, <1>2, <1>4, <2>3, <3>1 DEF IRefType
    <3>3. PICK r \in Readers : pc[r] = "unreffiles" /\ VersionOf(r) = v
      BY <2>3, <3>2 DEF IRefs, IVersions
    <3> QED BY <1>8, <1>19, <3>3
  <2> QED BY <1>4, <2>1, <2>2, <2>3 DEF IVersions
<1>22. IReaders'
  <2>1. \A r \in Readers : pc[r] = "unrefversion" => states'[reader'[r].state].refs = 0
    BY <1>1, <1>5, <1>13 DEF IRefs, IReaders
  <2>2. \A r \in Readers : pc[r] # "idle" => VersionOf(r) \in 1 .. Len(versions)
    BY <1>2 DEF VersionOf, IRefType
  <2>3. \A r \in Readers : pc[r] = "unreffiles" => VersionOf(r) # c
    BY <1>20 DEF IRefs, IReaders
  <2>4. \A r \in Readers : pc[r] = "remove" => VersionOf(r) # c
    BY <1>20 DEF IRefs, IReaders
  <2>5. \A q, r \in Readers :
          pc'[q] = "unrefversion" /\ pc'[r] = "unrefversion" /\ reader'[q].state = reader'[r].state => q = r
    BY <1>1, <1>8 DEF IRefs, IReaders
  <2>6. \A r \in Readers : pc'[r] = "unreffiles" =>
          versions'[VersionOf(r)'].refs = 0 /\ ~versions'[VersionOf(r)'].released /\ VersionOf(r)' \in list'
    BY <1>1, <1>4, <1>8, <1>19, <2>2, <2>3 DEF IRefs, IReaders
  <2>7. \A q, r \in Readers : pc'[q] = "unreffiles" /\ pc'[r] = "unreffiles" /\ VersionOf(q)' = VersionOf(r)' => q = r
    BY <1>8, <1>19 DEF IRefs, IReaders
  <2>8. \A r \in Readers : pc'[r] = "remove" => versions'[VersionOf(r)'].released
    BY <1>4, <1>8, <1>19, <2>2, <2>4 DEF IRefs, IReaders
  <2> QED BY <1>8, <2>1, <2>5, <2>6, <2>7, <2>8 DEF IReaders
<1>23. IBuilt'
  <2>1. ASSUME NEW k \in Jobs, pc'[k] \in Built
        PROVE  /\ job'[k].version = Len(versions') /\ Len(versions') \notin list'
               /\ versions'[Len(versions')].refs = 0 /\ ~versions'[Len(versions')].released
    <3>1. pc[k] \in Built
      BY <1>7, <1>8, <2>1 DEF Built
    <3>2. /\ job[k].version = Len(versions) /\ Len(versions) \notin list
          /\ versions[Len(versions)].refs = 0 /\ ~versions[Len(versions)].released
      BY <3>1 DEF IRefs, IBuilt
    <3>3. Len(versions) # c /\ Len(versions) \in 1 .. Len(versions)
      BY <1>2, <3>2, VersionFacts
    <3> QED BY <1>1, <1>4, <3>2, <3>3
  <2> QED BY <2>1 DEF IBuilt
<1> QED BY <1>14, <1>15, <1>21, <1>22, <1>23 DEF IRefs

LEMMA InstallRefs ==
  ASSUME IControl, IRefs, NEW j \in Jobs, Install(j), job' \in [Jobs -> JobType] /\ nextFile' \in Nat \ {0}
  PROVE  IRefs'
<1>0. PICK n, c, s, x : /\ n = Len(versions) /\ c = current /\ s = UnrefLocked(VersionState, c)
                        /\ x = [s.versions[n] EXCEPT !.refs = 1]
  OBVIOUS
<1>1. /\ pc[j] = "install" /\ Goto(j, "state")
      /\ versions' = [s.versions EXCEPT ![job[j].version].refs = 1] /\ list' = s.list \union {job[j].version}
      /\ UNCHANGED <<states, reader>>
  BY <1>0 DEF Install
<1>2. /\ IRefType /\ c \in 1 .. n /\ n \in Nat /\ list \subseteq 1 .. n /\ c \in list /\ \A v \in list : v <= c
      /\ n = Len(versions) /\ c \in 1 .. Len(versions)
  BY <1>0, VersionFacts DEF IRefs, IRefType
<1>3. job[j].version = n /\ n \notin list /\ versions[n].refs = 0 /\ ~versions[n].released /\ n \in 1 .. n /\ n # c
  BY <1>0, <1>1, <1>2 DEF IRefs, IBuilt, Built
<1>4. versions[c].refs \in Nat /\ versions[c].refs > 0 /\ ~versions[c].released /\ 0 \in Holders(c)
  BY <1>0, <1>2, RefsHolders, CurrentHeld
<1>5. /\ s.versions \in Seq(VersionType) /\ Len(s.versions) = n
      /\ \A k \in 1 .. n : k # c => s.versions[k] = versions[k]
      /\ s.versions[c].refs = versions[c].refs - 1
      /\ versions[c].refs > 1 => s.versions[c].released = versions[c].released /\ s.list = list
      /\ ~(versions[c].refs > 1) => s.versions[c].released = TRUE /\ s.list = list \ {c}
  <2>1. /\ s.versions \in Seq(VersionType) /\ Len(s.versions) = Len(versions)
        /\ \A k \in 1 .. Len(versions) : k # c => s.versions[k] = versions[k]
        /\ s.versions[c].refs = versions[c].refs - 1
        /\ versions[c].refs > 1 => s.versions[c].released = versions[c].released /\ s.list = list
        /\ ~(versions[c].refs > 1) => s.versions[c].released = TRUE /\ s.list = list \ {c}
    <3>1. s = UnrefLocked(VersionState, c) /\ IRefType /\ c \in 1 .. Len(versions)
      BY <1>0, <1>2
    <3>2. Unreffed(s, c)
      BY <3>1, UnrefLockedIs
    <3> QED BY <3>2 DEF Unreffed
  <2> QED BY <1>2, <2>1
<1>6. x \in VersionType /\ x.refs = 1 /\ x.released = versions[n].released
  <2>1. s.versions[n] = versions[n] /\ versions[n] \in VersionType
    BY <1>2, <1>3, <1>5, VersionFacts
  <2> QED BY <1>0, <2>1 DEF VersionType
<1>7. /\ versions' \in Seq(VersionType) /\ Len(versions') = n /\ versions'[n] = x
      /\ \A k \in 1 .. n : k # n => versions'[k] = s.versions[k]
  <2>1. versions' = [s.versions EXCEPT ![n] = x]
    BY <1>0, <1>1, <1>3, <1>5
  <2> QED BY <1>2, <1>3, <1>5, <1>6, <2>1
<1>8. /\ versions'[n].refs = 1 /\ ~versions'[n].released
      /\ versions'[c].refs = versions[c].refs - 1
      /\ versions[c].refs > 1 => ~versions'[c].released /\ list' = list \union {n}
      /\ ~(versions[c].refs > 1) => versions'[c].released /\ list' = (list \ {c}) \union {n}
      /\ \A k \in 1 .. n : k # n /\ k # c => versions'[k] = versions[k]
  BY <1>1, <1>2, <1>3, <1>4, <1>5, <1>6, <1>7
<1>9. list' \subseteq list \union {n} /\ n \in list' /\ \A v \in list : v # c => v \in list'
  BY <1>8
<1>10. current' = n
  <2>1. list' \subseteq Nat /\ \A y \in list' : y <= n
    <3>1. \A y \in list' : y \in 1 .. n
      BY <1>2, <1>3, <1>9
    <3> QED BY <1>2, <3>1
  <2> QED BY <1>9, <2>1, MaxIs DEF current
<1>11. Moves(j) /\ pc'[j] = "state" /\ j \in Workers /\ j # Closer /\ j \notin Readers
  BY <1>1, JobIs, GotoMoves DEF IControl, IType
<1>12. /\ \A r \in Readers : pc'[r] = pc[r]
       /\ \A k \in Jobs : k # j => pc'[k] = pc[k]
       /\ pc'[Closer] = pc[Closer]
  BY <1>11, JobIs, ReaderIs, OthersAre DEF Moves
<1>13. Swapping' <=> Swapping
  BY <1>1, <1>11, <1>12 DEF Swapping
<1>14. IRefType'
  <2>1. list' \subseteq 1 .. Len(versions') /\ current' \in list' /\ \A v \in list' : v <= current'
    BY <1>2, <1>3, <1>7, <1>9, <1>10
  <2>2. \A i \in 1 .. Len(states') : states'[i].version \in 1 .. Len(versions')
    BY <1>1, <1>2, <1>7 DEF IRefType
  <2>3. \A r \in Readers : pc'[r] # "idle" => reader'[r].state \in 1 .. Len(states')
    BY <1>1, <1>2, <1>12 DEF IRefType
  <2> QED BY <1>1, <1>2, <1>7, <2>1, <2>2, <2>3 DEF IRefType
<1>15. IStates'
  <2>1. \A i : StateHolders(i)' = StateHolders(i)
    BY <1>1, <1>12, <1>13 DEF StateHolders, DBHolds, Drained
  <2> QED BY <1>1, <1>13, <2>1 DEF IRefs, IStates
<1>16. /\ Holders(c)' = Holders(c) \ {0} /\ Holders(n)' = {0}
       /\ \A v : v # c /\ v # n => Holders(v)' = Holders(v)
  <2>1. \A i : Releasing(i)' <=> Releasing(i)
    BY <1>1, <1>12 DEF Releasing
  <2>2. Holders(n) = {}
    BY <1>2, <1>3, RefsHolders
  <2>3. \A v : v # n => 0 \notin Holders(v)'
    BY <1>10, <1>1, StateFacts, <1>2 DEF Holders
  <2>4. \A v, i : i # 0 => (i \in Holders(v)' <=> i \in Holders(v))
    BY <1>1, <2>1 DEF Holders
  <2>5. 0 \in Holders(n)'
    BY <1>10 DEF Holders
  <2>6. \A v : v # c => 0 \notin Holders(v)
    BY <1>0, <1>2, StateFacts DEF Holders
  <2>7. Holders(c)' = Holders(c) \ {0}
    BY <1>3, <2>3, <2>4
  <2>8. Holders(n)' = {0}
    BY <2>2, <2>4, <2>5
  <2>9. \A v : v # c /\ v # n => Holders(v)' = Holders(v)
    BY <2>3, <2>4, <2>6
  <2> QED BY <2>7, <2>8, <2>9
<1>17. Cardinality(Holders(c)') = versions[c].refs - 1 /\ Cardinality(Holders(n)') = 1
  <2>1. IsFiniteSet(Holders(c)) /\ versions[c].refs = Cardinality(Holders(c))
    BY <1>2, HoldersFinite DEF IRefs, IVersions
  <2>2. Cardinality({0}) = 1
    BY FS_Singleton
  <2> QED BY <1>4, <1>16, <2>1, <2>2, FS_RemoveElement
<1>18. \A r : VersionOf(r)' = VersionOf(r)
  BY <1>1 DEF VersionOf
<1>19. IVersions'
  <2>1. \A v \in 1 .. n : versions'[v].refs = Cardinality(Holders(v)')
    BY <1>0, <1>8, <1>16, <1>17 DEF IRefs, IVersions
  <2>2. ASSUME NEW v \in 1 .. n, versions'[v].refs > 0 PROVE v \in list' /\ ~versions'[v].released
    <3>1. CASE v = n
      BY <1>8, <1>9, <3>1
    <3>2. CASE v = c
      BY <1>2, <1>4, <1>8, <2>2, <3>2
    <3>3. CASE v # n /\ v # c
      BY <1>0, <1>8, <1>9, <2>2, <3>3 DEF IRefs, IVersions
    <3> QED BY <3>1, <3>2, <3>3
  <2>3. ASSUME NEW v \in list', ~versions'[v].released, versions'[v].refs = 0
        PROVE  \E r \in Readers : pc'[r] = "unreffiles" /\ VersionOf(r)' = v
    <3>1. v # n
      BY <1>8, <2>3
    <3>2. v # c
      BY <1>4, <1>8, <2>3
    <3>3. v \in list /\ v \in 1 .. n /\ versions'[v] = versions[v]
      BY <1>2, <1>8, <1>9, <2>3, <3>1, <3>2
    <3>4. PICK r \in Readers : pc[r] = "unreffiles" /\ VersionOf(r) = v
      BY <2>3, <3>3 DEF IRefs, IVersions
    <3> QED BY <1>12, <1>18, <3>4
  <2> QED BY <1>7, <2>1, <2>2, <2>3 DEF IVersions
<1>20. IReaders'
  <2>1. \A r \in Readers : pc'[r] = "unrefversion" => states'[reader'[r].state].refs = 0
    BY <1>1, <1>12 DEF IRefs, IReaders
  <2>2. \A q, r \in Readers :
          pc'[q] = "unrefversion" /\ pc'[r] = "unrefversion" /\ reader'[q].state = reader'[r].state => q = r
    BY <1>1, <1>12 DEF IRefs, IReaders
  <2>3. \A r \in Readers : pc[r] = "unreffiles" => VersionOf(r) # c /\ VersionOf(r) \in list
    BY <1>4 DEF IRefs, IReaders
  <2>4. \A r \in Readers : pc'[r] = "unreffiles" =>
          versions'[VersionOf(r)'].refs = 0 /\ ~versions'[VersionOf(r)'].released /\ VersionOf(r)' \in list'
    BY <1>2, <1>3, <1>8, <1>9, <1>12, <1>18, <2>3, ZenonT(60) DEF IRefs, IReaders
  <2>5. \A q, r \in Readers : pc'[q] = "unreffiles" /\ pc'[r] = "unreffiles" /\ VersionOf(q)' = VersionOf(r)' => q = r
    BY <1>12, <1>18 DEF IRefs, IReaders
  <2>6. \A r \in Readers : pc[r] = "remove" => VersionOf(r) # c /\ VersionOf(r) # n /\ VersionOf(r) \in 1 .. n
    <3>1. \A r \in Readers : pc[r] = "remove" => versions[VersionOf(r)].released
      BY DEF IRefs, IReaders
    <3>2. \A r \in Readers : pc[r] # "idle" => VersionOf(r) \in 1 .. n
      BY <1>2 DEF VersionOf, IRefType
    <3> QED BY <1>3, <1>4, <3>1, <3>2
  <2>7. \A r \in Readers : pc'[r] = "remove" => versions'[VersionOf(r)'].released
    BY <1>8, <1>12, <1>18, <2>6 DEF IRefs, IReaders
  <2> QED BY <2>1, <2>2, <2>4, <2>5, <2>7 DEF IReaders
<1>21. IBuilt'
  <2>1. \A k \in Jobs : pc'[k] \notin Built
    BY <1>1, <1>11, <1>12, JobIs DEF IControl, ILock, Locking, Built
  <2> QED BY <2>1 DEF IBuilt
<1> QED BY <1>14, <1>15, <1>19, <1>20, <1>21 DEF IRefs

-----------------------------------------------------------------------------
(* The DB gives up a read state. *)

LEMMA LockedStates ==
  ASSUME IRefs, NEW i \in 1 .. Len(states), Nobody \in StateHolders(i), UNCHANGED reader,
         SameStates, states'[i].refs = states[i].refs - 1,
         \A k \in 1 .. Len(states) : k # i => states'[k] = states[k],
         \A r \in Readers : pc'[r] = pc[r], ~Swapping',
         \A k \in 1 .. Len(states) : DBHolds(k)' <=> DBHolds(k) /\ k # i
  PROVE  IStates'
<1>1. StateHolders(i)' = StateHolders(i) \ {Nobody}
  BY ReaderIs DEF StateHolders
<1>2. \A k \in 1 .. Len(states) : k # i => StateHolders(k)' = StateHolders(k)
  BY DEF StateHolders
<1>3. IsFiniteSet(StateHolders(i)) /\ states[i].refs = Cardinality(StateHolders(i))
  BY DEF IRefs, IStates
<1>4. IsFiniteSet(StateHolders(i)') /\ states'[i].refs = Cardinality(StateHolders(i)')
  BY <1>1, <1>3, FS_RemoveElement
<1>5. \A k \in 1 .. Len(states) : k # i =>
        IsFiniteSet(StateHolders(k)') /\ states'[k].refs = Cardinality(StateHolders(k)')
  BY <1>2 DEF IRefs, IStates
<1> QED BY <1>4, <1>5 DEF IStates, SameStates

LEMMA UnrefStateLockedRefs ==
  ASSUME IControl, IRefs, NEW i \in 1 .. Len(states), DBHolds(i), UnrefStateLocked(i), UNCHANGED reader,
         \A r \in Readers : pc'[r] = pc[r], ~Swapping',
         Len(states') = Len(states) => \A k \in 1 .. Len(states) : DBHolds(k)' <=> DBHolds(k) /\ k # i,
         SameBuilt, job' \in [Jobs -> JobType] /\ nextFile' \in Nat \ {0}
  PROVE  IRefs' /\ current' = current
<1>0. PICK v, s : v = states[i].version /\ s = UnrefLocked(VersionState, v)
  OBVIOUS
<1>1. /\ states' = [states EXCEPT ![i].refs = states[i].refs - 1]
      /\ states[i].refs = 1 => versions' = s.versions /\ list' = s.list
      /\ states[i].refs # 1 => UNCHANGED <<versions, list>>
  BY <1>0 DEF UnrefStateLocked, SetVersions, listVars
<1>2. /\ IRefType /\ v \in 1 .. Len(versions) /\ current \in 1 .. Len(versions) /\ current \in list
      /\ list \subseteq 1 .. Len(versions) /\ \A k \in list : k <= current
  BY <1>0, StateFacts, VersionFacts DEF IRefs, IRefType
<1>3. Nobody \in StateHolders(i)
  BY DEF StateHolders
<1>4. states[i].refs \in Nat /\ states[i].refs > 0 /\ states[i].refs - 1 \in Int
  BY <1>3, StateRefs
<1>5. /\ states' \in Seq(StateType) /\ SameStates /\ states' # <<>> /\ states'[i].refs = states[i].refs - 1
      /\ \A k \in 1 .. Len(states) : k # i => states'[k] = states[k]
  BY <1>1, <1>2, <1>4, StateUpdate DEF SameStates
<1>6. v \in list /\ ~versions[v].released /\ versions[v].refs > 0 /\ i \in Holders(v) /\ versions[v].refs \in Nat
  BY <1>0, <1>2, <1>4, LiveListed, RefsHolders
<1>7. IsFiniteSet(Holders(v)) /\ versions[v].refs = Cardinality(Holders(v))
  BY <1>2, HoldersFinite DEF IRefs, IVersions
<1>8. IsFiniteSet(Holders(v) \ {i}) /\ Cardinality(Holders(v) \ {i}) = versions[v].refs - 1
  BY <1>6, <1>7, FS_RemoveElement
<1>9. v = current => versions[v].refs > 1
  <2>1. v = current => 0 \in Holders(v) \ {i}
    BY CurrentHeld
  <2>2. v = current => Cardinality(Holders(v) \ {i}) # 0
    BY <1>8, <2>1, FS_EmptySet
  <2> QED BY <1>6, <1>8, <2>2
<1>10. IStates'
  BY <1>3, <1>5, LockedStates DEF SameStates
<1>11. \A k : Releasing(k)' <=> Releasing(k)
  BY DEF Releasing
<1>12. ~Releasing(i)
  BY <1>4 DEF Releasing, IRefs, IReaders
<1>13. \A r \in Readers : pc[r] # "idle" =>
         /\ reader'[r].state \in 1 .. Len(states')
         /\ VersionOf(r)' = VersionOf(r) /\ VersionOf(r) \in 1 .. Len(versions)
  <2>1. \A r \in Readers : pc[r] # "idle" => reader[r].state \in 1 .. Len(states)
    BY <1>2 DEF IRefType
  <2>2. \A r \in Readers : pc[r] # "idle" => VersionOf(r)' = VersionOf(r)
    BY <1>5, <2>1 DEF VersionOf, SameStates
  <2>3. \A r \in Readers : pc[r] # "idle" => VersionOf(r) \in 1 .. Len(versions)
    BY <1>2, <2>1 DEF VersionOf, IRefType
  <2> QED BY <1>5, <2>1, <2>2, <2>3 DEF SameStates
<1>14. \A r \in Readers : pc[r] = "unrefversion" => states'[reader[r].state].refs = 0
  <2>1. \A r \in Readers : pc[r] = "unrefversion" => reader[r].state # i /\ reader[r].state \in 1 .. Len(states)
    BY <1>2, <1>4 DEF IRefs, IReaders, IRefType
  <2> QED BY <1>5, <2>1 DEF IRefs, IReaders
<1>15. CASE states[i].refs # 1
  <2>1. UNCHANGED <<versions, list>> /\ states'[i].refs > 0
    BY <1>1, <1>4, <1>5, <1>15
  <2>2. current' = current
    BY <2>1 DEF current
  <2>3. \A k : Holders(k)' = Holders(k)
    BY <1>2, <1>4, <1>5, <1>11, <2>1, <2>2, SameHolders
  <2>4. IRefType'
    <3>1. \A k \in 1 .. Len(states') : states'[k].version \in 1 .. Len(versions')
      BY <1>2, <1>5, <2>1 DEF IRefType, SameStates
    <3>2. \A r \in Readers : pc'[r] # "idle" => reader'[r].state \in 1 .. Len(states')
      BY <1>13
    <3> QED BY <1>2, <1>5, <2>1, <2>2, <3>1, <3>2 DEF IRefType
  <2>5. IVersions'
    BY <1>13, <2>1, <2>3 DEF IRefs, IVersions
  <2>6. IReaders'
    <3>1. \A q, r \in Readers :
            pc'[q] = "unrefversion" /\ pc'[r] = "unrefversion" /\ reader'[q].state = reader'[r].state => q = r
      BY DEF IRefs, IReaders
    <3>2. \A r \in Readers : pc'[r] = "unreffiles" =>
            versions'[VersionOf(r)'].refs = 0 /\ ~versions'[VersionOf(r)'].released /\ VersionOf(r)' \in list'
      BY <1>13, <2>1 DEF IRefs, IReaders
    <3>3. \A q, r \in Readers : pc'[q] = "unreffiles" /\ pc'[r] = "unreffiles" /\ VersionOf(q)' = VersionOf(r)' => q = r
      BY <1>13 DEF IRefs, IReaders
    <3>4. \A r \in Readers : pc'[r] = "remove" => versions'[VersionOf(r)'].released
      BY <1>13, <2>1 DEF IRefs, IReaders
    <3> QED BY <1>14, <3>1, <3>2, <3>3, <3>4 DEF IReaders
  <2>7. IBuilt'
    BY <2>1 DEF IRefs, IBuilt, SameBuilt
  <2> QED BY <1>10, <2>2, <2>4, <2>5, <2>6, <2>7 DEF IRefs
<1>16. CASE states[i].refs = 1
  <2>1. versions' = s.versions /\ list' = s.list /\ states'[i].refs = 0
    BY <1>1, <1>5, <1>16
  <2>2. /\ versions' \in Seq(VersionType) /\ Len(versions') = Len(versions)
        /\ \A k \in 1 .. Len(versions) : k # v => versions'[k] = versions[k]
        /\ versions'[v].refs = versions[v].refs - 1
        /\ versions[v].refs > 1 => versions'[v].released = versions[v].released /\ list' = list
        /\ ~(versions[v].refs > 1) => versions'[v].released = TRUE /\ list' = list \ {v}
    <3>1. s = UnrefLocked(VersionState, v) /\ IRefType /\ v \in 1 .. Len(versions)
      BY <1>0, <1>2
    <3>2. Unreffed(s, v)
      BY <3>1, UnrefLockedIs
    <3> QED BY <2>1, <3>2 DEF Unreffed
  <2>3. current \in list' /\ list' \subseteq list /\ \A k \in list : k # v => k \in list'
    BY <1>2, <1>9, <2>2
  <2>4. current' = current
    <3>1. list' \subseteq Nat /\ \A k \in list' : k <= current
      BY <1>2, <2>3
    <3> QED BY <2>3, <3>1, MaxIs DEF current
  <2>5. IRefType'
    <3>1. \A k \in 1 .. Len(states') : states'[k].version \in 1 .. Len(versions')
      BY <1>2, <1>5, <2>2 DEF IRefType, SameStates
    <3>2. \A r \in Readers : pc'[r] # "idle" => reader'[r].state \in 1 .. Len(states')
      BY <1>13
    <3>3. reader' \in [Readers -> ReaderType]
      BY <1>2 DEF IRefType
    <3> QED BY <1>2, <1>5, <2>2, <2>3, <2>4, <3>1, <3>2, <3>3 DEF IRefType
  <2>6. /\ Holders(v)' = Holders(v) \ {i}
        /\ \A k : k # v => Holders(k)' = Holders(k)
    <3>1. i \in 1 .. Len(states) /\ i # 0
      BY <1>2, StateFacts
    <3>2. \A k, l : l # i => (l \in Holders(k)' <=> l \in Holders(k))
      BY <1>5, <1>11, <2>4 DEF Holders, SameStates
    <3>3. \A k : i \notin Holders(k)'
      BY <1>11, <1>12, <2>1, <3>1 DEF Holders
    <3>4. \A k : k # v => i \notin Holders(k)
      BY <1>0, <3>1 DEF Holders
    <3>5. Holders(v)' = Holders(v) \ {i}
      BY <3>2, <3>3
    <3>6. ASSUME NEW k, k # v PROVE Holders(k)' = Holders(k)
      <4>1. ASSUME NEW l PROVE l \in Holders(k)' <=> l \in Holders(k)
        <5>1. CASE l = i
          BY <3>3, <3>4, <3>6, <5>1
        <5>2. CASE l # i
          BY <3>2, <5>2
        <5> QED BY <5>1, <5>2
      <4> QED BY <4>1
    <3> QED BY <3>5, <3>6
  <2>7. IVersions'
    <3>1. \A k \in 1 .. Len(versions) : versions'[k].refs = Cardinality(Holders(k)')
      BY <1>8, <2>2, <2>6 DEF IRefs, IVersions
    <3>2. ASSUME NEW k \in 1 .. Len(versions), versions'[k].refs > 0 PROVE k \in list' /\ ~versions'[k].released
      <4>1. CASE k = v
        BY <1>6, <2>2, <3>2, <4>1
      <4>2. CASE k # v
        BY <2>2, <2>3, <3>2, <4>2 DEF IRefs, IVersions
      <4> QED BY <4>1, <4>2
    <3>3. ASSUME NEW k \in list', ~versions'[k].released, versions'[k].refs = 0
          PROVE  \E r \in Readers : pc'[r] = "unreffiles" /\ VersionOf(r)' = k
      <4>1. k # v
        BY <1>6, <2>2, <3>3
      <4>2. k \in list /\ versions'[k] = versions[k]
        BY <1>2, <2>2, <2>3, <3>3, <4>1
      <4>3. PICK r \in Readers : pc[r] = "unreffiles" /\ VersionOf(r) = k
        BY <3>3, <4>2 DEF IRefs, IVersions
      <4> QED BY <1>13, <4>3
    <3> QED BY <2>2, <3>1, <3>2, <3>3 DEF IVersions
  <2>8. IReaders'
    <3>1. \A q, r \in Readers :
            pc'[q] = "unrefversion" /\ pc'[r] = "unrefversion" /\ reader'[q].state = reader'[r].state => q = r
      BY DEF IRefs, IReaders
    <3>2. \A r \in Readers : pc[r] \in {"unreffiles", "remove"} => VersionOf(r) # v
      BY <1>6 DEF IRefs, IReaders
    <3>3. \A r \in Readers : pc'[r] = "unreffiles" =>
            versions'[VersionOf(r)'].refs = 0 /\ ~versions'[VersionOf(r)'].released /\ VersionOf(r)' \in list'
      BY <1>13, <2>2, <2>3, <3>2 DEF IRefs, IReaders
    <3>4. \A q, r \in Readers : pc'[q] = "unreffiles" /\ pc'[r] = "unreffiles" /\ VersionOf(q)' = VersionOf(r)' => q = r
      BY <1>13 DEF IRefs, IReaders
    <3>5. \A r \in Readers : pc'[r] = "remove" => versions'[VersionOf(r)'].released
      BY <1>13, <2>2, <3>2 DEF IRefs, IReaders
    <3> QED BY <1>14, <3>1, <3>3, <3>4, <3>5 DEF IReaders
  <2>9. IBuilt'
    <3>1. ASSUME NEW k \in Jobs, pc'[k] \in Built
          PROVE  /\ job'[k].version = Len(versions') /\ Len(versions') \notin list'
                 /\ versions'[Len(versions')].refs = 0 /\ ~versions'[Len(versions')].released
      <4>1. /\ job'[k].version = Len(versions) /\ Len(versions) \notin list
            /\ versions[Len(versions)].refs = 0 /\ ~versions[Len(versions)].released
        BY <3>1 DEF IRefs, IBuilt, SameBuilt
      <4>2. Len(versions) # v /\ Len(versions) \in 1 .. Len(versions)
        BY <1>2, <1>6, <4>1, VersionFacts
      <4> QED BY <2>2, <2>3, <4>1, <4>2
    <3> QED BY <3>1 DEF IBuilt
  <2> QED BY <1>10, <2>4, <2>5, <2>7, <2>8, <2>9 DEF IRefs
<1> QED BY <1>15, <1>16

LEMMA UnrefOldRefs ==
  ASSUME IControl, IRefs, NEW j \in Jobs, UnrefOld(j), job' \in [Jobs -> JobType] /\ nextFile' \in Nat \ {0}
  PROVE  IRefs' /\ current' = current
<1>0. PICK n : n = Len(states)
  OBVIOUS
<1>1. /\ pc[j] = "unrefold" /\ mu = j /\ UnrefStateLocked(n - 1) /\ UNCHANGED reader
      /\ Finish(j) \/ (Goto(j, "clean") /\ UNCHANGED job)
  BY <1>0 DEF UnrefOld
<1>2. Swapping /\ n \in Nat /\ n - 1 \in 1 .. Len(states)
  <2>1. Swapping
    BY <1>1 DEF Swapping
  <2>2. n \in Nat /\ n > 1
    BY <1>0, <2>1, StateFacts DEF IRefs, IStates
  <2> QED BY <1>0, <2>1, <2>2
<1>3. Moves(j) /\ pc'[j] \in {"idle", "clean"} /\ j \in Workers /\ j # Closer
  BY <1>1, JobIs, FinishWithin, GotoMoves DEF IControl, IType
<1>4. /\ \A r \in Readers : pc'[r] = pc[r]
      /\ \A k \in Jobs : k # j => pc'[k] = pc[k] /\ pc[k] # "unrefold"
      /\ pc'[Closer] = pc[Closer]
  <2>1. \A k \in Jobs : k # j => pc[k] # "unrefold"
    BY <1>1, JobIs DEF IControl, IMutex, Holding
  <2> QED BY <1>3, <2>1, JobIs, ReaderIs, OthersAre DEF Moves
<1>5. ~Swapping'
  BY <1>3, <1>4 DEF Swapping
<1>6. DBHolds(n - 1)
  BY <1>0, <1>2 DEF DBHolds
<1>7. Len(states') = Len(states) => \A k \in 1 .. Len(states) : DBHolds(k)' <=> DBHolds(k) /\ k # n - 1
  <2>1. Drained' <=> Drained
    BY <1>4 DEF Drained
  <2> QED BY <1>0, <1>2, <1>5, <2>1 DEF DBHolds
<1>8. SameBuilt
  <2>1. \A k \in Jobs : k # j => job'[k] = job[k]
    BY <1>1 DEF Finish
  <2> QED BY <1>3, <1>4, <2>1 DEF SameBuilt, Built
<1> QED BY <1>1, <1>2, <1>4, <1>5, <1>6, <1>7, <1>8, UnrefStateLockedRefs

LEMMA CloseStateRefs ==
  ASSUME IControl, IRefs, CloseState, job' \in [Jobs -> JobType] /\ nextFile' \in Nat \ {0}
  PROVE  IRefs' /\ current' = current
<1>0. PICK n : n = Len(states)
  OBVIOUS
<1>1. /\ pc[Closer] = "wait" /\ UnrefStateLocked(n) /\ UNCHANGED <<reader, job>>
      /\ \A j \in Jobs : pc[j] \in {"idle", "pick"}
      /\ \E s \in {"drain", "leaked"} : Goto(Closer, s)
  BY <1>0 DEF CloseState, closeRest
<1>2. n \in 1 .. Len(states)
  BY <1>0, StateFacts DEF IRefs
<1>3. Moves(Closer) /\ pc'[Closer] \in {"drain", "leaked"}
  BY <1>1, OthersAre, GotoMoves DEF IControl, IType
<1>4. /\ \A r \in Readers : pc'[r] = pc[r]
      /\ \A k \in Jobs : pc'[k] = pc[k]
  BY <1>3, JobIs, ReaderIs, OthersAre DEF Moves
<1>5. ~Swapping' /\ ~Swapping /\ Drained' /\ ~Drained
  BY <1>1, <1>3, <1>4 DEF Swapping, Drained
<1>6. DBHolds(n)
  BY <1>0, <1>5 DEF DBHolds
<1>7. Len(states') = Len(states) => \A k \in 1 .. Len(states) : DBHolds(k)' <=> DBHolds(k) /\ k # n
  BY <1>0, <1>5 DEF DBHolds
<1>8. SameBuilt
  BY <1>1, <1>4 DEF SameBuilt
<1> QED BY <1>1, <1>2, <1>4, <1>5, <1>6, <1>7, <1>8, UnrefStateLockedRefs

-----------------------------------------------------------------------------
(* The second invariant holds. *)

LEMMA InitRefs ==
  ASSUME Init
  PROVE  IRefs
<1>1. /\ pc = [w \in Workers \union Readers |-> "idle"] /\ list = {1}
      /\ versions = <<[tables |-> LiveTables, refs |-> 2, released |-> FALSE]>>
      /\ states = <<[version |-> 1, refs |-> 1]>>
      /\ job = [j \in Jobs |-> NoJob] /\ reader = [r \in Readers |-> NoReader] /\ nextFile = FirstManifest + 1
  BY DEF Init
<1>2. \A w \in Workers \union Readers : pc[w] = "idle"
  BY <1>1
<1>3. ~Drained /\ ~Swapping /\ \A i : ~Releasing(i)
  BY <1>2, OthersAre, JobIs, ReaderIs DEF Drained, Swapping, Releasing
<1>4. current = 1
  BY <1>1, MaxIs DEF current
<1>5. versions[1].refs = 2 /\ versions[1].released = FALSE /\ versions[1].tables = LiveTables /\ Len(versions) = 1
  BY <1>1
<1>6. states[1].version = 1 /\ states[1].refs = 1 /\ Len(states) = 1 /\ states # <<>>
  BY <1>1
<1>7. IRefType
  <2>1. versions \in Seq(VersionType)
    <3>1. LiveTables \subseteq Nat
      BY FilesAssumption
    <3>2. [tables |-> LiveTables, refs |-> 2, released |-> FALSE] \in VersionType
      BY <3>1 DEF VersionType
    <3> QED BY <1>1, <3>2
  <2>2. states \in Seq(StateType)
    <3>1. [version |-> 1, refs |-> 1] \in StateType
      BY DEF StateType
    <3> QED BY <1>1, <3>1
  <2>3. reader \in [Readers -> ReaderType]
    BY <1>1 DEF NoReader, ReaderType
  <2>4. job \in [Jobs -> JobType] /\ nextFile \in Nat \ {0}
    BY <1>1, NoJobType, FilesAssumption
  <2>5. list \subseteq 1 .. Len(versions) /\ current \in list /\ \A v \in list : v <= current
    BY <1>1, <1>4, <1>5
  <2>6. \A i \in 1 .. Len(states) : states[i].version \in 1 .. Len(versions)
    BY <1>5, <1>6
  <2> QED BY <1>2, <1>6, <2>1, <2>2, <2>3, <2>4, <2>5, <2>6, ReaderIs DEF IRefType
<1>8. IStates
  <2>1. StateHolders(1) = {Nobody}
    BY <1>2, <1>3, <1>6, ReaderIs DEF StateHolders, DBHolds
  <2>2. IsFiniteSet({Nobody}) /\ Cardinality({Nobody}) = 1
    BY FS_Singleton
  <2>3. \A i \in 1 .. Len(states) : i = 1
    BY <1>6
  <2> QED BY <1>3, <1>6, <2>1, <2>2, <2>3 DEF IStates
<1>9. IVersions
  <2>1. Holders(1) = {0} \union {1}
    BY <1>4, <1>6 DEF Holders
  <2>2. IsFiniteSet({0}) /\ Cardinality({0}) = 1
    BY FS_Singleton
  <2>3. Cardinality({0} \union {1}) = 2
    BY <2>2, FS_AddElement
  <2>4. \A v \in 1 .. Len(versions) : v = 1
    BY <1>5
  <2> QED BY <1>1, <1>5, <2>1, <2>3, <2>4, SMTT(40) DEF IVersions
<1>10. IReaders
  BY <1>2, ReaderIs DEF IReaders
<1>11. IBuilt
  BY <1>2, JobIs DEF IBuilt, Built
<1> QED BY <1>7, <1>8, <1>9, <1>10, <1>11 DEF IRefs

LEMMA NextRefs ==
  ASSUME IControl, IRefs, [Next]_vars
  PROVE  IRefs'
<1>0. job' \in [Jobs -> JobType] /\ nextFile' \in Nat \ {0}
  BY NextJobType
<1>1. CASE UNCHANGED vars
  <2>1. UNCHANGED <<pc, versions, list, states, reader, job>>
    BY <1>1 DEF vars, listVars
  <2> QED BY <1>0, <2>1, SameRefs DEF Drained, Swapping, SameBuilt
<1>2. ASSUME NEW j \in Jobs, JobStep(j) PROVE IRefs'
  <2>1. CASE \E replace \in BOOLEAN : Edit(j, replace)
    BY <1>0, <2>1, EditRefs
  <2>2. CASE Install(j)
    BY <1>0, <2>2, InstallRefs
  <2>3. CASE SwapState(j)
    BY <1>0, <2>3, SwapStateRefs
  <2>4. CASE UnrefOld(j)
    BY <1>0, <2>4, UnrefOldRefs
  <2> QED BY <1>0, <1>2, <2>1, <2>2, <2>3, <2>4, QuietJobRefs
<1>3. ASSUME NEW j \in Jobs, NEW kind \in {"flush", "compaction", "ingest", "rotation"}, Begin(j, kind)
      PROVE  IRefs'
  BY <1>0, <1>3, BeginRefs
<1>4. ASSUME NEW w \in Workers, CleaningStep(w) PROVE IRefs'
  BY <1>0, <1>4, CleaningRefs
<1>5. ASSUME NEW r \in Readers, Load(r) \/ UnrefState(r) \/ UnrefStep(r) PROVE IRefs'
  BY <1>0, <1>5, LoadRefs, UnrefStateRefs, UnrefVersionRefs, UnrefFilesRefs, RemoveVersionRefs, ScheduleRefs
     DEF UnrefStep
<1>6. ASSUME NEW c \in Checkpoints, CheckpointStep(c) \/ Disable(c) PROVE IRefs'
  BY <1>0, <1>6, CheckpointRefs
<1>7. CASE BeginClose \/ CloseStep
  BY <1>0, <1>7, OtherRefs, CloseStateRefs DEF CloseStep
<1>8. CASE PacedDelete \/ CleanerStart
  BY <1>0, <1>8, OtherRefs
<1>9. CASE Terminated
  BY <1>1, <1>9 DEF Terminated
<1> QED BY <1>1, <1>2, <1>3, <1>4, <1>5, <1>6, <1>7, <1>8, <1>9 DEF Next

(* In every state the counts of read_state.go and version.go are exact: states[i].refs is the number of its *)
(* holders, versions[v].refs that of the states and of the list that refer to v, a version with a reference *)
(* is in the list and keeps its tables, and whoever takes the last reference is alone to release it.        *)
THEOREM RefsInvariant == Spec => []IRefs
<1>1. Init => IRefs
  BY InitRefs
<1>2. IControl /\ IRefs /\ [Next]_vars => IRefs'
  BY NextRefs
<1> QED BY <1>1, <1>2, ControlInvariant, PTL DEF Spec
=============================================================================
