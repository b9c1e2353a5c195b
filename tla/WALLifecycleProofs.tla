------------------------- MODULE WALLifecycleProofs -------------------------
(***************************************************************************)
(* What recovery may rely on, proved for any sizes, any thresholds and any  *)
(* number of logs, batches, crashes and failures: acknowledged commits      *)
(* survive, Open finds a prefix of the commits, a log that is still needed  *)
(* stays, and no number is given twice.                                     *)
(*                                                                          *)
(* The inductive invariant IInv relates four places a batch can be in: the  *)
(* history of the callers, the tables of the MANIFEST, the logs at or above *)
(* the MANIFEST's minimum (the kept logs) and the queue of memtables.       *)
(***************************************************************************)
EXTENDS WALLifecycle, SequenceTheorems, WellFoundedInduction, TLAPS

USE SizeAssumption, BoundAssumption

-----------------------------------------------------------------------------
(* The inductive invariant.                                                *)

SeqNums == 1 .. MaxSeqNum

EntryType ==
  [kind : {"memtable", "batch"}, logNum : 0 .. MaxLogNum, base : Nat, size : Nat,
   seqNums : SUBSET SeqNums, refs : SUBSET SeqNums, forced : BOOLEAN]

BatchType == [seqNum : 0 .. MaxSeqNum, size : Nat, sync : BOOLEAN]

ManifestType == [min : 0 .. MaxLogNum, next : Nat, last : 0 .. MaxSeqNum, tables : SUBSET SeqNums]

RecyclerType == [logNums : Seq(LogNums), maxLogNum : Nat, minRecycle : Nat]

RotType ==
  [pc : {"idle", "room", "close", "create", "dirsync", "install"}, batch : BatchType,
   new : 0 .. MaxLogNum, old : Nat]

FlushType ==
  [pc : {"idle", "start", "run", "log", "write", "install", "delete"}, n : Nat,
   min : 0 .. MaxLogNum, next : Nat, last : 0 .. MaxSeqNum, delete : Seq(LogNums)]

DiskType ==
  /\ names \subseteq LogNums /\ linked \subseteq LogNums
  /\ closed \subseteq LogNums /\ torn \subseteq LogNums
  /\ log \in [LogNums -> Seq(SeqNums)] /\ durable \in [LogNums -> Nat]
  /\ manifest \in ManifestType /\ strict \in BOOLEAN

MemType ==
  /\ logSeqNum \in 1 .. MaxSeqNum + 1 /\ nextFile \in 1 .. MaxLogNum + 1 /\ minLog \in 0 .. MaxLogNum
  /\ queue \in Seq(EntryType) /\ nextSize \in Nat /\ logQueue \in Seq(LogNums)
  /\ recycler \in RecyclerType

RunType ==
  /\ status \in {"down", "failed", "replayed", "created", "linked", "logged", "up", "closing"}
  /\ rot \in RotType /\ flush \in FlushType /\ replayed \subseteq SeqNums

CallerType ==
  /\ history \in Seq(SeqNums) /\ waiting \subseteq SeqNums /\ acked \subseteq SeqNums
  /\ crashes \in Nat /\ flushErrors \in Nat

IType == DiskType /\ MemType /\ RunType /\ CallerType

(* Open has created a log; it serves reads and writes; the process runs. *)
Opened  == status \in {"created", "linked", "logged", "up", "closing"}
Serving == status \in {"logged", "up", "closing"}
Running == status \notin {"down", "failed"}

(* The rotation has a new log number. *)
Rotating == rot.pc \in {"close", "create", "dirsync", "install"}

(* The batch in makeRoomForWrite is a large one, and is logged already. *)
Large == rot.batch.seqNum > 0 /\ rot.batch.size > 0

(* The sequence number the next batch of a memtable has. *)
Pending == IF rot.batch.seqNum > 0 THEN rot.batch.seqNum ELSE logSeqNum

(* The control states of the committer, the flush and Open. *)
IPhase ==
  /\ rot.pc = "idle" => rot = Idle
  /\ rot.pc # "idle" => status = "up"
  /\ flush.pc # "idle" => status \in {"up", "closing"}
  /\ IF Running THEN queue # <<>> ELSE queue = <<>>
  /\ Opened => logQueue # <<>>
  /\ Running /\ status \notin {"up", "closing"} => Len(queue) = 1 /\ queue[1].seqNums = {}
  /\ rot.batch.seqNum > 0 => rot.batch.seqNum + 1 = logSeqNum
  /\ rot.batch.seqNum = 0 => rot.batch.size = 0
  /\ Rotating => rot.new + 1 = nextFile
  /\ status \in {"replayed", "closing"} => nextFile <= MaxLogNum

(* Above every file number in use. *)
Top == IF Running THEN nextFile ELSE MaxLogNum

(* The numbers of the logs. *)
INumbers ==
  /\ \A l \in names \union linked : l < Top
  /\ manifest.min < Top /\ manifest.next <= Top
  /\ flush.pc = "write" => flush.next <= Top
  /\ rot.pc \in {"close", "create"} => \A l \in names \union linked : l < rot.new
  /\ Opened => manifest.min <= Current /\ Current < nextFile
  /\ Rotating => Current < rot.new
  /\ status \in {"created", "linked"} => Current + 1 = nextFile /\ manifest.min < Current
  /\ status = "logged" => manifest.min = Current
  /\ status \in {"up", "closing"} => manifest.min = IF flush.pc = "install" THEN flush.min ELSE minLog
  /\ \A l \in ToSet(recycler.logNums) \union ToSet(flush.delete) : l < manifest.min

(* A log with batches that are not in tables is in the directory, durably so. *)
INames ==
  /\ \A l \in linked : l \in names \/ l < manifest.min
  /\ status = "created" => Current \in names
  /\ status \in {"linked", "logged", "up", "closing"} => Current \in names \intersect linked
  /\ rot.pc = "dirsync" => rot.new \in names
  /\ rot.pc = "install" => rot.new \in names \intersect linked
  /\ \A l \in LogNums : log[l] # <<>> => l < manifest.min \/ l \in names \intersect linked

(* The logs Open would replay. *)
Kept == {l \in LogNums : l >= manifest.min}

(* The kept logs hold the batches in order, and only the last one that is not empty may be unsynced. *)
ILogs ==
  /\ \A l \in LogNums : durable[l] <= Len(log[l])
  /\ \A l \in Kept : \A i, j \in DOMAIN log[l] : i < j => log[l][i] < log[l][j]
  /\ \A l, k \in Kept : l < k => \A s \in ToSet(log[l]), t \in ToSet(log[k]) : s < t
  /\ \A l, k \in Kept : l < k /\ log[k] # <<>> => durable[l] = Len(log[l])
  /\ status \in {"up", "closing"} => \A l \in Kept : l < Current => durable[l] = Len(log[l])
  /\ rot.pc \in {"create", "dirsync", "install"} => durable[Current] = Len(log[Current])
  /\ Opened => \A l \in LogNums : l > Current => log[l] = <<>>
  /\ status \in {"created", "linked", "logged"} => log[Current] = <<>>

(* The batches Open would find in logs. *)
Logged == UNION {ToSet(log[l]) : l \in Kept}

(* What is in tables is a prefix of the history, and so is what Open would find. *)
IHistory ==
  /\ \A i, j \in DOMAIN history : i < j => history[i] < history[j]
  /\ manifest.tables \subseteq ToSet(history) /\ Logged \subseteq ToSet(history)
  /\ \A s \in ToSet(history), t \in manifest.tables : s < t => s \in manifest.tables
  /\ \A s \in ToSet(history), t \in Logged : s < t => s \in manifest.tables \union Logged
  /\ \A s \in manifest.tables : s <= manifest.last
  /\ Serving => \A s \in ToSet(history) : s < Pending \/ (Large /\ s = rot.batch.seqNum)
  /\ status \in {"replayed", "created", "linked"} =>
       /\ replayed = Logged /\ manifest.last < logSeqNum
       /\ \A s \in Logged : s < logSeqNum

(* The log of the batches of entry i: a memtable before a large batch shares the batch's log. *)
LogOf(i) == IF queue[i].logNum > 0 THEN queue[i].logNum ELSE queue[i + 1].logNum

(* Entries a flush has put into tables, and that are still in the queue. *)
Flushed(i) == flush.pc = "install" /\ i <= flush.n

(* The queue is in the order of the sequence numbers. *)
IOrder ==
  /\ \A i \in DOMAIN queue : \A s \in queue[i].seqNums : queue[i].base <= s /\ s < Pending
  /\ queue # <<>> => queue[Len(queue)].base <= Pending
  /\ \A i, j \in DOMAIN queue : i < j =>
       \A s \in queue[i].seqNums, t \in queue[j].seqNums : s < t

(* The entries of the queue are in kept logs or in tables. *)
IQueue ==
  /\ Opened => queue[Len(queue)].logNum = Current
  /\ Opened => \A i \in DOMAIN queue :
       queue[i].logNum = 0 => i + 1 < Len(queue) /\ queue[i + 1].logNum > 0
  /\ \A i, j \in DOMAIN queue : i < j /\ queue[i].logNum > 0 /\ queue[j].logNum > 0 =>
       queue[i].logNum < queue[j].logNum
  /\ Opened => \A i \in DOMAIN queue :
       IF Flushed(i) THEN queue[i].seqNums \subseteq manifest.tables
       ELSE LogOf(i) >= manifest.min /\ queue[i].seqNums \subseteq ToSet(log[LogOf(i)])
  /\ Large => rot.batch.seqNum \in ToSet(log[Current])

(* Every commit is in a table, in the queue or in makeRoomForWrite, and a kept log has nothing else. *)
ICovered ==
  /\ Serving => \A s \in ToSet(history) :
       \/ s \in manifest.tables
       \/ \E i \in DOMAIN queue : s \in queue[i].seqNums
       \/ Large /\ s = rot.batch.seqNum
  /\ Serving => \A l \in Kept : \A s \in ToSet(log[l]) :
       \/ s \in manifest.tables
       \/ \E i \in DOMAIN queue : s \in queue[i].seqNums /\ LogOf(i) = l
       \/ Large /\ s = rot.batch.seqNum /\ l = Current

(* A flush leaves entries that are logged at or above its minimum. *)
IFlush ==
  /\ flush.pc \in {"run", "log", "write", "install"} =>
       /\ flush.n > 0 /\ flush.n < Len(queue)
       /\ flush.min > 0 /\ minLog <= flush.min /\ flush.min <= Current
       /\ \A i \in DOMAIN queue : i > flush.n /\ queue[i].logNum > 0 => queue[i].logNum >= flush.min
  /\ flush.pc = "write" =>
       /\ \A s \in manifest.tables : s <= flush.last
       /\ \A i \in 1 .. flush.n : \A s \in queue[i].seqNums : s <= flush.last

(* The synced batches of the kept logs. *)
IAcked ==
  \A s \in acked :
    s \in manifest.tables \/ \E l \in Kept : \E j \in 1 .. durable[l] : log[l][j] = s

IInv ==
  /\ IType /\ IPhase /\ INumbers /\ INames /\ ILogs /\ IHistory
  /\ IOrder /\ IQueue /\ ICovered /\ IFlush /\ IAcked

-----------------------------------------------------------------------------
(* The operators of the community modules that the model uses.             *)

(* A set of natural numbers has a least element. *)
LEMMA LeastNat ==
  ASSUME NEW S, S \subseteq Nat, S # {}
  PROVE  \E x \in S : \A y \in S : x <= y
<1>1. \E x \in S : \A y \in S : ~ (<<y, x>> \in OpToRel(<, Nat))
  BY NatLessThanWellFounded, WFMin
<1>2. PICK x \in S : \A y \in S : ~ (<<y, x>> \in OpToRel(<, Nat))
  BY <1>1
<1>3. ASSUME NEW y \in S PROVE x <= y
  <2>1. x \in Nat /\ y \in Nat /\ ~ (<<y, x>> \in OpToRel(<, Nat))
    BY <1>2
  <2>2. ~ (y < x)
    BY <2>1 DEF OpToRel
  <2>3. x \in Nat /\ y \in Nat
    OBVIOUS
  <2> QED BY <2>2, <2>3
<1> QED BY <1>3

LEMMA MinNat ==
  ASSUME NEW S, S \subseteq Nat, S # {}
  PROVE  Min(S) \in S /\ \A y \in S : Min(S) <= y
<1>1. \E x \in S : \A y \in S : x =< y
  BY LeastNat
<1> QED BY <1>1 DEF Min

(* A bounded set of natural numbers has a greatest element. *)
LEMMA MaxNat ==
  ASSUME NEW S, S \subseteq Nat, S # {}, NEW n \in Nat, \A x \in S : x <= n
  PROVE  Max(S) \in S /\ \A y \in S : y <= Max(S)
<1> DEFINE T == {k \in Nat : \A x \in S : x <= k}
<1>1. PICK m \in T : \A k \in T : m <= k
  <2>1. T \subseteq Nat /\ n \in T
    OBVIOUS
  <2> HIDE DEF T
  <2> QED BY <2>1, LeastNat
<1>2. m \in S
  <2> SUFFICES ASSUME m \notin S PROVE FALSE
    OBVIOUS
  <2>1. \A x \in S : x < m
    BY <1>1
  <2>2. m - 1 \in T
    <3>1. PICK x \in S : TRUE
      OBVIOUS
    <3>2. m \in Nat /\ x \in Nat /\ x < m
      BY <1>1, <2>1
    <3>3. m - 1 \in Nat /\ \A y \in S : y <= m - 1
      BY <2>1, <3>2
    <3> QED BY <3>3
  <2> QED BY <1>1, <2>2
<1>3. \E x \in S : \A y \in S : x >= y
  BY <1>1, <1>2
<1> QED BY <1>3 DEF Max

LEMMA ToSetEmpty == ToSet(<<>>) = {}
  BY DEF ToSet

LEMMA ToSetMember ==
  ASSUME NEW S, NEW q \in Seq(S)
  PROVE  /\ \A x : x \in ToSet(q) <=> \E i \in 1 .. Len(q) : q[i] = x
         /\ \A i \in 1 .. Len(q) : q[i] \in ToSet(q) /\ q[i] \in S
         /\ ToSet(q) \subseteq S
         /\ Len(q) \in Nat /\ DOMAIN q = 1 .. Len(q)
  BY LenProperties, ElementOfSeq DEF ToSet

LEMMA ToSetAppend ==
  ASSUME NEW S, NEW q \in Seq(S), NEW e \in S
  PROVE  /\ ToSet(Append(q, e)) = ToSet(q) \union {e}
         /\ Append(q, e) \in Seq(S)
<1> DEFINE a == Append(q, e)
<1>1. /\ a \in Seq(S) /\ Len(a) = Len(q) + 1 /\ a[Len(q) + 1] = e
      /\ \A i \in 1 .. Len(q) : a[i] = q[i]
  BY AppendProperties
<1> HIDE DEF a
<1>2. \A x : x \in ToSet(a) <=> \E i \in 1 .. Len(a) : a[i] = x
  BY <1>1, ToSetMember
<1>3. \A x : x \in ToSet(q) <=> \E i \in 1 .. Len(q) : q[i] = x
  BY ToSetMember
<1>4. Len(q) \in Nat
  BY LenProperties
<1>5. ToSet(a) = ToSet(q) \union {e}
  BY <1>1, <1>2, <1>3, <1>4
<1> QED BY <1>1, <1>5 DEF a

LEMMA ToSetSubSeq ==
  ASSUME NEW S, NEW q \in Seq(S), NEW m \in 1 .. Len(q) + 1, NEW n \in 0 .. Len(q)
  PROVE  /\ SubSeq(q, m, n) \in Seq(S)
         /\ Len(SubSeq(q, m, n)) = IF m <= n THEN n - m + 1 ELSE 0
         /\ \A i \in 1 .. n - m + 1 : SubSeq(q, m, n)[i] = q[m + i - 1]
         /\ \A x : x \in ToSet(SubSeq(q, m, n)) <=> \E i \in m .. n : q[i] = x
<1> DEFINE a == SubSeq(q, m, n)
<1>1. Len(q) \in Nat /\ \A i \in 1 .. Len(q) : q[i] \in S
  BY LenProperties, ElementOfSeq
<1>2. /\ a \in Seq(S)
      /\ Len(a) = IF m <= n THEN n - m + 1 ELSE 0
      /\ \A i \in 1 .. n - m + 1 : a[i] = q[m + i - 1]
  <2>1. m \in Int /\ n \in Int /\ \A i \in m .. n : q[i] \in S
    BY <1>1
  <2> QED BY <2>1, SubSeqProperties
<1> HIDE DEF a
<1>3. \A x : x \in ToSet(a) <=> \E i \in 1 .. Len(a) : a[i] = x
  BY <1>2, ToSetMember
<1>4. ASSUME NEW x, x \in ToSet(a) PROVE \E i \in m .. n : q[i] = x
  <2>1. PICK i \in 1 .. Len(a) : a[i] = x
    BY <1>3, <1>4
  <2>2. m + i - 1 \in m .. n /\ q[m + i - 1] = x
    BY <2>1, <1>2, <1>1
  <2> QED BY <2>2
<1>5. ASSUME NEW i \in m .. n PROVE q[i] \in ToSet(a)
  <2>1. i - m + 1 \in 1 .. Len(a) /\ a[i - m + 1] = q[m + (i - m + 1) - 1]
    BY <1>1, <1>2
  <2>2. m + (i - m + 1) - 1 = i
    BY <1>1
  <2> QED BY <2>1, <2>2, <1>3
<1> QED BY <1>2, <1>4, <1>5 DEF a

LEMMA ToSetTail ==
  ASSUME NEW S, NEW q \in Seq(S), q # <<>>
  PROVE  /\ Tail(q) \in Seq(S) /\ ToSet(Tail(q)) \subseteq ToSet(q)
         /\ Head(q) \in ToSet(q) /\ Head(q) \in S
<1>1. Len(q) \in Nat \ {0} /\ Head(q) = q[1]
  BY EmptySeq
<1>2. /\ Tail(q) \in Seq(S) /\ Len(Tail(q)) = Len(q) - 1
      /\ \A i \in 1 .. Len(Tail(q)) : Tail(q)[i] = q[i + 1]
  BY HeadTailProperties
<1>3. \A x : x \in ToSet(q) <=> \E i \in 1 .. Len(q) : q[i] = x
  BY ToSetMember
<1>4. \A x : x \in ToSet(Tail(q)) <=> \E i \in 1 .. Len(Tail(q)) : Tail(q)[i] = x
  <2> DEFINE t == Tail(q)
  <2>1. t \in Seq(S)
    BY <1>2
  <2> HIDE DEF t
  <2>2. \A x : x \in ToSet(t) <=> \E i \in 1 .. Len(t) : t[i] = x
    BY <2>1, ToSetMember
  <2> QED BY <2>2 DEF t
<1>5. ToSet(Tail(q)) \subseteq ToSet(q)
  BY <1>1, <1>2, <1>3, <1>4
<1>6. Head(q) \in ToSet(q)
  BY <1>1, <1>3
<1>7. Head(q) \in S
  BY HeadTailProperties
<1> QED BY <1>2, <1>5, <1>6, <1>7

LEMMA LastOf ==
  ASSUME NEW S, NEW q \in Seq(S), q # <<>>
  PROVE  /\ Len(q) \in Nat \ {0} /\ Last(q) = q[Len(q)] /\ Last(q) \in S
         /\ Last(q) \in ToSet(q)
<1>1. Len(q) \in Nat \ {0}
  BY EmptySeq
<1>2. q[Len(q)] \in S
  BY <1>1, ElementOfSeq
<1> QED BY <1>1, <1>2, ToSetMember DEF Last

LEMMA LastAppend ==
  ASSUME NEW S, NEW q \in Seq(S), NEW e \in S
  PROVE  Last(Append(q, e)) = e /\ Append(q, e) # <<>>
  BY AppendProperties, LenProperties DEF Last

-----------------------------------------------------------------------------
(* What the types say about the parts of the state.                        *)

LEMMA LogTypes ==
  ASSUME IType
  PROVE  /\ \A l \in LogNums :
              /\ log[l] \in Seq(SeqNums) /\ Len(log[l]) \in Nat /\ DOMAIN log[l] = 1 .. Len(log[l])
              /\ durable[l] \in Nat /\ l \in Nat
              /\ \A i \in 1 .. Len(log[l]) : log[l][i] \in SeqNums /\ log[l][i] \in ToSet(log[l])
              /\ \A x : x \in ToSet(log[l]) <=> \E i \in 1 .. Len(log[l]) : log[l][i] = x
              /\ ToSet(log[l]) \subseteq SeqNums
              /\ log[l] = <<>> => ToSet(log[l]) = {} /\ Len(log[l]) = 0
         /\ DOMAIN log = LogNums /\ DOMAIN durable = LogNums
<1>1. ASSUME NEW l \in LogNums PROVE log[l] \in Seq(SeqNums) /\ durable[l] \in Nat /\ l \in Nat
  <2>1. log \in [LogNums -> Seq(SeqNums)] /\ durable \in [LogNums -> Nat]
    BY DEF IType, DiskType, MemType, RunType, ManifestType, RecyclerType, RotType, FlushType
  <2> QED BY <2>1 DEF LogNums
<1>2. DOMAIN log = LogNums /\ DOMAIN durable = LogNums
  BY DEF IType, DiskType, MemType, RunType, ManifestType, RecyclerType, RotType, FlushType
<1>3. ASSUME NEW l \in LogNums PROVE log[l] = <<>> => ToSet(log[l]) = {} /\ Len(log[l]) = 0
  BY <1>1, ToSetEmpty, EmptySeq
<1> HIDE DEF LogNums, SeqNums
<1> QED BY <1>1, <1>2, <1>3, ToSetMember

LEMMA QueueTypes ==
  ASSUME IType
  PROVE  /\ Len(queue) \in Nat /\ DOMAIN queue = 1 .. Len(queue)
         /\ \A i \in 1 .. Len(queue) :
              /\ queue[i] \in EntryType /\ queue[i].logNum \in 0 .. MaxLogNum /\ queue[i].base \in Nat
              /\ queue[i].seqNums \subseteq SeqNums /\ queue[i].refs \subseteq SeqNums
              /\ queue[i].size \in Nat
         /\ queue # <<>> => Len(queue) > 0 /\ Last(queue) = queue[Len(queue)]
<1>1. queue \in Seq(EntryType)
  BY DEF IType, DiskType, MemType, RunType, ManifestType, RecyclerType, RotType, FlushType
<1>2. /\ Len(queue) \in Nat /\ DOMAIN queue = 1 .. Len(queue)
      /\ \A i \in 1 .. Len(queue) : queue[i] \in EntryType
      /\ queue # <<>> => Len(queue) > 0 /\ Last(queue) = queue[Len(queue)]
  <2> HIDE DEF EntryType
  <2>1. queue # <<>> => Len(queue) > 0 /\ Last(queue) = queue[Len(queue)]
    BY <1>1, LastOf
  <2> QED BY <1>1, <2>1, ToSetMember
<1>3. \A e \in EntryType : e.logNum \in 0 .. MaxLogNum /\ e.base \in Nat
        /\ e.seqNums \subseteq SeqNums /\ e.refs \subseteq SeqNums /\ e.size \in Nat
  BY DEF EntryType
<1> HIDE DEF EntryType
<1> QED BY <1>2, <1>3

LEMMA CurrentType ==
  ASSUME IType, logQueue # <<>>
  PROVE  Current \in LogNums /\ Current \in Nat /\ Len(logQueue) > 0 /\ Current = logQueue[Len(logQueue)]
<1>1. logQueue \in Seq(LogNums)
  BY DEF IType, DiskType, MemType, RunType, ManifestType, RecyclerType, RotType, FlushType
<1> HIDE DEF LogNums
<1>2. Current \in LogNums /\ Len(logQueue) > 0 /\ Current = logQueue[Len(logQueue)]
  BY <1>1, LastOf DEF Current
<1> QED BY <1>2 DEF LogNums

LEMMA RecordTypes ==
  ASSUME IType
  PROVE  /\ manifest.min \in 0 .. MaxLogNum /\ manifest.next \in Nat /\ manifest.last \in 0 .. MaxSeqNum
         /\ manifest.tables \subseteq SeqNums
         /\ rot.new \in 0 .. MaxLogNum /\ rot.batch.seqNum \in 0 .. MaxSeqNum /\ rot.batch.size \in Nat
         /\ rot.batch.sync \in BOOLEAN /\ rot.old \in Nat
         /\ rot.pc \in {"idle", "room", "close", "create", "dirsync", "install"}
         /\ flush.pc \in {"idle", "start", "run", "log", "write", "install", "delete"}
         /\ flush.n \in Nat /\ flush.min \in 0 .. MaxLogNum /\ flush.next \in Nat
         /\ flush.last \in 0 .. MaxSeqNum /\ flush.delete \in Seq(LogNums)
         /\ recycler.logNums \in Seq(LogNums) /\ recycler.maxLogNum \in Nat /\ recycler.minRecycle \in Nat
         /\ logSeqNum \in Nat /\ nextFile \in Nat /\ minLog \in Nat
         /\ ToSet(recycler.logNums) \subseteq LogNums /\ ToSet(flush.delete) \subseteq LogNums
         /\ manifest.min \in Nat /\ manifest.last \in Nat /\ rot.new \in Nat /\ rot.batch.seqNum \in Nat
         /\ flush.min \in Nat /\ flush.last \in Nat
<1>1. /\ recycler.logNums \in Seq(LogNums) /\ flush.delete \in Seq(LogNums)
  BY DEF IType, DiskType, MemType, RunType, ManifestType, RecyclerType, RotType, FlushType
<1>2. ToSet(recycler.logNums) \subseteq LogNums /\ ToSet(flush.delete) \subseteq LogNums
  <2> HIDE DEF LogNums
  <2> QED BY <1>1, ToSetMember
<1>3. /\ manifest.min \in 0 .. MaxLogNum /\ manifest.next \in Nat /\ manifest.last \in 0 .. MaxSeqNum
      /\ manifest.tables \subseteq SeqNums
      /\ recycler.maxLogNum \in Nat /\ recycler.minRecycle \in Nat
      /\ logSeqNum \in Nat /\ nextFile \in Nat /\ minLog \in Nat
  BY DEF IType, DiskType, MemType, RunType, ManifestType, RecyclerType, RotType, FlushType
<1>4. /\ rot.new \in 0 .. MaxLogNum /\ rot.batch.seqNum \in 0 .. MaxSeqNum /\ rot.batch.size \in Nat
      /\ rot.batch.sync \in BOOLEAN /\ rot.old \in Nat
      /\ rot.pc \in {"idle", "room", "close", "create", "dirsync", "install"}
  BY DEF IType, RunType, RotType, BatchType
<1>5. /\ flush.pc \in {"idle", "start", "run", "log", "write", "install", "delete"}
      /\ flush.n \in Nat /\ flush.min \in 0 .. MaxLogNum /\ flush.next \in Nat
      /\ flush.last \in 0 .. MaxSeqNum
  BY DEF IType, DiskType, MemType, RunType, ManifestType, RecyclerType, RotType, FlushType
<1>6. \A x \in 0 .. MaxLogNum : x \in Nat
  OBVIOUS
<1>7. \A x \in 0 .. MaxSeqNum : x \in Nat
  OBVIOUS
<1>8. /\ manifest.min \in Nat /\ manifest.last \in Nat /\ rot.new \in Nat /\ rot.batch.seqNum \in Nat
      /\ flush.min \in Nat /\ flush.last \in Nat
  BY <1>3, <1>4, <1>5, <1>6, <1>7
<1> QED BY <1>1, <1>2, <1>3, <1>4, <1>5, <1>8

-----------------------------------------------------------------------------
(* Each part of the invariant depends on some of the variables only.       *)

LEMMA SamePhase ==
  ASSUME IPhase, UNCHANGED <<rot, status, flush, logSeqNum, nextFile, queue, logQueue>>
  PROVE  IPhase'
  BY DEF IPhase, Opened, Running, Rotating

LEMMA SameNumbers ==
  ASSUME INumbers, UNCHANGED <<names, linked, status, nextFile, manifest, flush, rot, logQueue, minLog, recycler>>
  PROVE  INumbers'
  BY DEF INumbers, Top, Opened, Running, Rotating, Current

LEMMA SameNames ==
  ASSUME INames, UNCHANGED <<linked, names, manifest, status, logQueue, rot, log>>
  PROVE  INames'
  BY DEF INames, Current

LEMMA SameLogs ==
  ASSUME ILogs, UNCHANGED <<log, durable, manifest, status, logQueue, rot>>
  PROVE  ILogs'
  BY DEF ILogs, Kept, Current, Opened

LEMMA SameHistory ==
  ASSUME IHistory, UNCHANGED <<history, manifest, log, status, logSeqNum, replayed>>, rot'.batch = rot.batch
  PROVE  IHistory'
  BY DEF IHistory, Kept, Logged, Serving, Pending, Large

LEMMA SameOrder ==
  ASSUME IOrder, UNCHANGED <<queue, logSeqNum>>, rot'.batch = rot.batch
  PROVE  IOrder'
  BY DEF IOrder, Pending

LEMMA SameQueue ==
  ASSUME IQueue, UNCHANGED <<queue, status, logQueue, manifest, log>>, rot'.batch = rot.batch,
         flush' = flush \/ (flush.pc # "install" /\ flush'.pc # "install")
  PROVE  IQueue'
  BY DEF IQueue, Opened, Current, Flushed, LogOf, Large

LEMMA SameCovered ==
  ASSUME ICovered, UNCHANGED <<status, history, manifest, queue, log, logQueue>>, rot'.batch = rot.batch
  PROVE  ICovered'
  BY DEF ICovered, Serving, Large, LogOf, Kept, Current

LEMMA SameFlush ==
  ASSUME IFlush, UNCHANGED <<flush, queue, minLog, logQueue, manifest>>
  PROVE  IFlush'
  BY DEF IFlush, Current

LEMMA SameAcked ==
  ASSUME IAcked, UNCHANGED <<acked, manifest, log, durable>>
  PROVE  IAcked'
  BY DEF IAcked, Kept

-----------------------------------------------------------------------------
(* Scheduling a flush.                                                     *)

(* A flush that has not started, or is about to. *)
Rests(f) == f \in FlushType /\ f.pc \in {"idle", "start"} /\ f.delete = <<>>

LEMMA RestRecords == Rests(NoFlush) /\ Rests([NoFlush EXCEPT !.pc = "start"]) /\ NoFlush.pc = "idle"
<1>1. <<>> \in Seq(LogNums)
  BY EmptySeq
<1>2. NoFlush \in FlushType /\ NoFlush.pc = "idle" /\ NoFlush.delete = <<>>
  BY <1>1 DEF NoFlush, FlushType
<1> DEFINE f == [NoFlush EXCEPT !.pc = "start"]
<1>3. f \in FlushType /\ f.pc = "start" /\ f.delete = <<>>
  BY <1>2 DEF FlushType
<1> QED BY <1>2, <1>3 DEF Rests

LEMMA ScheduledRests ==
  ASSUME NEW q, NEW f
  PROVE  \/ MaybeScheduleFlush(q, f) = f
         \/ /\ f.pc = "idle" /\ status = "up" /\ Rests(MaybeScheduleFlush(q, f))
  BY RestRecords DEF MaybeScheduleFlush

LEMMA EndFlushRests ==
  ASSUME NEW q, EndFlush(q)
  PROVE  Rests(flush') /\ (flush'.pc = "start" => status = "up")
  BY RestRecords, ScheduledRests DEF EndFlush

(* A queue with the same batches in the same logs. *)
SameShape(q) ==
  /\ q \in Seq(EntryType) /\ Len(q) = Len(queue)
  /\ \A i \in 1 .. Len(queue) :
       q[i].seqNums = queue[i].seqNums /\ q[i].logNum = queue[i].logNum /\ q[i].base = queue[i].base

(* Applying a batch, forcing a flush and scheduling one change nothing the invariant is about. *)
LEMMA ScheduleStep ==
  ASSUME IInv, SameShape(queue'),
         \/ flush' = flush
         \/ flush.pc # "install" /\ Rests(flush') /\ (flush'.pc = "start" => status = "up"),
         UNCHANGED <<diskVars, status, logSeqNum, nextFile, minLog, nextSize, logQueue, recycler, rot,
                     replayed, history, waiting, acked, crashes>>,
         flushErrors' \in Nat
  PROVE  IInv'
<1> DEFINE len == Len(queue)
<1>1. IType /\ len \in Nat /\ DOMAIN queue = 1 .. len /\ (queue # <<>> => len > 0)
  BY QueueTypes DEF IInv
<1>2. Len(queue') = len /\ DOMAIN queue' = 1 .. len /\ (queue # <<>> => queue' # <<>>)
      /\ (queue = <<>> => queue' = <<>>)
  <2>1. queue' \in Seq(EntryType) /\ Len(queue') = len
    BY DEF SameShape
  <2> HIDE DEF EntryType
  <2>2. DOMAIN queue' = 1 .. Len(queue') /\ (queue' # <<>> => Len(queue') > 0)
    BY <2>1, LenProperties, EmptySeq
  <2>3. queue = <<>> => len = 0
    BY EmptySeq
  <2> QED BY <1>1, <2>1, <2>2, <2>3, EmptySeq
<1>3. \A i \in 1 .. len : queue'[i].seqNums = queue[i].seqNums /\ queue'[i].logNum = queue[i].logNum
                          /\ queue'[i].base = queue[i].base
  BY DEF SameShape
<1>4. flush' = flush \/ (Rests(flush') /\ flush.pc # "install")
  OBVIOUS
<1>5. IType'
  BY <1>1, <1>4 DEF IType, DiskType, MemType, RunType, CallerType, diskVars, SameShape, Rests
<1>6. flush'.pc # "idle" => status \in {"up", "closing"}
  BY DEF IInv, IPhase, Rests
<1> HIDE DEF len
<1>7. IPhase'
  <2>1. IF Running' THEN queue' # <<>> ELSE queue' = <<>>
    BY <1>2 DEF IInv, IPhase, Running
  <2>2. Running /\ status \notin {"up", "closing"} => Len(queue') = 1 /\ queue'[1].seqNums = {}
    <3>1. Running /\ status \notin {"up", "closing"} => len = 1 /\ queue[1].seqNums = {}
      BY DEF IInv, IPhase, len
    <3> QED BY <1>2, <1>3, <3>1
  <2>3. Running' = Running /\ Opened' = Opened /\ Rotating' = Rotating
    BY DEF Running, Opened, Rotating
  <2> QED BY <1>6, <2>1, <2>2, <2>3 DEF IInv, IPhase
<1>8. INumbers'
  BY <1>4, ToSetEmpty DEF IInv, INumbers, diskVars, Opened, Running, Rotating, Top, Current, Rests
<1>9. INames'
  BY SameNames DEF IInv, diskVars
<1>10. ILogs'
  BY SameLogs DEF IInv, diskVars
<1>11. IHistory'
  BY SameHistory DEF IInv, diskVars
<1>12. \A i \in 1 .. len : Flushed(i)' <=> Flushed(i)
  BY <1>4 DEF Flushed, Rests
<1>13. Opened => \A i \in 1 .. len : LogOf(i)' = LogOf(i)
  <2> SUFFICES ASSUME Opened, NEW i \in 1 .. len PROVE LogOf(i)' = LogOf(i)
    OBVIOUS
  <2>1. queue[i].logNum = 0 => i + 1 < len
    BY <1>1 DEF IInv, IQueue, len
  <2>2. queue[i].logNum \in Nat
    BY <1>1, QueueTypes DEF len
  <2>3. queue[i].logNum > 0 \/ (queue[i].logNum = 0 /\ i + 1 \in 1 .. len)
    BY <1>1, <2>1, <2>2
  <2> QED BY <2>3, <1>3 DEF LogOf
<1>14. IOrder'
  BY <1>1, <1>2, <1>3 DEF IInv, IOrder, Pending
<1>15. IQueue'
  <2>1. Opened => queue # <<>>
    BY DEF IInv, IPhase, Opened, Running
  <2>2. Opened' = Opened /\ Current' = Current /\ Large' = Large
    BY DEF Opened, Current, Large
  <2>3. Opened => queue'[len].logNum = Current
    BY <1>1, <1>3, <2>1 DEF IInv, IQueue, len
  <2>4. Opened => \A i \in 1 .. len : queue'[i].logNum = 0 => i + 1 < len /\ queue'[i + 1].logNum > 0
    <3> SUFFICES ASSUME Opened, NEW i \in 1 .. len, queue'[i].logNum = 0
                 PROVE  i + 1 < len /\ queue'[i + 1].logNum > 0
      OBVIOUS
    <3>1. i + 1 < len /\ queue[i + 1].logNum > 0
      BY <1>1, <1>3 DEF IInv, IQueue, len
    <3>2. i + 1 \in 1 .. len
      BY <3>1, <1>1
    <3> QED BY <3>1, <3>2, <1>3
  <2>5. \A i, j \in 1 .. len : i < j /\ queue'[i].logNum > 0 /\ queue'[j].logNum > 0 =>
          queue'[i].logNum < queue'[j].logNum
    BY <1>1, <1>3 DEF IInv, IQueue
  <2>6. Opened => \A i \in 1 .. len :
          IF Flushed(i)' THEN queue'[i].seqNums \subseteq manifest.tables
          ELSE LogOf(i)' >= manifest.min /\ queue'[i].seqNums \subseteq ToSet(log[LogOf(i)'])
    BY <1>1, <1>3, <1>12, <1>13 DEF IInv, IQueue
  <2>7. Large => rot.batch.seqNum \in ToSet(log[Current])
    BY DEF IInv, IQueue
  <2> QED BY <1>2, <2>2, <2>3, <2>4, <2>5, <2>6, <2>7 DEF IQueue, diskVars
<1>16. ICovered'
  BY <1>1, <1>2, <1>3, <1>13 DEF IInv, ICovered, diskVars, Serving, Opened, Large, Kept, Current
<1>18. IFlush'
  <2>1. CASE flush' = flush
    <3>3. flush.n \in Nat /\ (flush.pc = "write" => flush.n < len)
      BY <1>1, RecordTypes DEF IInv, IFlush, len
    <3>1. flush.pc = "write" => flush.n \in 0 .. len
      BY <1>1, <3>3
    <3>2. flush.pc = "write" => \A i \in 1 .. flush.n : i \in 1 .. len
      BY <1>1, <3>1
    <3> QED BY <1>1, <1>2, <1>3, <2>1, <3>2 DEF IInv, IFlush, diskVars, Current, len
  <2>2. CASE Rests(flush')
    BY <2>2 DEF IFlush, Rests
  <2> QED BY <1>4, <2>1, <2>2
<1>17. IAcked'
  BY SameAcked DEF IInv, diskVars
<1> QED BY <1>5, <1>7, <1>8, <1>9, <1>10, <1>11, <1>14, <1>15, <1>16, <1>17, <1>18 DEF IInv

-----------------------------------------------------------------------------
(* The flush goroutine.                                                    *)

LEMMA EntryChange ==
  ASSUME IType, NEW i \in 1 .. Len(queue), NEW e \in EntryType,
         e.seqNums = queue[i].seqNums, e.logNum = queue[i].logNum, e.base = queue[i].base
  PROVE  SameShape([queue EXCEPT ![i] = e])
<1>1. queue \in Seq(EntryType)
  BY DEF IType, MemType
<1> DEFINE q == [queue EXCEPT ![i] = e]
<1> HIDE DEF EntryType
<1>2. /\ q \in Seq(EntryType) /\ Len(q) = Len(queue)
      /\ \A j \in 1 .. Len(queue) : q[j] = IF j = i THEN e ELSE queue[j]
  BY <1>1, ExceptSeq
<1> QED BY <1>2 DEF SameShape

LEMMA SameQueueShape == IType => SameShape(queue)
  BY DEF IType, MemType, SameShape

LEMMA DelayedFlushStep ==
  ASSUME IInv, NEW i \in 1 .. Len(queue) - 1, DelayedFlush(i)
  PROVE  IInv'
<1> DEFINE e == [queue[i] EXCEPT !.forced = TRUE]
<1>1. IType /\ i \in 1 .. Len(queue) /\ queue[i] \in EntryType
  BY QueueTypes DEF IInv
<1>2. e \in EntryType /\ e.seqNums = queue[i].seqNums /\ e.logNum = queue[i].logNum /\ e.base = queue[i].base
  BY <1>1 DEF EntryType
<1>3. queue' = [queue EXCEPT ![i] = e]
  BY DEF DelayedFlush
<1> HIDE DEF e
<1>4. SameShape(queue')
  BY <1>1, <1>2, <1>3, EntryChange
<1>5. flush' = flush \/ (flush.pc = "idle" /\ status = "up" /\ Rests(flush'))
  BY ScheduledRests DEF DelayedFlush
<1>6. flushErrors' \in Nat
  BY <1>1 DEF DelayedFlush, IType, CallerType
<1> QED BY <1>4, <1>5, <1>6, ScheduleStep DEF DelayedFlush

LEMMA ApplyStep ==
  ASSUME IInv, NEW i \in DOMAIN queue, Apply(i)
  PROVE  IInv'
<1>1. PICK s \in queue[i].refs :
        /\ queue' = [queue EXCEPT ![i].refs = @ \ {s}]
        /\ \/ flush' = flush
           \/ flush' = MaybeScheduleFlush([queue EXCEPT ![i].refs = @ \ {s}], flush)
        /\ UNCHANGED <<diskVars, status, logSeqNum, nextFile, minLog, nextSize, logQueue, recycler, rot,
                       replayed, history, waiting, acked, crashes, flushErrors>>
  BY Zenon DEF Apply
<1> DEFINE e == [queue[i] EXCEPT !.refs = @ \ {s}]
<1>2. IType /\ i \in 1 .. Len(queue) /\ queue[i] \in EntryType
  BY QueueTypes DEF IInv
<1>3. e \in EntryType /\ e.seqNums = queue[i].seqNums /\ e.logNum = queue[i].logNum /\ e.base = queue[i].base
  BY <1>2 DEF EntryType
<1>4. queue' = [queue EXCEPT ![i] = e]
  BY <1>1
<1> HIDE DEF e
<1>5. SameShape(queue')
  BY <1>2, <1>3, <1>4, EntryChange
<1>6. flushErrors' \in Nat
  BY <1>1, <1>2 DEF IType, CallerType
<1>7. flush' = flush \/ (flush.pc = "idle" /\ status = "up" /\ Rests(flush'))
  BY <1>1, ScheduledRests
<1> QED BY <1>1, <1>5, <1>6, <1>7, ScheduleStep

LEMMA FailTablesStep == IInv /\ FailTables => IInv'
<1> SUFFICES ASSUME IInv, FailTables PROVE IInv'
  OBVIOUS
<1>1. SameShape(queue')
  BY SameQueueShape DEF IInv, FailTables, memVars
<1>2. Rests(flush') /\ (flush'.pc = "start" => status = "up") /\ flush.pc # "install"
  BY EndFlushRests DEF FailTables
<1>3. flushErrors' \in Nat
  BY DEF IInv, FailTables, IType, CallerType
<1> QED BY <1>1, <1>2, <1>3, ScheduleStep DEF FailTables, memVars

LEMMA FinishFlushStep == IInv /\ FinishFlush => IInv'
<1> SUFFICES ASSUME IInv, FinishFlush PROVE IInv'
  OBVIOUS
<1>1. SameShape(queue')
  BY SameQueueShape DEF IInv, FinishFlush, memVars
<1>2. Rests(flush') /\ (flush'.pc = "start" => status = "up") /\ flush.pc # "install"
  BY EndFlushRests DEF FinishFlush
<1>3. flushErrors' \in Nat
  BY DEF IInv, FinishFlush, IType, CallerType
<1> QED BY <1>1, <1>2, <1>3, ScheduleStep DEF FinishFlush, memVars

(* The steps of a flush before its version edit change nothing but flush. *)
LEMMA FlushOnly ==
  ASSUME IInv, IFlush', flush.pc \notin {"idle", "install"}, flush'.pc \notin {"idle", "install"},
         flush' \in FlushType, flush'.delete = flush.delete, flush'.pc = "write" => flush'.next <= nextFile,
         UNCHANGED <<diskVars, status, memVars, rot, replayed, history, waiting, acked, crashes, flushErrors>>
  PROVE  IInv'
<1> USE DEF diskVars, memVars
<1>1. IType'
  BY DEF IInv, IType, DiskType, MemType, RunType, CallerType
<1>2. IPhase'
  BY DEF IInv, IPhase, Opened, Running, Rotating
<1>3. INumbers'
  BY DEF IInv, IPhase, INumbers, Opened, Running, Rotating, Top, Current
<1>4. INames' /\ ILogs' /\ IHistory' /\ IAcked'
  BY SameNames, SameLogs, SameHistory, SameAcked DEF IInv
<1>5. IOrder' /\ IQueue' /\ ICovered'
  BY SameOrder, SameQueue, SameCovered DEF IInv
<1> QED BY <1>1, <1>2, <1>3, <1>4, <1>5 DEF IInv

LEMMA ReadyPrefixType ==
  ASSUME IType, queue # <<>>
  PROVE  ReadyPrefix(queue) \in 0 .. Len(queue) - 1
<1> DEFINE S == {n \in 0 .. Len(queue) - 1 : \A i \in 1 .. n : ReadyForFlush(queue[i])}
<1>1. Len(queue) \in Nat \ {0}
  BY QueueTypes
<1>2. S \subseteq Nat /\ S # {} /\ \A x \in S : x <= Len(queue)
  <2>1. 0 \in S
    BY <1>1
  <2>2. ASSUME NEW x \in S PROVE x \in Nat /\ x <= Len(queue)
    <3>1. x \in 0 .. Len(queue) - 1
      OBVIOUS
    <3> QED BY <1>1, <3>1
  <2> QED BY <2>1, <2>2
<1>3. Max(S) \in S
  <2> HIDE DEF S
  <2> QED BY <1>1, <1>2, MaxNat
<1> QED BY <1>3 DEF ReadyPrefix

LEMMA StartFlushStep == IInv /\ StartFlush => IInv'
<1> SUFFICES ASSUME IInv, StartFlush PROVE IInv'
  OBVIOUS
<1> DEFINE n == ReadyPrefix(queue)
           m == queue[n + 1].logNum
<1>1. IType /\ flush.pc = "start" /\ status \in {"up", "closing"} /\ queue # <<>> /\ logQueue # <<>>
  BY DEF IInv, StartFlush, IPhase, Running, Opened
<1>2. flush \in FlushType /\ n \in 0 .. Len(queue) - 1 /\ Len(queue) \in Nat
  BY <1>1, ReadyPrefixType, QueueTypes DEF IType, RunType
<1>3. CASE n > 0 /\ FlushInvariant(queue)
  <2>1. flush' = [flush EXCEPT !.pc = "run", !.n = n, !.min = m]
    BY <1>3 DEF StartFlush, MinUnflushedLogNum
  <2>2. n + 1 \in 1 .. Len(queue) /\ 1 \in 1 .. Len(queue) /\ 1 \in 1 .. n
    BY <1>2, <1>3
  <2>3. m \in 0 .. MaxLogNum /\ queue[1].logNum \in 0 .. MaxLogNum
    BY <1>1, <2>2, QueueTypes
  <2>4. queue[1].logNum < m
    BY <1>3, <2>2 DEF FlushInvariant, MinUnflushedLogNum
  <2>5. flush' \in FlushType /\ flush'.pc = "run" /\ flush'.n = n /\ flush'.min = m
        /\ flush'.delete = flush.delete
    <3>1. n \in Nat
      BY <1>2
    <3> HIDE DEF n, m
    <3> QED BY <1>2, <2>1, <2>3, <3>1 DEF FlushType
  <2>6. minLog <= m
    BY <1>1, <2>2, <2>3, <2>4, QueueTypes DEF IInv, IQueue, INumbers, Flushed, LogOf, Opened
  <2>7. \A i \in 1 .. Len(queue) : i > n /\ queue[i].logNum > 0 => queue[i].logNum >= m
    <3> SUFFICES ASSUME NEW i \in 1 .. Len(queue), i > n, queue[i].logNum > 0 PROVE queue[i].logNum >= m
      OBVIOUS
    <3>1. i = n + 1 \/ n + 1 < i
      BY <1>2
    <3>2. DOMAIN queue = 1 .. Len(queue) /\ queue[i].logNum \in Nat
      BY <1>1, QueueTypes
    <3>3. n + 1 < i => m < queue[i].logNum
      BY <2>2, <2>3, <2>4, <3>2 DEF IInv, IQueue
    <3> QED BY <3>1, <3>2, <3>3, <2>3
  <2>8. m <= Current
    <3>1. queue[Len(queue)].logNum = Current
      BY <1>1 DEF IInv, IQueue, Opened
    <3>2. Current > 0
      BY <1>1, CurrentType DEF LogNums
    <3> QED BY <1>2, <2>7, <3>1, <3>2
  <2>9. IFlush'
    <3>1. queue' = queue /\ minLog' = minLog /\ Current' = Current
      BY DEF StartFlush, memVars, Current
    <3>2. DOMAIN queue = 1 .. Len(queue)
      BY <1>1, QueueTypes
    <3> HIDE DEF n, m
    <3> QED BY <1>2, <1>3, <2>3, <2>4, <2>5, <2>6, <2>7, <2>8, <3>1, <3>2 DEF IFlush
  <2> QED BY <1>1, <2>5, <2>9, FlushOnly DEF StartFlush
<1>4. CASE ~ (n > 0 /\ FlushInvariant(queue))
  <2>1. EndFlush(queue)
    BY <1>4 DEF StartFlush
  <2>2. SameShape(queue')
    BY <1>1, SameQueueShape DEF StartFlush, memVars
  <2>3. Rests(flush') /\ (flush'.pc = "start" => status = "up") /\ flush.pc # "install"
    BY <1>1, <2>1, EndFlushRests
  <2>4. flushErrors' \in Nat
    BY <1>1 DEF StartFlush, IType, CallerType
  <2> QED BY <2>2, <2>3, <2>4, ScheduleStep DEF StartFlush, memVars
<1> QED BY <1>3, <1>4

LEMMA WriteTablesStep == IInv /\ WriteTables => IInv'
<1> SUFFICES ASSUME IInv, WriteTables PROVE IInv'
  OBVIOUS
<1>1. flush \in FlushType /\ flush.pc = "run"
  BY DEF IInv, IType, RunType, WriteTables
<1>2. /\ flush' \in FlushType /\ flush'.pc = "log" /\ flush'.delete = flush.delete
      /\ flush'.n = flush.n /\ flush'.min = flush.min
  BY <1>1 DEF WriteTables, FlushType
<1>3. IFlush'
  BY <1>1, <1>2 DEF IInv, WriteTables, memVars, IFlush, Current
<1> QED BY <1>1, <1>2, <1>3, FlushOnly DEF WriteTables

LEMMA PrepareEditStep == IInv /\ PrepareEdit => IInv'
<1> SUFFICES ASSUME IInv, PrepareEdit PROVE IInv'
  OBVIOUS
<1>1. flush \in FlushType /\ flush.pc = "log" /\ logSeqNum \in 1 .. MaxSeqNum + 1 /\ nextFile \in Nat
      /\ Serving /\ IType
  BY SMTT(60) DEF IInv, IType, RunType, MemType, PrepareEdit, IPhase, Serving
<1>2. /\ flush' \in FlushType /\ flush'.pc = "write" /\ flush'.delete = flush.delete
      /\ flush'.n = flush.n /\ flush'.min = flush.min
      /\ flush'.next = nextFile /\ flush'.last = logSeqNum - 1
  <2> DEFINE last == logSeqNum - 1
  <2>1. last \in 0 .. MaxSeqNum /\ flush' = [flush EXCEPT !.pc = "write", !.next = nextFile, !.last = last]
    BY <1>1 DEF PrepareEdit
  <2> HIDE DEF last
  <2>2. /\ flush' \in FlushType /\ flush'.pc = "write" /\ flush'.delete = flush.delete
        /\ flush'.n = flush.n /\ flush'.min = flush.min
        /\ flush'.next = nextFile /\ flush'.last = last
    BY <1>1, <2>1 DEF FlushType
  <2> QED BY <2>2 DEF last
<1>3. \A s \in manifest.tables : s <= logSeqNum - 1
  <2> SUFFICES ASSUME NEW s \in manifest.tables PROVE s <= logSeqNum - 1
    OBVIOUS
  <2>1. s \in SeqNums /\ rot.batch.seqNum \in Nat
    BY <1>1, RecordTypes
  <2>2. s < Pending \/ (Large /\ s = rot.batch.seqNum)
    BY <1>1 DEF IInv, IHistory
  <2> QED BY <1>1, <2>1, <2>2 DEF IInv, IPhase, Pending, Large, SeqNums
<1>4. \A i \in 1 .. flush.n : \A s \in queue[i].seqNums : s <= logSeqNum - 1
  <2> SUFFICES ASSUME NEW i \in 1 .. flush.n, NEW s \in queue[i].seqNums PROVE s <= logSeqNum - 1
    OBVIOUS
  <2>1. i \in 1 .. Len(queue) /\ DOMAIN queue = 1 .. Len(queue) /\ rot.batch.seqNum \in Nat
    <3>1. flush.n < Len(queue)
      BY <1>1 DEF IInv, IFlush
    <3>2. flush.n \in Nat /\ Len(queue) \in Nat /\ DOMAIN queue = 1 .. Len(queue) /\ rot.batch.seqNum \in Nat
      BY <1>1, QueueTypes, RecordTypes
    <3> QED BY <3>1, <3>2
  <2>2. s \in SeqNums
    BY <1>1, <2>1, QueueTypes
  <2>3. s < Pending
    BY <2>1 DEF IInv, IOrder
  <2> QED BY <1>1, <2>1, <2>2, <2>3 DEF IInv, IPhase, Pending, SeqNums
<1>5. IFlush'
  BY <1>1, <1>2, <1>3, <1>4 DEF IInv, PrepareEdit, diskVars, memVars, IFlush, Current
<1> QED BY <1>1, <1>2, <1>5, FlushOnly DEF PrepareEdit

-----------------------------------------------------------------------------
(* Writing a batch to the log.                                             *)

LEMMA LogOfType ==
  ASSUME IInv, Opened
  PROVE  \A i \in 1 .. Len(queue) :
           /\ LogOf(i) \in LogNums /\ LogOf(i) <= Current
           /\ queue[i].logNum = 0 => i + 1 \in 1 .. Len(queue) - 1 /\ queue[i + 1].logNum > 0
<1> SUFFICES ASSUME NEW i \in 1 .. Len(queue)
             PROVE  /\ LogOf(i) \in LogNums /\ LogOf(i) <= Current
                    /\ queue[i].logNum = 0 => i + 1 \in 1 .. Len(queue) - 1 /\ queue[i + 1].logNum > 0
  OBVIOUS
<1>1. IType /\ logQueue # <<>> /\ queue # <<>> /\ queue[Len(queue)].logNum = Current
  BY DEF IInv, IPhase, IQueue, Opened, Running
<1>2. Current \in LogNums /\ Current > 0
  BY <1>1, CurrentType DEF LogNums
<1>3. Len(queue) \in Nat /\ DOMAIN queue = 1 .. Len(queue)
      /\ \A j \in 1 .. Len(queue) : queue[j].logNum \in 0 .. MaxLogNum
  BY <1>1, QueueTypes
<1>4. \A j \in 1 .. Len(queue) : queue[j].logNum <= Current
  <2> SUFFICES ASSUME NEW j \in 1 .. Len(queue) PROVE queue[j].logNum <= Current
    OBVIOUS
  <2>1. j = Len(queue) \/ j < Len(queue)
    <3>1. Len(queue) \in Nat
      BY <1>3
    <3> QED BY <3>1
  <2>2. j < Len(queue) /\ queue[j].logNum > 0 => queue[j].logNum < Current
    <3>1. Len(queue) \in DOMAIN queue /\ j \in DOMAIN queue
      BY <1>3
    <3> QED BY <1>1, <1>2, <3>1 DEF IInv, IQueue
  <2>3. queue[j].logNum \in Nat /\ Current \in Nat
    BY <1>2, <1>3 DEF LogNums
  <2> QED BY <1>1, <2>1, <2>2, <2>3
<1>5. queue[i].logNum = 0 => i + 1 \in 1 .. Len(queue) - 1 /\ queue[i + 1].logNum > 0
  <2> SUFFICES ASSUME queue[i].logNum = 0 PROVE i + 1 \in 1 .. Len(queue) - 1 /\ queue[i + 1].logNum > 0
    OBVIOUS
  <2>1. i + 1 < Len(queue) /\ queue[i + 1].logNum > 0
    BY <1>3 DEF IInv, IQueue
  <2>2. Len(queue) \in Nat
    BY <1>3
  <2> QED BY <2>1, <2>2
<1>6. i + 1 \in 1 .. Len(queue) - 1 => i + 1 \in 1 .. Len(queue)
  BY <1>3
<1> QED BY <1>3, <1>4, <1>5, <1>6 DEF LogOf, LogNums

(* While the database serves, Open would find every commit. *)
LEMMA HistoryFound ==
  ASSUME IInv, Serving
  PROVE  \A s \in ToSet(history) : s \in manifest.tables \union Logged
<1> SUFFICES ASSUME NEW s \in ToSet(history), s \notin manifest.tables PROVE s \in Logged
  OBVIOUS
<1>1. IType /\ Opened /\ logQueue # <<>>
  BY DEF IInv, IPhase, Opened, Serving
<1>2. (\E i \in DOMAIN queue : s \in queue[i].seqNums) \/ (Large /\ s = rot.batch.seqNum)
  BY DEF IInv, ICovered
<1>3. CASE \E i \in DOMAIN queue : s \in queue[i].seqNums
  <2>1. PICK i \in DOMAIN queue : s \in queue[i].seqNums
    BY <1>3
  <2>2. i \in 1 .. Len(queue)
    BY <1>1, QueueTypes
  <2>3. LogOf(i) \in LogNums
    BY <1>1, <2>2, LogOfType
  <2>4. LogOf(i) >= manifest.min /\ s \in ToSet(log[LogOf(i)])
    BY <1>1, <2>1 DEF IInv, IQueue
  <2> QED BY <2>3, <2>4 DEF Logged, Kept
<1>4. CASE Large /\ s = rot.batch.seqNum
  <2>1. s \in ToSet(log[Current])
    BY <1>4 DEF IInv, IQueue
  <2>2. Current \in LogNums /\ Current >= manifest.min
    BY <1>1, CurrentType, RecordTypes DEF IInv, INumbers
  <2> QED BY <2>1, <2>2 DEF Logged, Kept
<1> QED BY <1>2, <1>3, <1>4

LEMMA AppendLog ==
  ASSUME IType, logQueue # <<>>, NEW s \in SeqNums, Append1(s, Current)
  PROVE  /\ log' \in [LogNums -> Seq(SeqNums)]
         /\ \A l \in LogNums : l # Current => log'[l] = log[l]
         /\ log'[Current] # <<>> /\ Len(log'[Current]) = Len(log[Current]) + 1
         /\ \A i \in 1 .. Len(log[Current]) : log'[Current][i] = log[Current][i]
         /\ log'[Current][Len(log[Current]) + 1] = s
         /\ ToSet(log'[Current]) = ToSet(log[Current]) \union {s}
         /\ DOMAIN log'[Current] = 1 .. Len(log[Current]) + 1
<1>1. Current \in LogNums
  BY CurrentType
<1>2. log \in [LogNums -> Seq(SeqNums)] /\ log[Current] \in Seq(SeqNums)
  BY <1>1 DEF IType, DiskType
<1> DEFINE a == Append(log[Current], s)
<1> HIDE DEF LogNums, SeqNums
<1>3. /\ a \in Seq(SeqNums) /\ a # <<>> /\ Len(a) = Len(log[Current]) + 1
      /\ \A i \in 1 .. Len(log[Current]) : a[i] = log[Current][i]
      /\ a[Len(log[Current]) + 1] = s
  BY <1>2, AppendProperties
<1>4. ToSet(a) = ToSet(log[Current]) \union {s}
  BY <1>2, ToSetAppend
<1>5. log' = [log EXCEPT ![Current] = a]
  BY DEF Append1
<1> HIDE DEF a
<1>6. log' \in [LogNums -> Seq(SeqNums)] /\ log'[Current] = a /\ \A l \in LogNums : l # Current => log'[l] = log[l]
  BY <1>1, <1>2, <1>3, <1>5
<1>7. DOMAIN a = 1 .. Len(a)
  BY <1>3, LenProperties
<1> QED BY <1>3, <1>4, <1>6, <1>7

(* The newest batch goes to the end of the log and of the history. *)
LEMMA WriteBatch ==
  ASSUME IInv, status = "up", NEW s \in SeqNums, \A x \in ToSet(history) : x < s,
         Append1(s, Current), history' = Append(history, s), rot'.pc \in {"idle", "room"},
         UNCHANGED <<names, linked, durable, manifest, status, logQueue, acked>>
  PROVE  /\ INames' /\ ILogs' /\ IAcked'
         /\ ToSet(history)' = ToSet(history) \union {s}
         /\ history' \in Seq(SeqNums) /\ log' \in [LogNums -> Seq(SeqNums)]
         /\ (Serving => \A x \in ToSet(history)' : x < Pending' \/ (Large' /\ x = rot'.batch.seqNum)) => IHistory'
<1> DEFINE c == Current
<1>1. IType /\ logQueue # <<>> /\ Opened /\ Serving /\ Running
  BY DEF IInv, IPhase, Opened, Serving, Running
<1>2. c \in LogNums /\ c \in Nat /\ c >= manifest.min /\ c \in Kept /\ Current' = c /\ Kept' = Kept
      /\ manifest.min \in Nat
  <2>1. c \in LogNums /\ c \in Nat
    BY <1>1, CurrentType
  <2>4. manifest.min \in Nat
    BY <1>1, RecordTypes
  <2>2. manifest.min <= c
    BY <1>1 DEF IInv, INumbers
  <2>3. Current' = c /\ Kept' = Kept
    BY DEF Current, Kept
  <2> QED BY <2>1, <2>2, <2>3, <2>4 DEF Kept
<1>3. /\ log' \in [LogNums -> Seq(SeqNums)]
      /\ \A l \in LogNums : l # c => log'[l] = log[l]
      /\ log'[c] # <<>> /\ Len(log'[c]) = Len(log[c]) + 1
      /\ \A i \in 1 .. Len(log[c]) : log'[c][i] = log[c][i]
      /\ log'[c][Len(log[c]) + 1] = s
      /\ ToSet(log'[c]) = ToSet(log[c]) \union {s}
      /\ DOMAIN log'[c] = 1 .. Len(log[c]) + 1
  BY <1>1, AppendLog
<1>4. history \in Seq(SeqNums) /\ Len(history) \in Nat /\ DOMAIN history = 1 .. Len(history)
      /\ \A i \in 1 .. Len(history) : history[i] \in SeqNums /\ history[i] \in ToSet(history)
  <2>1. history \in Seq(SeqNums)
    BY <1>1 DEF IType, CallerType
  <2> HIDE DEF SeqNums
  <2> QED BY <2>1, ToSetMember
<1>5. /\ history' \in Seq(SeqNums) /\ ToSet(history)' = ToSet(history) \union {s}
      /\ Len(history') = Len(history) + 1 /\ DOMAIN history' = 1 .. Len(history) + 1
      /\ \A i \in 1 .. Len(history) : history'[i] = history[i]
      /\ history'[Len(history) + 1] = s
  <2> HIDE DEF SeqNums
  <2>1. history' \in Seq(SeqNums) /\ Len(history') = Len(history) + 1
    BY <1>4, AppendProperties
  <2>2. DOMAIN history' = 1 .. Len(history')
    BY <2>1, LenProperties
  <2> QED BY <1>4, <2>1, <2>2, AppendProperties, ToSetAppend
<1>6. \A l \in Kept : ToSet(log[l]) \subseteq ToSet(history) /\ l \in LogNums
  BY DEF IInv, IHistory, Logged, Kept
<1>7. \A l \in Kept : \A x \in ToSet(log[l]) : x < s /\ x \in SeqNums
  BY <1>1, <1>6, LogTypes
<1>8. \A l \in LogNums : l > c => log[l] = <<>>
  BY <1>1 DEF IInv, ILogs
<1>9. Len(log[c]) \in Nat /\ \A i \in 1 .. Len(log[c]) : log[c][i] \in ToSet(log[c])
  BY <1>1, <1>2, LogTypes
<1> HIDE DEF c
<1>10. INames'
  BY <1>1, <1>2, <1>3 DEF IInv, INames, c
<1>11. \A l \in LogNums : durable[l] <= Len(log'[l])
  <2> SUFFICES ASSUME NEW l \in LogNums PROVE durable[l] <= Len(log'[l])
    OBVIOUS
  <2>1. durable[l] <= Len(log[l]) /\ durable[l] \in Nat /\ Len(log[l]) \in Nat
    BY <1>1, LogTypes DEF IInv, ILogs
  <2> QED BY <1>3, <2>1
<1>12. \A l \in Kept : \A i, j \in DOMAIN log'[l] : i < j => log'[l][i] < log'[l][j]
  <2> SUFFICES ASSUME NEW l \in Kept, NEW i \in DOMAIN log'[l], NEW j \in DOMAIN log'[l], i < j
               PROVE  log'[l][i] < log'[l][j]
    OBVIOUS
  <2>1. CASE l # c
    BY <1>3, <1>6, <2>1 DEF IInv, ILogs
  <2>2. CASE l = c
    <3>1. i \in 1 .. Len(log[c]) + 1 /\ j \in 1 .. Len(log[c]) + 1
      BY <1>3, <2>2
    <3>2. i \in 1 .. Len(log[c])
      BY <1>9, <3>1
    <3>3. CASE j = Len(log[c]) + 1
      BY <1>2, <1>3, <1>7, <1>9, <2>2, <3>2, <3>3
    <3>4. CASE j \in 1 .. Len(log[c])
      <4>1. DOMAIN log[c] = 1 .. Len(log[c])
        BY <1>1, <1>2, LogTypes
      <4>2. log[c][i] < log[c][j]
        BY <1>2, <3>2, <3>4, <4>1 DEF IInv, ILogs
      <4> QED BY <1>3, <2>2, <3>2, <3>4, <4>2
    <3> QED BY <1>9, <3>1, <3>3, <3>4
  <2> QED BY <2>1, <2>2
<1>13. \A l, k \in Kept : l < k => \A x \in ToSet(log'[l]), y \in ToSet(log'[k]) : x < y
  <2> SUFFICES ASSUME NEW l \in Kept, NEW k \in Kept, l < k,
                      NEW x \in ToSet(log'[l]), NEW y \in ToSet(log'[k])
               PROVE  x < y
    OBVIOUS
  <2>1. l \in Nat /\ k \in Nat /\ l \in LogNums /\ k \in LogNums
    BY DEF Kept, LogNums
  <2>2. l # c
    <3> SUFFICES ASSUME l = c PROVE FALSE
      OBVIOUS
    <3>1. k > c /\ k # c
      BY <1>2, <2>1
    <3>2. log'[k] = <<>>
      BY <1>3, <1>8, <2>1, <3>1
    <3> QED BY <3>2, ToSetEmpty
  <2>3. x \in ToSet(log[l])
    BY <1>3, <2>1, <2>2
  <2>4. CASE k = c /\ y = s
    BY <1>7, <2>3, <2>4
  <2>5. CASE y \in ToSet(log[k])
    BY <2>3, <2>5 DEF IInv, ILogs
  <2> QED BY <1>3, <2>1, <2>4, <2>5
<1>14. \A l, k \in Kept : l < k /\ log'[k] # <<>> => durable[l] = Len(log'[l])
  <2> SUFFICES ASSUME NEW l \in Kept, NEW k \in Kept, l < k, log'[k] # <<>>
               PROVE  durable[l] = Len(log'[l])
    OBVIOUS
  <2>1. l \in Nat /\ k \in Nat /\ l \in LogNums /\ k \in LogNums
    BY DEF Kept, LogNums
  <2>2. k <= c
    BY <1>2, <1>3, <1>8, <2>1
  <2>3. l < c /\ l # c
    BY <1>2, <2>1, <2>2
  <2>4. durable[l] = Len(log[l])
    BY <2>3 DEF IInv, ILogs, c
  <2> QED BY <1>3, <2>1, <2>3, <2>4
<1>15. \A l \in Kept : l < c => durable[l] = Len(log'[l])
  <2> SUFFICES ASSUME NEW l \in Kept, l < c PROVE durable[l] = Len(log'[l])
    OBVIOUS
  <2>1. l \in LogNums /\ l \in Nat
    BY DEF Kept, LogNums
  <2>2. l # c /\ durable[l] = Len(log[l])
    BY <1>2, <2>1 DEF IInv, ILogs, c
  <2> QED BY <1>3, <2>1, <2>2
<1>16. \A l \in LogNums : l > c => log'[l] = <<>>
  <2> SUFFICES ASSUME NEW l \in LogNums, l > c PROVE log'[l] = <<>>
    OBVIOUS
  <2>1. l # c
    BY <1>2 DEF LogNums
  <2> QED BY <1>3, <1>8, <2>1
<1>17. ILogs'
  BY <1>2, <1>11, <1>12, <1>13, <1>14, <1>15, <1>16 DEF ILogs
<1>18. IAcked'
  <2> SUFFICES ASSUME NEW x \in acked, x \notin manifest.tables
               PROVE  \E l \in Kept : \E j \in 1 .. durable[l] : log'[l][j] = x
    BY <1>2 DEF IAcked
  <2>1. PICK l \in Kept : \E j \in 1 .. durable[l] : log[l][j] = x
    BY DEF IInv, IAcked
  <2>2. PICK j \in 1 .. durable[l] : log[l][j] = x
    BY <2>1
  <2>3. l \in LogNums /\ durable[l] <= Len(log[l]) /\ durable[l] \in Nat /\ Len(log[l]) \in Nat
    BY <1>1, LogTypes DEF IInv, ILogs, Kept
  <2>4. j \in 1 .. Len(log[l])
    BY <2>3
  <2>5. log'[l][j] = x
    BY <1>3, <2>2, <2>3, <2>4
  <2> QED BY <2>5
<1>19. Logged' = Logged \union {s}
  <2>1. \A l \in Kept : ToSet(log'[l]) = IF l = c THEN ToSet(log[l]) \union {s} ELSE ToSet(log[l])
    BY <1>3 DEF Kept
  <2> QED BY <1>2, <2>1, ZenonT(60) DEF Logged
<1>20. ASSUME Serving => \A x \in ToSet(history)' : x < Pending' \/ (Large' /\ x = rot'.batch.seqNum)
       PROVE  IHistory'
  <2>1. \A i, j \in DOMAIN history' : i < j => history'[i] < history'[j]
    <3> SUFFICES ASSUME NEW i \in DOMAIN history', NEW j \in DOMAIN history', i < j
                 PROVE  history'[i] < history'[j]
      OBVIOUS
    <3>1. i \in 1 .. Len(history) /\ j \in 1 .. Len(history) + 1
      BY <1>4, <1>5
    <3>2. CASE j = Len(history) + 1
      BY <1>4, <1>5, <3>1, <3>2
    <3>3. CASE j \in 1 .. Len(history)
      <4>1. history[i] < history[j]
        BY <1>4, <3>1, <3>3 DEF IInv, IHistory
      <4> QED BY <1>5, <3>1, <3>3, <4>1
    <3> QED BY <1>4, <3>1, <3>2, <3>3
  <2>2. manifest.tables \subseteq ToSet(history)' /\ Logged' \subseteq ToSet(history)'
    BY <1>5, <1>19 DEF IInv, IHistory
  <2>3. \A x \in manifest.tables : x < s /\ x \in Nat
    BY <1>1, RecordTypes DEF IInv, IHistory, SeqNums
  <2>4. \A x \in ToSet(history)', t \in manifest.tables : x < t => x \in manifest.tables
    BY <1>5, <2>3 DEF IInv, IHistory, SeqNums
  <2>5. \A x \in ToSet(history)' : x \in manifest.tables \union Logged'
    BY <1>1, <1>5, <1>19, HistoryFound
  <2>6. Serving' = Serving
    BY DEF Serving
  <2> QED BY <1>1, <1>20, <2>1, <2>2, <2>4, <2>5, <2>6 DEF IHistory, IInv
<1> QED BY <1>3, <1>5, <1>10, <1>17, <1>18, <1>20

LEMMA BeginWriteStep ==
  ASSUME IInv, NEW size \in {0} \union BatchSizes, NEW sync \in BOOLEAN, BeginWrite(size, sync)
  PROVE  IInv'
<1> DEFINE s == logSeqNum
           b == [seqNum |-> s, size |-> size, sync |-> sync]
<1>1. IType /\ IPhase /\ status = "up" /\ rot.pc = "idle" /\ s <= MaxSeqNum
      /\ logSeqNum' = s + 1 /\ rot' = [rot EXCEPT !.pc = "room", !.batch = b]
  BY DEF IInv, BeginWrite
<1>2. s \in SeqNums /\ s \in Nat /\ s > 0 /\ size \in Nat
  BY <1>1, SMTT(60) DEF IType, MemType, SeqNums
<1>3. b \in BatchType /\ b.seqNum = s /\ b.size = size
  BY <1>2 DEF BatchType, SeqNums
<1>4. rot = Idle /\ rot.batch.seqNum = 0 /\ ~Large /\ Pending = s
  BY <1>1 DEF IPhase, Idle, NoBatch, Large, Pending
<1>5. rot \in RotType
  BY <1>1 DEF IType, RunType
<1> HIDE DEF b
<1>6. rot' \in RotType /\ rot'.pc = "room" /\ rot'.batch = b
  BY <1>1, <1>3, <1>5 DEF RotType
<1>7. Pending' = s /\ (Large' <=> size > 0) /\ rot'.batch.seqNum = s
  BY <1>2, <1>3, <1>6 DEF Pending, Large
<1>8. UNCHANGED <<names, linked, durable, closed, torn, manifest, strict, status, nextFile, minLog,
                  queue, nextSize, logQueue, recycler, flush, replayed, acked, crashes, flushErrors>>
  BY DEF BeginWrite
<1>9. \A x \in ToSet(history) : x < s
  BY <1>1, <1>4 DEF IInv, IHistory, Serving
<1>10. IPhase'
  BY <1>1, <1>2, <1>6, <1>7, <1>8 DEF IPhase, Opened, Running, Rotating
<1>11. INumbers'
  BY <1>6, <1>8 DEF IInv, INumbers, Opened, Running, Rotating, Top, Current
<1>12. IFlush'
  BY <1>8, SameFlush DEF IInv
<1>13. IOrder'
  BY <1>4, <1>7, <1>8 DEF IInv, IOrder
<1>14. MemType' /\ RunType'
  <2>1. logSeqNum' \in 1 .. MaxSeqNum + 1
    BY <1>1, <1>2
  <2> QED BY <1>1, <1>6, <1>8, <2>1 DEF IType, MemType, RunType
<1>15. CASE size > 0
  <2>1. Append1(s, Current) /\ history' = Append(history, s)
        /\ (waiting' = waiting \/ waiting' = waiting \union {s})
    BY <1>3, <1>15 DEF BeginWrite, b
  <2>2. /\ INames' /\ ILogs' /\ IAcked'
        /\ ToSet(history)' = ToSet(history) \union {s}
        /\ history' \in Seq(SeqNums) /\ log' \in [LogNums -> Seq(SeqNums)]
        /\ (Serving => \A x \in ToSet(history)' : x < Pending' \/ (Large' /\ x = rot'.batch.seqNum)) => IHistory'
    BY <1>1, <1>2, <1>6, <1>8, <1>9, <2>1, WriteBatch
  <2>3. IHistory'
    BY <1>7, <1>9, <1>15, <2>2
  <2>4. IType'
    BY <1>1, <1>2, <1>8, <1>14, <2>1, <2>2 DEF IType, DiskType, CallerType
  <2>5. logQueue # <<>> /\ Opened
    BY <1>1 DEF IPhase, Opened
  <2>6. /\ \A l \in LogNums : l # Current => log'[l] = log[l]
        /\ ToSet(log'[Current]) = ToSet(log[Current]) \union {s}
    BY <1>1, <1>2, <2>1, <2>5, AppendLog
  <2>7. \A l \in LogNums : ToSet(log'[l]) = IF l = Current THEN ToSet(log[l]) \union {s} ELSE ToSet(log[l])
    BY <2>6
  <2>8. Current' = Current /\ Opened' = Opened /\ Kept' = Kept /\ Serving' = Serving
        /\ \A i : Flushed(i)' = Flushed(i) /\ LogOf(i)' = LogOf(i)
    BY <1>8 DEF Current, Opened, Kept, Serving, Flushed, LogOf
  <2>9. \A i \in 1 .. Len(queue) : LogOf(i) \in LogNums
    BY <2>5, LogOfType
  <2>10. DOMAIN queue = 1 .. Len(queue)
    BY <1>1, QueueTypes
  <2>11. IQueue'
    BY <1>7, <1>8, <2>6, <2>7, <2>8, <2>9, <2>10 DEF IInv, IQueue
  <2>12. ICovered'
    <3>1. Serving
      BY <1>1 DEF Serving
    <3>2. \A x \in ToSet(history)' : \/ x \in manifest.tables \/ \E i \in DOMAIN queue : x \in queue[i].seqNums
                                     \/ x = s
      BY <1>4, <2>2, <3>1 DEF IInv, ICovered
    <3>3. \A l \in Kept : \A x \in ToSet(log'[l]) :
             \/ x \in manifest.tables \/ \E i \in DOMAIN queue : x \in queue[i].seqNums /\ LogOf(i) = l
             \/ x = s /\ l = Current
      <4>1. \A l \in Kept : \A x \in ToSet(log[l]) :
               x \in manifest.tables \/ \E i \in DOMAIN queue : x \in queue[i].seqNums /\ LogOf(i) = l
        BY <1>4, <3>1 DEF IInv, ICovered
      <4>2. \A l \in Kept : \A x \in ToSet(log'[l]) : x \in ToSet(log[l]) \/ (x = s /\ l = Current)
        BY <2>7 DEF Kept
      <4> QED BY <4>1, <4>2
    <3> QED BY <1>7, <1>8, <1>15, <2>8, <3>2, <3>3 DEF ICovered
  <2> QED BY <1>10, <1>11, <1>12, <1>13, <2>2, <2>3, <2>4, <2>11, <2>12 DEF IInv
<1>16. CASE size = 0
  <2>1. UNCHANGED <<log, history, waiting>>
    BY <1>16 DEF BeginWrite
  <2>2. IType'
    BY <1>1, <1>8, <1>14, <2>1 DEF IType, DiskType, CallerType
  <2>3. INames'
    BY <1>1, <1>6, <1>8, <2>1 DEF IInv, INames, Current
  <2>4. ILogs'
    BY <1>1, <1>6, <1>8, <2>1 DEF IInv, ILogs, Current, Kept, Opened
  <2>5. IHistory'
    BY <1>1, <1>7, <1>8, <1>9, <2>1 DEF IInv, IHistory, Kept, Logged, Serving
  <2>6. ~Large' /\ ~Large
    BY <1>4, <1>7, <1>16
  <2>7. IQueue'
    BY <1>8, <2>1, <2>6 DEF IInv, IQueue, Current, Opened, LogOf, Flushed
  <2>8. ICovered'
    BY <1>4, <1>8, <2>1, <2>6 DEF IInv, ICovered, Current, Serving, LogOf, Kept
  <2>9. IAcked'
    BY <1>8, <2>1, SameAcked DEF IInv
  <2> QED BY <1>10, <1>11, <1>12, <1>13, <2>2, <2>3, <2>4, <2>5, <2>7, <2>8, <2>9 DEF IInv
<1> QED BY <1>2, <1>15, <1>16

LEMMA IdleRecord == Idle \in RotType /\ Idle.pc = "idle" /\ Idle.batch.seqNum = 0 /\ Idle.batch.size = 0
  BY DEF Idle, NoBatch, RotType, BatchType

LEMMA PrepareStep == IInv /\ Prepare => IInv'
<1> SUFFICES ASSUME IInv, Prepare PROVE IInv'
  OBVIOUS
<1> DEFINE s == rot.batch.seqNum
           n == Len(queue)
           e == [queue[n] EXCEPT !.seqNums = @ \union {s}, !.refs = @ \union {s}]
<1>1. IType /\ IPhase /\ status = "up" /\ rot.pc = "room" /\ s > 0 /\ rot.batch.size = 0 /\ rot' = Idle
      /\ Append1(s, Current) /\ history' = Append(history, s)
      /\ (waiting' = waiting \/ waiting' = waiting \union {s})
  BY DEF IInv, Prepare, IPhase, Small
<1>2. UNCHANGED <<names, linked, durable, closed, torn, manifest, strict, status, logSeqNum, nextFile,
                  minLog, nextSize, logQueue, recycler, flush, replayed, acked, crashes, flushErrors>>
  BY DEF Prepare
<1>3. queue # <<>> /\ logQueue # <<>> /\ Opened /\ Serving /\ s + 1 = logSeqNum
  BY <1>1 DEF IPhase, Opened, Serving, Running
<1>4. s \in SeqNums /\ s \in Nat /\ n \in Nat /\ n > 0 /\ n \in 1 .. n /\ DOMAIN queue = 1 .. n
      /\ queue[n] \in EntryType
  <2>1. s \in SeqNums /\ s \in Nat
    <3>1. s \in 0 .. MaxSeqNum /\ s > 0
      BY <1>1, RecordTypes
    <3> QED BY <3>1 DEF SeqNums
  <2>2. n \in Nat /\ n > 0 /\ DOMAIN queue = 1 .. n /\ \A i \in 1 .. n : queue[i] \in EntryType
    BY <1>1, <1>3, QueueTypes
  <2> QED BY <2>1, <2>2
<1>5. ~Large /\ Pending = s /\ ~Large' /\ Pending' = s + 1
  BY <1>1, <1>2, <1>3, <1>4, IdleRecord DEF Large, Pending
<1>6. \A x \in ToSet(history) : x < s
  BY <1>3, <1>5 DEF IInv, IHistory
<1>7. e \in EntryType /\ e.seqNums = queue[n].seqNums \union {s} /\ e.logNum = queue[n].logNum
      /\ e.base = queue[n].base
  BY <1>4 DEF EntryType
<1>8. queue' = [queue EXCEPT ![n] = e]
  BY <1>4 DEF Prepare
<1> HIDE DEF e
<1>9. /\ queue' \in Seq(EntryType) /\ Len(queue') = n /\ DOMAIN queue' = 1 .. n
      /\ \A j \in 1 .. n : queue'[j] = IF j = n THEN e ELSE queue[j]
  <2>1. queue \in Seq(EntryType)
    BY <1>1 DEF IType, MemType
  <2> HIDE DEF EntryType
  <2>2. /\ queue' \in Seq(EntryType) /\ Len(queue') = n
        /\ \A j \in 1 .. n : queue'[j] = IF j = n THEN e ELSE queue[j]
    BY <1>4, <1>7, <1>8, <2>1, ExceptSeq
  <2> QED BY <2>2, LenProperties
<1> HIDE DEF s, n
<1>10. /\ \A j \in 1 .. n : queue'[j].logNum = queue[j].logNum /\ queue'[j].base = queue[j].base
       /\ \A j \in 1 .. n : j # n => queue'[j].seqNums = queue[j].seqNums
       /\ queue'[n].seqNums = queue[n].seqNums \union {s}
  BY <1>4, <1>7, <1>9
<1>11. rot' \in RotType /\ rot'.pc = "idle" /\ rot'.batch.seqNum = 0 /\ rot'.batch.size = 0
  BY <1>1, IdleRecord
<1>12. /\ INames' /\ ILogs' /\ IAcked'
       /\ ToSet(history)' = ToSet(history) \union {s}
       /\ history' \in Seq(SeqNums) /\ log' \in [LogNums -> Seq(SeqNums)]
       /\ (Serving => \A x \in ToSet(history)' : x < Pending' \/ (Large' /\ x = rot'.batch.seqNum)) => IHistory'
  BY <1>1, <1>2, <1>4, <1>6, <1>11, WriteBatch DEF s
<1>13. IHistory'
  <2>1. \A x \in ToSet(history) : x \in Nat
    <3>1. history \in Seq(SeqNums)
      BY <1>1 DEF IType, CallerType
    <3>2. ToSet(history) \subseteq SeqNums
      BY <3>1, ToSetMember
    <3> QED BY <3>2 DEF SeqNums
  <2>2. \A x \in ToSet(history)' : x < s + 1
    BY <1>4, <1>6, <1>12, <2>1
  <2> QED BY <1>5, <1>12, <2>2
<1>14. IType'
  BY <1>1, <1>2, <1>4, <1>9, <1>11, <1>12 DEF IType, DiskType, MemType, RunType, CallerType
<1>15. IPhase'
  BY <1>1, <1>2, <1>9, <1>11, <1>4 DEF IPhase, Opened, Running, Rotating
<1>16. INumbers'
  BY <1>2, <1>11 DEF IInv, INumbers, Opened, Running, Rotating, Top, Current
<1>17. \A i \in 1 .. n : i < n => i # n
  BY <1>4
<1>18. IOrder'
  <2>1. \A i \in 1 .. n : \A x \in queue[i].seqNums : queue[i].base <= x /\ x < s /\ x \in Nat
    <3>1. \A i \in 1 .. n : queue[i].seqNums \subseteq SeqNums
      BY <1>1, QueueTypes DEF n
    <3>2. \A i \in 1 .. n : \A x \in queue[i].seqNums : queue[i].base <= x /\ x < s
      BY <1>4, <1>5 DEF IInv, IOrder
    <3> QED BY <3>1, <3>2 DEF SeqNums
  <2>2. queue[n].base <= s /\ queue[n].base \in Nat
    BY <1>1, <1>3, <1>4, <1>5, QueueTypes DEF IInv, IOrder, n
  <2>3. \A i \in 1 .. n : \A x \in queue'[i].seqNums : queue'[i].base <= x /\ x < s + 1
    <3> SUFFICES ASSUME NEW i \in 1 .. n, NEW x \in queue'[i].seqNums
                 PROVE  queue'[i].base <= x /\ x < s + 1
      OBVIOUS
    <3>1. x \in queue[i].seqNums \/ (i = n /\ x = s)
      BY <1>10
    <3>2. CASE x \in queue[i].seqNums
      BY <1>4, <1>10, <2>1, <3>2
    <3>3. CASE i = n /\ x = s
      BY <1>4, <1>10, <2>2, <3>3
    <3> QED BY <3>1, <3>2, <3>3
  <2>4. \A i, j \in 1 .. n : i < j => \A x \in queue'[i].seqNums, y \in queue'[j].seqNums : x < y
    <3> SUFFICES ASSUME NEW i \in 1 .. n, NEW j \in 1 .. n, i < j,
                        NEW x \in queue'[i].seqNums, NEW y \in queue'[j].seqNums
                 PROVE  x < y
      OBVIOUS
    <3>1. i # n /\ x \in queue[i].seqNums
      BY <1>4, <1>10
    <3>2. y \in queue[j].seqNums \/ y = s
      BY <1>10
    <3>3. y \in queue[j].seqNums => x < y
      BY <1>4, <3>1 DEF IInv, IOrder
    <3> QED BY <2>1, <3>1, <3>2, <3>3
  <2>5. queue'[n].base <= s + 1
    BY <1>4, <1>10, <2>2
  <2> QED BY <1>5, <1>9, <2>3, <2>4, <2>5 DEF IOrder
<1>19. Current' = Current /\ Opened' = Opened /\ Kept' = Kept /\ Serving' = Serving
       /\ \A i : Flushed(i)' = Flushed(i)
  BY <1>2 DEF Current, Opened, Kept, Serving, Flushed
<1>20. \A i \in 1 .. n : /\ LogOf(i)' = LogOf(i) /\ LogOf(i) \in LogNums
                         /\ queue[i].logNum = 0 => i + 1 \in 1 .. n - 1 /\ queue[i + 1].logNum > 0
  <2>1. \A i \in 1 .. n : /\ LogOf(i) \in LogNums /\ queue[i].logNum \in Nat
                          /\ queue[i].logNum = 0 => i + 1 \in 1 .. n - 1 /\ queue[i + 1].logNum > 0
    BY <1>1, <1>3, LogOfType, QueueTypes DEF n
  <2>2. \A i \in 1 .. n : i + 1 \in 1 .. n - 1 => i + 1 \in 1 .. n
    BY <1>4
  <2> QED BY <1>10, <2>1, <2>2 DEF LogOf
<1>21. queue[n].logNum = Current /\ Current > 0 /\ LogOf(n) = Current /\ Current \in LogNums
  BY <1>1, <1>3, CurrentType DEF IInv, IQueue, LogOf, LogNums, n
<1>22. \A l \in LogNums : ToSet(log'[l]) = IF l = Current THEN ToSet(log[l]) \union {s} ELSE ToSet(log[l])
  BY <1>1, <1>3, <1>4, AppendLog DEF s
<1>23. ~Flushed(n)
  <2>1. flush.n \in Nat /\ (flush.pc = "install" => flush.n < n)
    BY <1>1, RecordTypes DEF IInv, IFlush, n
  <2> QED BY <1>4, <2>1 DEF Flushed
<1>24. IQueue'
  <2>1. \A i \in 1 .. n : IF Flushed(i) THEN queue[i].seqNums \subseteq manifest.tables
                          ELSE LogOf(i) >= manifest.min /\ queue[i].seqNums \subseteq ToSet(log[LogOf(i)])
    BY <1>3, <1>4 DEF IInv, IQueue
  <2>2. \A i \in 1 .. n : IF Flushed(i) THEN queue'[i].seqNums \subseteq manifest.tables
                          ELSE LogOf(i) >= manifest.min /\ queue'[i].seqNums \subseteq ToSet(log'[LogOf(i)])
    <3> SUFFICES ASSUME NEW i \in 1 .. n
                 PROVE  IF Flushed(i) THEN queue'[i].seqNums \subseteq manifest.tables
                        ELSE LogOf(i) >= manifest.min /\ queue'[i].seqNums \subseteq ToSet(log'[LogOf(i)])
      OBVIOUS
    <3>1. ToSet(log[LogOf(i)]) \subseteq ToSet(log'[LogOf(i)])
      BY <1>20, <1>22
    <3>2. CASE i # n
      BY <1>10, <2>1, <3>1, <3>2
    <3>3. CASE i = n
      <4>1. s \in ToSet(log'[LogOf(i)])
        BY <1>21, <1>22, <3>3
      <4> QED BY <1>10, <1>23, <2>1, <3>1, <3>3, <4>1
    <3> QED BY <3>2, <3>3
  <2>3. \A i, j \in 1 .. n : i < j /\ queue[i].logNum > 0 /\ queue[j].logNum > 0 =>
           queue[i].logNum < queue[j].logNum
    BY <1>4 DEF IInv, IQueue
  <2>4. \A i \in 1 .. n : queue'[i].logNum = 0 => i + 1 < n /\ queue'[i + 1].logNum > 0
    <3> SUFFICES ASSUME NEW i \in 1 .. n, queue'[i].logNum = 0 PROVE i + 1 < n /\ queue'[i + 1].logNum > 0
      OBVIOUS
    <3>1. i + 1 \in 1 .. n - 1 /\ queue[i + 1].logNum > 0
      BY <1>10, <1>20
    <3>2. i + 1 < n /\ i + 1 \in 1 .. n
      BY <1>4, <3>1
    <3> QED BY <1>10, <3>1, <3>2
  <2> QED BY <1>2, <1>4, <1>5, <1>9, <1>10, <1>19, <1>20, <1>21, <2>2, <2>3, <2>4 DEF IQueue
<1>25. ICovered'
  <2>1. \A i \in 1 .. n : queue[i].seqNums \subseteq queue'[i].seqNums
    BY <1>10
  <2>2. \A x \in ToSet(history)' : x \in manifest.tables \/ \E i \in 1 .. n : x \in queue'[i].seqNums
    <3>1. \A x \in ToSet(history) : x \in manifest.tables \/ \E i \in 1 .. n : x \in queue[i].seqNums
      BY <1>3, <1>4, <1>5 DEF IInv, ICovered
    <3> QED BY <1>4, <1>10, <1>12, <2>1, <3>1
  <2>3. \A l \in Kept : \A x \in ToSet(log'[l]) :
           x \in manifest.tables \/ \E i \in 1 .. n : x \in queue'[i].seqNums /\ LogOf(i) = l
    <3>1. \A l \in Kept : \A x \in ToSet(log[l]) :
             x \in manifest.tables \/ \E i \in 1 .. n : x \in queue[i].seqNums /\ LogOf(i) = l
      BY <1>3, <1>4, <1>5 DEF IInv, ICovered
    <3>2. \A l \in Kept : \A x \in ToSet(log'[l]) : x \in ToSet(log[l]) \/ (x = s /\ l = Current)
      BY <1>22 DEF Kept
    <3> QED BY <1>4, <1>10, <1>21, <2>1, <3>1, <3>2
  <2> QED BY <1>2, <1>9, <1>19, <1>20, <2>2, <2>3 DEF ICovered
<1>26. IFlush'
  <2>1. flush.n \in Nat
    BY <1>1, RecordTypes
  <2>2. flush.pc \in {"run", "log", "write", "install"} => flush.n < n
    BY DEF IInv, IFlush, n
  <2>3. flush.pc = "write" => \A i \in 1 .. flush.n : i \in 1 .. n /\ i # n
    BY <1>4, <2>1, <2>2
  <2>4. flush.pc = "write" => \A i \in 1 .. flush.n : queue'[i].seqNums = queue[i].seqNums
    BY <1>10, <2>3
  <2> QED BY <1>2, <1>4, <1>9, <1>10, <1>19, <2>2, <2>4 DEF IInv, IFlush, n
<1> QED BY <1>12, <1>13, <1>14, <1>15, <1>16, <1>18, <1>24, <1>25, <1>26 DEF IInv

-----------------------------------------------------------------------------
(* The rotation of the memtable and the log.                               *)

(* A step of makeRoomForWrite that leaves the queue and the logs alone. *)
LEMMA SameBatch ==
  ASSUME IInv, rot'.batch = rot.batch,
         UNCHANGED <<log, manifest, status, logSeqNum, minLog, queue, logQueue, flush, replayed, history>>
  PROVE  IHistory' /\ IOrder' /\ IQueue' /\ ICovered' /\ IFlush'
  BY SameHistory, SameOrder, SameQueue, SameCovered, SameFlush DEF IInv

LEMMA BeginFlushStep == IInv /\ BeginFlush => IInv'
<1> SUFFICES ASSUME IInv, BeginFlush PROVE IInv'
  OBVIOUS
<1> USE DEF diskVars, memVars
<1>1. status = "up" /\ rot \in RotType /\ rot = Idle
  BY DEF IInv, BeginFlush, IPhase, IType, RunType
<1>2. rot' \in RotType /\ rot'.pc = "room" /\ rot'.batch = rot.batch
  BY <1>1 DEF BeginFlush, RotType
<1>3. IType'
  BY <1>2 DEF IInv, IType, DiskType, MemType, RunType, CallerType, BeginFlush
<1>4. IPhase'
  BY <1>1, <1>2 DEF IInv, IPhase, BeginFlush, Opened, Running, Rotating
<1>5. INumbers'
  BY <1>2 DEF IInv, INumbers, BeginFlush, Opened, Running, Rotating, Top, Current
<1>6. INames'
  BY <1>2 DEF IInv, INames, BeginFlush, Current
<1>7. ILogs'
  BY <1>2 DEF IInv, ILogs, BeginFlush, Current, Kept, Opened
<1>8. IHistory' /\ IOrder' /\ IQueue' /\ ICovered' /\ IFlush'
  BY <1>2, SameBatch DEF BeginFlush
<1>9. IAcked'
  BY SameAcked DEF IInv, BeginFlush
<1> QED BY <1>3, <1>4, <1>5, <1>6, <1>7, <1>8, <1>9 DEF IInv

LEMMA StartRotationStep == IInv /\ StartRotation => IInv'
<1> SUFFICES ASSUME IInv, StartRotation PROVE IInv'
  OBVIOUS
<1> USE DEF diskVars
<1>1. IType /\ status = "up" /\ rot \in RotType /\ nextFile \in 1 .. MaxLogNum /\ nextFile' = nextFile + 1
  BY DEF IInv, StartRotation, IPhase, IType, RunType, MemType
<1>2. rot' \in RotType /\ rot'.pc = "close" /\ rot'.batch = rot.batch /\ rot'.new = nextFile
  <2>1. nextFile \in 0 .. MaxLogNum /\ rot' = [rot EXCEPT !.pc = "close", !.new = nextFile]
    BY <1>1 DEF StartRotation
  <2> QED BY <1>1, <2>1 DEF RotType
<1>3. nextFile' \in 1 .. MaxLogNum + 1
  BY <1>1
<1>4. IType'
  BY <1>2, <1>3 DEF IInv, IType, DiskType, MemType, RunType, CallerType, StartRotation
<1>5. IPhase'
  BY <1>1, <1>2 DEF IInv, IPhase, StartRotation, Opened, Running, Rotating
<1>6. INumbers'
  <2>1. Top = nextFile /\ Top' = nextFile + 1
    BY <1>1 DEF Top, Running, StartRotation
  <2>2. \A l \in names \union linked : l < nextFile /\ l \in Nat
    BY <1>1, <2>1 DEF IInv, INumbers, IType, DiskType, LogNums
  <2>3. manifest.min < nextFile /\ manifest.next <= nextFile /\ manifest.min \in Nat /\ manifest.next \in Nat
    BY <1>1, <2>1, RecordTypes DEF IInv, INumbers
  <2>4. flush.next \in Nat /\ nextFile \in Nat
    BY <1>1, RecordTypes
  <2>5. Current' = Current /\ Current < nextFile
    BY <1>1 DEF StartRotation, Current, IInv, INumbers, Opened
  <2>6. Current \in Nat
    BY <1>1, CurrentType DEF IInv, IPhase, Opened
  <2>7. flush.pc = "write" => flush.next <= nextFile
    BY <2>1 DEF IInv, INumbers
  <2>8. Current < nextFile + 1 /\ manifest.min < nextFile + 1 /\ manifest.next <= nextFile + 1
        /\ (flush.pc = "write" => flush.next <= nextFile + 1)
        /\ \A l \in names \union linked : l < nextFile + 1
    BY <2>2, <2>3, <2>4, <2>5, <2>6, <2>7
  <2> QED BY <1>1, <1>2, <2>1, <2>2, <2>5, <2>8 DEF IInv, INumbers, StartRotation, Opened, Rotating
<1>7. INames'
  BY <1>2 DEF IInv, INames, StartRotation, Current
<1>8. ILogs'
  BY <1>2 DEF IInv, ILogs, StartRotation, Current, Kept, Opened
<1>9. IHistory' /\ IOrder' /\ IQueue' /\ ICovered' /\ IFlush'
  BY <1>2, SameBatch DEF StartRotation
<1>10. IAcked'
  BY SameAcked DEF IInv, StartRotation
<1> QED BY <1>4, <1>5, <1>6, <1>7, <1>8, <1>9, <1>10 DEF IInv

(* The current log is synced, and the commits waiting for it are acknowledged. *)
LEMMA SyncCurrent ==
  ASSUME IInv, Opened, Acknowledge(Current, Len(log[Current])),
         durable' = [durable EXCEPT ![Current] = Len(log[Current])], UNCHANGED <<log, manifest>>
  PROVE  /\ IAcked' /\ acked' \subseteq SeqNums /\ waiting' \subseteq SeqNums
         /\ durable' \in [LogNums -> Nat] /\ Current \in LogNums
         /\ \A l \in LogNums : durable'[l] = IF l = Current THEN Len(log[l]) ELSE durable[l]
         /\ \A l \in LogNums : durable'[l] <= Len(log[l])
<1> DEFINE c == Current
           done == waiting \intersect ToSet(SubSeq(log[c], 1, Len(log[c])))
<1>1. IType /\ logQueue # <<>>
  BY DEF IInv, IPhase
<1>2. c \in LogNums /\ c \in Kept
  <2>1. c \in LogNums /\ c \in Nat
    BY <1>1, CurrentType
  <2>2. manifest.min <= c /\ manifest.min \in Nat
    BY <1>1, RecordTypes DEF IInv, INumbers
  <2> QED BY <2>1, <2>2 DEF Kept
<1>3. log[c] \in Seq(SeqNums) /\ Len(log[c]) \in Nat
  BY <1>1, <1>2, LogTypes
<1>4. \A x \in done : x \in waiting /\ \E j \in 1 .. Len(log[c]) : log[c][j] = x
  <2>1. SubSeq(log[c], 1, Len(log[c])) = log[c]
    <3> HIDE DEF c, SeqNums
    <3> QED BY <1>3, SubSeqFull
  <2>2. \A x : x \in ToSet(log[c]) <=> \E j \in 1 .. Len(log[c]) : log[c][j] = x
    BY <1>1, <1>2, LogTypes
  <2> QED BY <2>1, <2>2
<1>5. acked' = acked \union done /\ waiting' = waiting \ done
  BY DEF Acknowledge
<1> HIDE DEF done
<1>6. acked' \subseteq SeqNums /\ waiting' \subseteq SeqNums
  BY <1>1, <1>4, <1>5 DEF IType, CallerType
<1>7. durable \in [LogNums -> Nat]
  BY <1>1 DEF IType, DiskType
<1>8. /\ durable' \in [LogNums -> Nat]
      /\ \A l \in LogNums : durable'[l] = IF l = Current THEN Len(log[l]) ELSE durable[l]
  BY <1>2, <1>3, <1>7
<1>9. \A l \in LogNums : durable[l] <= Len(log[l]) /\ durable[l] \in Nat /\ Len(log[l]) \in Nat
  BY <1>1, LogTypes DEF IInv, ILogs
<1>10. \A l \in LogNums : durable'[l] <= Len(log[l]) /\ durable[l] <= durable'[l] /\ durable'[l] \in Nat
  BY <1>8, <1>9
<1>11. IAcked'
  <2> SUFFICES ASSUME NEW s \in acked', s \notin manifest.tables
               PROVE  \E l \in Kept : \E j \in 1 .. durable'[l] : log[l][j] = s
    BY DEF IAcked, Kept
  <2>1. CASE s \in acked
    <3>1. PICK l \in Kept : \E j \in 1 .. durable[l] : log[l][j] = s
      BY <2>1 DEF IInv, IAcked
    <3>2. PICK j \in 1 .. durable[l] : log[l][j] = s
      BY <3>1
    <3>3. l \in LogNums
      BY DEF Kept
    <3>4. durable[l] <= durable'[l] /\ durable[l] \in Nat /\ durable'[l] \in Nat
      BY <1>9, <1>10, <3>3
    <3>5. j \in 1 .. durable'[l]
      BY <3>4
    <3> QED BY <3>2, <3>5
  <2>2. CASE s \in done
    <3>1. durable'[c] = Len(log[c])
      BY <1>2, <1>8
    <3> QED BY <1>2, <1>4, <2>2, <3>1
  <2> QED BY <1>5, <2>1, <2>2
<1> QED BY <1>2, <1>6, <1>8, <1>10, <1>11

LEMMA CloseLogStep == IInv /\ CloseLog => IInv'
<1> SUFFICES ASSUME IInv, CloseLog PROVE IInv'
  OBVIOUS
<1> USE DEF memVars
<1>1. IType /\ IPhase /\ status = "up" /\ rot \in RotType /\ rot.pc = "close" /\ Opened
  BY DEF IInv, CloseLog, IPhase, IType, RunType, Opened
<1>2. rot' \in RotType /\ rot'.pc = "create" /\ rot'.batch = rot.batch /\ rot'.new = rot.new
  BY <1>1 DEF CloseLog, RotType
<1>3. UNCHANGED <<names, linked, log, torn, manifest, strict, status, memVars, flush, replayed, history,
                  crashes, flushErrors>>
  BY DEF CloseLog
<1>4. /\ IAcked' /\ acked' \subseteq SeqNums /\ waiting' \subseteq SeqNums
      /\ durable' \in [LogNums -> Nat] /\ Current \in LogNums
      /\ \A l \in LogNums : durable'[l] = IF l = Current THEN Len(log[l]) ELSE durable[l]
      /\ \A l \in LogNums : durable'[l] <= Len(log[l])
  BY <1>1, <1>3, SyncCurrent DEF CloseLog, SealLog
<1>5. closed' \subseteq LogNums
  BY <1>1, <1>4 DEF CloseLog, SealLog, IType, DiskType
<1>6. IType'
  BY <1>1, <1>2, <1>3, <1>4, <1>5 DEF IType, DiskType, MemType, RunType, CallerType
<1>7. IPhase'
  BY <1>1, <1>2, <1>3 DEF IPhase, Opened, Running, Rotating
<1>8. INumbers'
  BY <1>1, <1>2, <1>3 DEF IInv, INumbers, Opened, Running, Rotating, Top, Current
<1>9. INames'
  BY <1>2, <1>3 DEF IInv, INames, Current
<1>10. ILogs'
  <2>1. Kept' = Kept /\ Current' = Current /\ Opened' = Opened
    BY <1>3 DEF Kept, Current, Opened
  <2>2. \A l \in Kept : l \in LogNums
    BY DEF Kept
  <2> QED BY <1>1, <1>2, <1>3, <1>4, <2>1, <2>2 DEF IInv, ILogs
<1>11. IHistory' /\ IOrder' /\ IQueue' /\ ICovered' /\ IFlush'
  BY <1>2, <1>3, SameBatch
<1> QED BY <1>4, <1>6, <1>7, <1>8, <1>9, <1>10, <1>11 DEF IInv

LEMMA SyncLogStep == IInv /\ SyncLog => IInv'
<1> SUFFICES ASSUME IInv, SyncLog PROVE IInv'
  OBVIOUS
<1> USE DEF memVars
<1>1. IType /\ Opened
  BY DEF IInv, SyncLog, Opened
<1>2. UNCHANGED <<names, linked, log, closed, torn, manifest, strict, status, memVars, rot, flush, replayed,
                  history, crashes, flushErrors>>
  BY DEF SyncLog
<1>3. /\ IAcked' /\ acked' \subseteq SeqNums /\ waiting' \subseteq SeqNums
      /\ durable' \in [LogNums -> Nat] /\ Current \in LogNums
      /\ \A l \in LogNums : durable'[l] = IF l = Current THEN Len(log[l]) ELSE durable[l]
      /\ \A l \in LogNums : durable'[l] <= Len(log[l])
  BY <1>1, <1>2, SyncCurrent DEF SyncLog
<1>4. IType'
  BY <1>1, <1>2, <1>3 DEF IType, DiskType, MemType, RunType, CallerType
<1>5. IPhase' /\ INumbers' /\ INames'
  BY <1>2, SamePhase, SameNumbers, SameNames DEF IInv
<1>6. ILogs'
  <2>1. Kept' = Kept /\ Current' = Current /\ Opened' = Opened
    BY <1>2 DEF Kept, Current, Opened
  <2>2. \A l \in Kept : l \in LogNums
    BY DEF Kept
  <2> QED BY <1>2, <1>3, <2>1, <2>2 DEF IInv, ILogs
<1>7. IHistory' /\ IOrder' /\ IQueue' /\ ICovered' /\ IFlush'
  BY <1>2, SameBatch
<1> QED BY <1>3, <1>4, <1>5, <1>6, <1>7 DEF IInv

LEMMA PeekType ==
  ASSUME IInv
  PROVE  Peek = 0 \/ (Peek \in LogNums /\ Peek < manifest.min /\ recycler.logNums # <<>>)
<1>1. recycler.logNums \in Seq(LogNums)
  BY RecordTypes DEF IInv
<1>2. recycler.logNums # <<>> => Peek \in ToSet(recycler.logNums) /\ Peek \in LogNums
  <2> HIDE DEF LogNums
  <2> QED BY <1>1, ToSetTail DEF Peek
<1> QED BY <1>2 DEF Peek, IInv, INumbers

LEMMA CreateLogStep == IInv /\ CreateLog => IInv'
<1> SUFFICES ASSUME IInv, CreateLog PROVE IInv'
  OBVIOUS
<1> DEFINE p == Peek
           c == Current
<1>1. IType /\ IPhase /\ status = "up" /\ rot \in RotType /\ rot.pc = "create" /\ Opened /\ Rotating
      /\ logQueue # <<>>
  BY DEF IInv, CreateLog, IPhase, IType, RunType, Opened, Rotating
<1>2. /\ names' = (names \ {p}) \union {rot.new}
      /\ log' = [l \in LogNums |-> IF l = p THEN <<>> ELSE log[l]]
      /\ durable' = [l \in LogNums |-> IF l = p THEN 0 ELSE durable[l]]
      /\ rot' = [rot EXCEPT !.pc = "dirsync", !.old = p]
      /\ UNCHANGED <<linked, closed, torn, manifest, strict, status, memVars, flush, replayed, history,
                     waiting, acked, crashes, flushErrors>>
  BY DEF CreateLog
<1> USE DEF memVars
<1>3. p = 0 \/ (p \in LogNums /\ p < manifest.min)
  BY PeekType
<1> HIDE DEF p
<1>4. p \in Nat /\ manifest.min \in Nat /\ (p = 0 \/ p < manifest.min)
  BY <1>1, <1>3, RecordTypes, SMTT(60) DEF LogNums
<1>5. rot' \in RotType /\ rot'.pc = "dirsync" /\ rot'.batch = rot.batch /\ rot'.new = rot.new
  BY <1>1, <1>2, <1>4 DEF RotType
<1>6. c \in LogNums /\ c \in Nat /\ manifest.min <= c /\ c < rot.new /\ rot.new \in 0 .. MaxLogNum
      /\ rot.new \in Nat /\ nextFile \in Nat /\ rot.new < nextFile /\ Top = nextFile
  BY <1>1, CurrentType, RecordTypes, SMTT(60) DEF IInv, INumbers, IPhase, Top, Running
<1>7. c # p /\ rot.new \in LogNums /\ rot.new # p /\ c \in Kept
  BY <1>4, <1>6 DEF LogNums, Kept
<1>8. \A l \in Kept : l \in LogNums /\ l # p /\ log'[l] = log[l] /\ durable'[l] = durable[l]
  <2> SUFFICES ASSUME NEW l \in Kept PROVE l \in LogNums /\ l # p /\ log'[l] = log[l] /\ durable'[l] = durable[l]
    OBVIOUS
  <2>1. l \in LogNums /\ l >= manifest.min /\ l \in Nat /\ l > 0
    BY DEF Kept, LogNums
  <2>2. l # p
    BY <1>4, <2>1
  <2> QED BY <1>2, <2>1, <2>2
<1>9. Current' = c /\ Kept' = Kept /\ Opened' = Opened /\ Serving' = Serving /\ Running' = Running
      /\ (Large' <=> Large) /\ Pending' = Pending
      /\ \A i : (Flushed(i)' <=> Flushed(i)) /\ LogOf(i)' = LogOf(i)
  BY <1>2, <1>5 DEF Current, Kept, Opened, Serving, Running, Large, Pending, Flushed, LogOf, c
<1>10. IType'
  <2>1. log \in [LogNums -> Seq(SeqNums)] /\ durable \in [LogNums -> Nat] /\ names \subseteq LogNums
        /\ <<>> \in Seq(SeqNums)
    BY <1>1, EmptySeq DEF IType, DiskType
  <2>2. log' \in [LogNums -> Seq(SeqNums)] /\ durable' \in [LogNums -> Nat]
    <3> HIDE DEF LogNums, SeqNums
    <3> QED BY <1>2, <2>1
  <2>3. names' \subseteq LogNums
    BY <1>2, <1>7, <2>1
  <2> QED BY <1>1, <1>2, <1>5, <2>2, <2>3 DEF IType, DiskType, MemType, RunType, CallerType
<1>11. IPhase'
  BY <1>1, <1>2, <1>5 DEF IPhase, Opened, Running, Rotating
<1>12. INumbers'
  <2>1. \A l \in names' \union linked : l < nextFile
    BY <1>2, <1>6 DEF IInv, INumbers
  <2>2. Top' = Top
    BY <1>2 DEF Top, Running
  <2> QED BY <1>1, <1>2, <1>5, <1>6, <1>9, <2>1, <2>2 DEF IInv, INumbers, Rotating, c
<1>13. INames'
  <2>1. \A l \in linked : l \in names' \/ l < manifest.min
    <3> SUFFICES ASSUME NEW l \in linked PROVE l \in names' \/ l < manifest.min
      OBVIOUS
    <3>1. l \in names \/ l < manifest.min
      BY DEF IInv, INames
    <3>2. l \in LogNums
      BY <1>1 DEF IType, DiskType
    <3>3. l = p => l < manifest.min
      BY <1>4, <3>2 DEF LogNums
    <3> QED BY <1>2, <3>1, <3>3
  <2>2. c \in names' \intersect linked
    BY <1>1, <1>2, <1>7 DEF IInv, INames, c
  <2>3. \A l \in LogNums : log'[l] # <<>> => l < manifest.min \/ l \in names' \intersect linked
    <3> SUFFICES ASSUME NEW l \in LogNums, log'[l] # <<>> PROVE l < manifest.min \/ l \in names' \intersect linked
      OBVIOUS
    <3>1. l # p /\ log[l] # <<>>
      BY <1>2
    <3>2. l < manifest.min \/ l \in names \intersect linked
      BY <3>1 DEF IInv, INames
    <3> QED BY <1>2, <3>1, <3>2
  <2>4. rot'.new \in names'
    BY <1>2, <1>5
  <2> QED BY <1>1, <1>2, <1>5, <1>9, <2>1, <2>2, <2>3, <2>4 DEF INames
<1>14. ILogs'
  <2>1. \A l \in LogNums : durable'[l] <= Len(log'[l])
    <3> SUFFICES ASSUME NEW l \in LogNums PROVE durable'[l] <= Len(log'[l])
      OBVIOUS
    <3>1. CASE l = p
      BY <1>2, <3>1, EmptySeq
    <3>2. CASE l # p
      BY <1>2, <3>2 DEF IInv, ILogs
    <3> QED BY <3>1, <3>2
  <2>2. \A l \in LogNums : l > c => log'[l] = <<>>
    BY <1>1, <1>2 DEF IInv, ILogs, c
  <2>3. /\ \A l \in Kept : \A i, j \in DOMAIN log'[l] : i < j => log'[l][i] < log'[l][j]
        /\ \A l, k \in Kept : l < k => \A s \in ToSet(log'[l]), t \in ToSet(log'[k]) : s < t
    BY <1>8 DEF IInv, ILogs
  <2>4. /\ \A l, k \in Kept : l < k /\ log'[k] # <<>> => durable'[l] = Len(log'[l])
        /\ \A l \in Kept : l < c => durable'[l] = Len(log'[l])
        /\ durable'[c] = Len(log'[c])
    BY <1>1, <1>7, <1>8 DEF IInv, ILogs, c
  <2> QED BY <1>1, <1>2, <1>5, <1>9, <2>1, <2>2, <2>3, <2>4 DEF ILogs
<1>15. IHistory'
  <2>1. Logged' = Logged
    BY <1>8, <1>9 DEF Logged
  <2> QED BY <1>1, <1>2, <1>5, <1>9, <2>1 DEF IInv, IHistory
<1>16. IOrder' /\ IFlush'
  BY <1>2, <1>5, SameOrder, SameFlush DEF IInv
<1>17. IQueue'
  <2>1. \A i \in DOMAIN queue : ~Flushed(i) => LogOf(i) \in Kept
    <3> SUFFICES ASSUME NEW i \in DOMAIN queue, ~Flushed(i) PROVE LogOf(i) \in Kept
      OBVIOUS
    <3>1. LogOf(i) \in LogNums
      BY <1>1, LogOfType, QueueTypes
    <3>2. LogOf(i) >= manifest.min
      BY <1>1 DEF IInv, IQueue
    <3> QED BY <3>1, <3>2 DEF Kept
  <2> QED BY <1>1, <1>2, <1>5, <1>7, <1>8, <1>9, <2>1 DEF IInv, IQueue, c
<1>18. ICovered'
  BY <1>2, <1>5, <1>8, <1>9, ZenonT(60) DEF IInv, ICovered, c
<1>19. IAcked'
  BY <1>2, <1>8, <1>9, SMTT(60) DEF IInv, IAcked
<1> QED BY <1>10, <1>11, <1>12, <1>13, <1>14, <1>15, <1>16, <1>17, <1>18, <1>19 DEF IInv

LEMMA SyncDirStep == IInv /\ SyncDir => IInv'
<1> SUFFICES ASSUME IInv, SyncDir PROVE IInv'
  OBVIOUS
<1>1. IType /\ IPhase /\ status = "up" /\ rot \in RotType /\ rot.pc = "dirsync" /\ Rotating
  BY DEF IInv, SyncDir, IPhase, IType, RunType, Rotating
<1>2. /\ linked' = names
      /\ UNCHANGED <<names, log, durable, closed, torn, manifest, strict, status, logSeqNum, nextFile, minLog,
                     queue, nextSize, logQueue, flush, replayed, history, waiting, acked, crashes, flushErrors>>
  BY DEF SyncDir
<1>3. rot' \in RotType /\ rot'.pc = "install" /\ rot'.batch = rot.batch /\ rot'.new = rot.new
  BY <1>1 DEF SyncDir, RotType
<1>4. recycler' \in RecyclerType /\ ToSet(recycler'.logNums) \subseteq ToSet(recycler.logNums)
  <2>1. recycler \in RecyclerType /\ recycler.logNums \in Seq(LogNums) /\ rot.old \in Nat
    BY <1>1, RecordTypes DEF IType, MemType
  <2>2. CASE rot.old > 0
    <3>1. recycler.logNums # <<>> /\ recycler' = [recycler EXCEPT !.logNums = Tail(@)]
      BY <2>1, <2>2 DEF SyncDir, Peek
    <3> DEFINE t == Tail(recycler.logNums)
    <3>2. t \in Seq(LogNums) /\ ToSet(t) \subseteq ToSet(recycler.logNums)
      <4> HIDE DEF LogNums
      <4> QED BY <2>1, <3>1, ToSetTail
    <3>3. recycler' = [recycler EXCEPT !.logNums = t]
      BY <3>1
    <3> HIDE DEF t
    <3>4. recycler' \in RecyclerType /\ recycler'.logNums = t
      BY <2>1, <3>2, <3>3 DEF RecyclerType
    <3> QED BY <3>2, <3>4
  <2>3. CASE rot.old = 0
    BY <2>1, <2>3 DEF SyncDir
  <2> QED BY <2>1, <2>2, <2>3
<1>5. IType'
  BY <1>1, <1>2, <1>3, <1>4 DEF IType, DiskType, MemType, RunType, CallerType
<1>6. IPhase'
  BY <1>1, <1>2, <1>3 DEF IPhase, Opened, Running, Rotating
<1>7. INumbers'
  BY <1>1, <1>2, <1>3, <1>4 DEF IInv, INumbers, Opened, Running, Rotating, Top, Current
<1>8. INames'
  BY <1>1, <1>2, <1>3 DEF IInv, INames, Current
<1>9. ILogs'
  BY <1>1, <1>2, <1>3 DEF IInv, ILogs, Current, Kept, Opened
<1>10. IHistory' /\ IOrder' /\ IQueue' /\ ICovered' /\ IFlush'
  BY <1>2, <1>3, SameBatch
<1>11. IAcked'
  BY <1>2, SameAcked DEF IInv
<1> QED BY <1>5, <1>6, <1>7, <1>8, <1>9, <1>10, <1>11 DEF IInv

LEMMA RampType ==
  ASSUME NEW size \in Nat
  PROVE  Ramp(size) \in Nat
<1> DEFINE S == {2 * size, MemTableSize}
<1>1. S \subseteq Nat /\ S # {}
  OBVIOUS
<1>2. Ramp(size) = Min(S)
  BY DEF Ramp
<1> HIDE DEF S
<1>3. Min(S) \in S
  BY <1>1, MinNat
<1> QED BY <1>1, <1>2, <1>3

LEMMA AppendOne ==
  ASSUME NEW S, NEW q \in Seq(S), NEW b \in S
  PROVE  /\ q \o <<>> \o <<b>> \in Seq(S) /\ Len(q \o <<>> \o <<b>>) = Len(q) + 1
         /\ \A i \in 1 .. Len(q) : (q \o <<>> \o <<b>>)[i] = q[i]
         /\ (q \o <<>> \o <<b>>)[Len(q) + 1] = b
<1>1. q \o <<>> = q
  BY ConcatEmptySeq
<1>2. q \o <<b>> = Append(q, b)
  BY AppendIsConcat
<1> QED BY <1>1, <1>2, AppendProperties

(* The memtable is followed by the large batch, if there is one, and by the new memtable. *)
LEMMA RotatedShape ==
  ASSUME IInv, rot.pc = "install", NEW size \in Nat
  PROVE  LET n == Len(queue)
             s == rot.batch.seqNum
             q == Rotated(size)
             m == IF Large THEN n + 2 ELSE n + 1
         IN /\ q \in Seq(EntryType) /\ Len(q) = m /\ DOMAIN q = 1 .. m
            /\ \A i \in 1 .. n : q[i].seqNums = queue[i].seqNums /\ q[i].base = queue[i].base
            /\ \A i \in 1 .. n : i # n => q[i].logNum = queue[i].logNum
            /\ q[n].logNum = IF Large THEN 0 ELSE queue[n].logNum
            /\ Large => q[n + 1].seqNums = {s} /\ q[n + 1].logNum = queue[n].logNum /\ q[n + 1].base = s
            /\ q[m].seqNums = {} /\ q[m].logNum = rot.new
            /\ q[m].base = IF s = 0 THEN logSeqNum ELSE IF Large THEN s + 1 ELSE s
<1> DEFINE n == Len(queue)
           s == rot.batch.seqNum
           b == rot.batch
           imm == [queue[n] EXCEPT !.forced = @ \/ s = 0, !.logNum = IF Large THEN 0 ELSE @]
           base == IF s = 0 THEN logSeqNum ELSE IF Large THEN s + 1 ELSE s
           batch == Entry("batch", queue[n].logNum, s, b.size, {s})
           mem == Entry("memtable", rot.new, base, size, {})
           q0 == [queue EXCEPT ![n] = imm]
<1>1. IType /\ queue # <<>> /\ queue \in Seq(EntryType)
  BY DEF IInv, IPhase, Running, IType, MemType
<1>2. n \in Nat /\ n > 0 /\ n \in 1 .. n /\ queue[n] \in EntryType /\ queue[n].logNum \in 0 .. MaxLogNum
  BY <1>1, QueueTypes
<1>3. s \in Nat /\ s \in 0 .. MaxSeqNum /\ b.size \in Nat /\ rot.new \in 0 .. MaxLogNum /\ logSeqNum \in Nat
  BY <1>1, RecordTypes
<1>4. imm \in EntryType /\ imm.seqNums = queue[n].seqNums /\ imm.base = queue[n].base
      /\ imm.logNum = IF Large THEN 0 ELSE queue[n].logNum
  <2> DEFINE f == (queue[n].forced \/ s = 0)
             z == IF Large THEN 0 ELSE queue[n].logNum
  <2>1. f \in BOOLEAN /\ z \in 0 .. MaxLogNum
    BY <1>2
  <2>2. imm = [queue[n] EXCEPT !.forced = f, !.logNum = z]
    OBVIOUS
  <2> HIDE DEF f, z, imm
  <2>3. imm \in EntryType /\ imm.seqNums = queue[n].seqNums /\ imm.base = queue[n].base /\ imm.logNum = z
    BY <1>2, <2>1, <2>2 DEF EntryType
  <2> QED BY <2>3 DEF z
<1>5. base \in Nat
  BY <1>3
<1>6. mem \in EntryType /\ mem.seqNums = {} /\ mem.logNum = rot.new /\ mem.base = base
  <2> HIDE DEF base
  <2> QED BY <1>3, <1>5 DEF Entry, EntryType
<1>7. Large => batch \in EntryType /\ batch.seqNums = {s} /\ batch.logNum = queue[n].logNum /\ batch.base = s
  <2> SUFFICES ASSUME Large
               PROVE  batch \in EntryType /\ batch.seqNums = {s} /\ batch.logNum = queue[n].logNum /\ batch.base = s
    OBVIOUS
  <2>1. s \in SeqNums
    BY <1>3 DEF Large, SeqNums
  <2>2. {s} \in SUBSET SeqNums
    BY <2>1
  <2> HIDE DEF s, n
  <2> QED BY <1>2, <1>3, <2>2 DEF Entry, EntryType
<1> DEFINE r == Rotated(size)
<1>8. Large => r = q0 \o <<batch>> \o <<mem>>
  BY DEF Rotated, Large
<1>9. ~Large => r = q0 \o <<>> \o <<mem>>
  <2> SUFFICES ASSUME ~Large PROVE r = q0 \o <<>> \o <<mem>>
    OBVIOUS
  <2>1. CASE s = 0
    <3>1. b.size = 0
      BY <2>1 DEF IInv, IPhase
    <3> QED BY <2>1, <3>1 DEF Rotated
  <2>2. CASE s > 0
    BY <2>2, <1>3 DEF Rotated, Large
  <2> QED BY <1>3, <2>1, <2>2, SMTT(60)
<1> HIDE DEF imm, batch, mem, base
<1>10. /\ q0 \in Seq(EntryType) /\ Len(q0) = n
       /\ \A i \in 1 .. n : q0[i] = IF i = n THEN imm ELSE queue[i]
  <2> HIDE DEF EntryType
  <2> QED BY <1>1, <1>2, <1>4, ExceptSeq
<1> HIDE DEF q0, r, n, s
<1>11. CASE Large
  <2>1. /\ r \in Seq(EntryType) /\ Len(r) = n + 2
        /\ \A i \in 1 .. n : r[i] = q0[i]
        /\ r[n + 1] = batch /\ r[n + 2] = mem
    <3>1. batch \in EntryType /\ mem \in EntryType /\ q0 \in Seq(EntryType) /\ Len(q0) = n
      BY <1>6, <1>7, <1>10, <1>11
    <3>2. r = q0 \o <<batch>> \o <<mem>>
      BY <1>8, <1>11
    <3> HIDE DEF EntryType
    <3> DEFINE q1 == Append(q0, batch)
    <3>3. q0 \o <<batch>> = q1
      BY <3>1, AppendIsConcat
    <3>4. /\ q1 \in Seq(EntryType) /\ Len(q1) = n + 1 /\ q1[n + 1] = batch
          /\ \A i \in 1 .. n : q1[i] = q0[i]
      BY <3>1, AppendProperties
    <3>5. r = q1 \o <<mem>>
      BY <3>2, <3>3
    <3> HIDE DEF q1
    <3>6. r = Append(q1, mem)
      BY <3>1, <3>4, <3>5, AppendIsConcat
    <3>7. /\ r \in Seq(EntryType) /\ Len(r) = n + 1 + 1 /\ r[n + 1 + 1] = mem
          /\ \A i \in 1 .. n + 1 : r[i] = q1[i]
      BY <3>1, <3>4, <3>6, AppendProperties
    <3> QED BY <1>2, <3>4, <3>7
  <2>2. DOMAIN r = 1 .. n + 2
    <3> HIDE DEF EntryType
    <3> QED BY <2>1, LenProperties
  <2> QED BY <1>2, <1>4, <1>6, <1>7, <1>10, <1>11, <2>1, <2>2 DEF r, n, s, base
<1>12. CASE ~Large
  <2>1. /\ r \in Seq(EntryType) /\ Len(r) = n + 1
        /\ \A i \in 1 .. n : r[i] = q0[i]
        /\ r[n + 1] = mem
    <3> HIDE DEF EntryType
    <3> QED BY <1>6, <1>9, <1>10, <1>12, AppendOne
  <2>2. DOMAIN r = 1 .. n + 1
    <3> HIDE DEF EntryType
    <3> QED BY <2>1, LenProperties
  <2> QED BY <1>2, <1>4, <1>6, <1>10, <1>12, <2>1, <2>2 DEF r, n, s, base
<1> QED BY <1>11, <1>12

LEMMA InstallStep == IInv /\ Install => IInv'
<1> SUFFICES ASSUME IInv, Install PROVE IInv'
  OBVIOUS
<1> DEFINE n == Len(queue)
           s == rot.batch.seqNum
           c == Current
           m == IF Large THEN n + 2 ELSE n + 1
<1>1. IType /\ IPhase /\ status = "up" /\ rot.pc = "install" /\ Opened /\ Serving /\ Running /\ Rotating
      /\ logQueue # <<>> /\ queue # <<>> /\ rot \in RotType
  BY DEF IInv, Install, IPhase, IType, RunType, Opened, Serving, Running, Rotating
<1>2. n \in Nat /\ n > 0 /\ n \in 1 .. n /\ DOMAIN queue = 1 .. n /\ Last(queue) = queue[n]
      /\ \A i \in 1 .. n : queue[i].logNum \in Nat /\ queue[i].base \in Nat /\ queue[i].seqNums \subseteq SeqNums
                           /\ queue[i].size \in Nat
  BY <1>1, QueueTypes
<1>3. PICK size \in IF s = 0 THEN {nextSize, Last(queue).size} ELSE {nextSize} :
        /\ queue' = Rotated(size)
        /\ nextSize' = Ramp(size)
        /\ flush' = IF Last(queue).refs = {} THEN MaybeScheduleFlush(Rotated(size), flush) ELSE flush
  BY DEF Install
<1>4. size \in Nat /\ nextSize' \in Nat
  <2>1. nextSize \in Nat
    BY <1>1 DEF IType, MemType
  <2>2. size \in Nat
    BY <1>2, <1>3, <2>1
  <2> QED BY <1>3, <2>2, RampType
<1>5. /\ queue' \in Seq(EntryType) /\ Len(queue') = m /\ DOMAIN queue' = 1 .. m
      /\ \A i \in 1 .. n : queue'[i].seqNums = queue[i].seqNums /\ queue'[i].base = queue[i].base
      /\ \A i \in 1 .. n : i # n => queue'[i].logNum = queue[i].logNum
      /\ queue'[n].logNum = IF Large THEN 0 ELSE queue[n].logNum
      /\ Large => queue'[n + 1].seqNums = {s} /\ queue'[n + 1].logNum = queue[n].logNum /\ queue'[n + 1].base = s
      /\ queue'[m].seqNums = {} /\ queue'[m].logNum = rot.new
      /\ queue'[m].base = IF s = 0 THEN logSeqNum ELSE IF Large THEN s + 1 ELSE s
  BY <1>1, <1>3, <1>4, RotatedShape
<1>6. flush' = flush \/ (flush.pc = "idle" /\ Rests(flush'))
  BY <1>3, ScheduledRests
<1>7. logQueue' = Append(logQueue, rot.new)
      /\ rot' = (IF Small THEN [rot EXCEPT !.pc = "room", !.new = 0, !.old = 0] ELSE Idle)
      /\ UNCHANGED <<diskVars, status, logSeqNum, nextFile, minLog, recycler, replayed, history, waiting,
                     acked, crashes, flushErrors>>
  BY DEF Install
<1> USE DEF diskVars
<1>8. s \in Nat /\ rot.new \in Nat /\ rot.batch.size \in Nat /\ manifest.min \in Nat /\ logSeqNum \in Nat
      /\ rot.new \in 0 .. MaxLogNum /\ nextFile \in Nat
  BY <1>1, RecordTypes
<1>9. c \in LogNums /\ c \in Nat /\ c > 0 /\ manifest.min <= c /\ c < rot.new /\ rot.new + 1 = nextFile
      /\ queue[n].logNum = c
  BY <1>1, CurrentType DEF IInv, INumbers, IPhase, IQueue, LogNums
<1>10. rot.new \in LogNums
  BY <1>8, <1>9 DEF LogNums
<1>11. logQueue' \in Seq(LogNums) /\ logQueue' # <<>> /\ Current' = rot.new
  <2>1. logQueue \in Seq(LogNums)
    BY <1>1 DEF IType, MemType
  <2> HIDE DEF LogNums
  <2> QED BY <1>7, <1>10, <2>1, AppendProperties, LastAppend DEF Current
<1>12. /\ rot' \in RotType /\ rot'.pc \in {"idle", "room"} /\ (rot'.pc = "idle" => rot' = Idle)
       /\ IF s > 0 /\ ~Large THEN rot'.batch = rot.batch ELSE rot'.batch.seqNum = 0 /\ rot'.batch.size = 0
  <2>1. Small <=> s > 0 /\ ~Large
    BY <1>8 DEF Small, Large
  <2>2. CASE Small
    <3>1. rot' = [rot EXCEPT !.pc = "room", !.new = 0, !.old = 0]
      BY <1>7, <2>2
    <3>2. rot' \in RotType /\ rot'.pc = "room" /\ rot'.batch = rot.batch
      <4>1. rot \in RotType /\ 0 \in 0 .. MaxLogNum
        BY <1>1
      <4> QED BY <3>1, <4>1 DEF RotType
    <3> QED BY <2>1, <2>2, <3>2
  <2>3. CASE ~Small
    BY <1>7, <2>1, <2>3, IdleRecord
  <2> QED BY <2>2, <2>3
<1>13. ~Large' /\ Pending' = (IF Large THEN s + 1 ELSE Pending) /\ Pending' \in Nat
       /\ (Large => Pending = s /\ s > 0 /\ s + 1 = logSeqNum)
  BY <1>1, <1>7, <1>8, <1>12, SMTT(60) DEF Large, Pending, IPhase
<1> HIDE DEF n, s, c, m
<1>14. m \in Nat /\ n < m /\ m \in 1 .. m /\ (Large => m = n + 2) /\ (~Large => m = n + 1)
       /\ \A i \in 1 .. n : i \in 1 .. m
  BY <1>2 DEF m
<1>15. \A i \in 1 .. m : i \in 1 .. n \/ (Large /\ i = n + 1) \/ i = m
  <2>1. CASE Large
    BY <1>2, <1>14, <2>1
  <2>2. CASE ~Large
    BY <1>2, <1>14, <2>2
  <2> QED BY <2>1, <2>2
<1>16. IType'
  <2>1. flush' \in FlushType
    BY <1>1, <1>6 DEF IType, RunType, Rests
  <2> QED BY <1>1, <1>4, <1>5, <1>7, <1>11, <1>12, <2>1 DEF IType, DiskType, MemType, RunType, CallerType
<1>17. queue' # <<>>
  BY <1>5, <1>14, EmptySeq
<1>18. IPhase'
  <2>1. rot'.batch.seqNum > 0 => rot'.batch.seqNum + 1 = logSeqNum
    BY <1>1, <1>12 DEF IPhase, s
  <2>2. rot'.batch.seqNum = 0 => rot'.batch.size = 0
    BY <1>1, <1>12 DEF IPhase, s
  <2> QED BY <1>1, <1>7, <1>11, <1>12, <1>17, <2>1, <2>2 DEF IPhase, Opened, Running, Rotating
<1>19. INumbers'
  <2>1. manifest.min <= rot.new /\ rot.new < nextFile
    BY <1>8, <1>9
  <2>2. \A l \in ToSet(recycler.logNums) \union ToSet(flush'.delete) : l < manifest.min
    BY <1>6, ToSetEmpty DEF IInv, INumbers, Rests
  <2>3. flush.pc = "install" <=> flush'.pc = "install"
    BY <1>6 DEF Rests
  <2>4. flush'.pc = "write" => flush' = flush
    BY <1>6 DEF Rests
  <2>5. flush'.pc = "install" => flush'.min = flush.min
    BY <1>6 DEF Rests
  <2> QED BY <1>1, <1>7, <1>11, <1>12, <2>1, <2>2, <2>3, <2>4, <2>5 DEF IInv, INumbers, Opened, Running, Rotating, Top
<1>20. INames'
  BY <1>1, <1>7, <1>11, <1>12 DEF IInv, INames
<1>21. Kept' = Kept /\ Opened' /\ Serving' /\ Running'
  BY <1>1, <1>7 DEF Kept, Opened, Serving, Running
<1>22. ILogs'
  <2>1. \A l \in Kept : l < rot.new => durable[l] = Len(log[l])
    <3> SUFFICES ASSUME NEW l \in Kept, l < rot.new PROVE durable[l] = Len(log[l])
      OBVIOUS
    <3>1. l \in LogNums /\ l \in Nat
      BY DEF Kept, LogNums
    <3>2. CASE l < c
      BY <1>1, <3>2 DEF IInv, ILogs, c
    <3>3. CASE l = c
      BY <1>1, <3>3 DEF IInv, ILogs, c
    <3>4. CASE l > c
      <4>1. log[l] = <<>> /\ durable[l] <= Len(log[l])
        BY <1>1, <3>1, <3>4 DEF IInv, ILogs, c
      <4>2. Len(log[l]) = 0 /\ durable[l] \in Nat
        BY <1>1, <3>1, <4>1, LogTypes
      <4> QED BY <4>1, <4>2
    <3> QED BY <1>9, <3>1, <3>2, <3>3, <3>4
  <2>2. \A l \in LogNums : l > rot.new => log[l] = <<>>
    <3> SUFFICES ASSUME NEW l \in LogNums, l > rot.new PROVE log[l] = <<>>
      OBVIOUS
    <3>1. l > c
      BY <1>8, <1>9 DEF LogNums
    <3> QED BY <1>1, <3>1 DEF IInv, ILogs, c
  <2> QED BY <1>1, <1>7, <1>11, <1>12, <1>21, <2>1, <2>2 DEF IInv, ILogs
<1>23. IHistory'
  <2>1. \A x \in ToSet(history) : x < Pending'
    <3> SUFFICES ASSUME NEW x \in ToSet(history) PROVE x < Pending'
      OBVIOUS
    <3>1. x < Pending \/ (Large /\ x = s)
      BY <1>1 DEF IInv, IHistory, s
    <3>2. x \in Nat
      <4>1. history \in Seq(SeqNums)
        BY <1>1 DEF IType, CallerType
      <4>2. ToSet(history) \subseteq SeqNums
        BY <4>1, ToSetMember
      <4> QED BY <4>2 DEF SeqNums
    <3> QED BY <1>8, <1>13, <3>1, <3>2
  <2>2. Logged' = Logged
    BY <1>7, <1>21 DEF Logged
  <2> QED BY <1>1, <1>7, <1>21, <2>1, <2>2 DEF IInv, IHistory
<1>24. \A i \in 1 .. n : \A x \in queue[i].seqNums : queue[i].base <= x /\ x < Pending /\ x \in Nat
  <2>1. \A i \in 1 .. n : \A x \in queue[i].seqNums : queue[i].base <= x /\ x < Pending
    BY <1>2 DEF IInv, IOrder
  <2> QED BY <1>2, <2>1 DEF SeqNums
<1>25. IOrder'
  <2>1. \A i \in 1 .. m : \A x \in queue'[i].seqNums : queue'[i].base <= x /\ x < Pending'
    <3> SUFFICES ASSUME NEW i \in 1 .. m, NEW x \in queue'[i].seqNums PROVE queue'[i].base <= x /\ x < Pending'
      OBVIOUS
    <3>1. CASE i \in 1 .. n
      <4>1. queue[i].base <= x /\ x < Pending /\ x \in Nat /\ queue'[i].base = queue[i].base
        BY <1>5, <1>24, <3>1
      <4> QED BY <1>8, <1>13, <4>1
    <3>2. CASE Large /\ i = n + 1
      BY <1>5, <1>8, <1>13, <3>2
    <3>3. CASE i = m
      BY <1>5, <3>3
    <3> QED BY <1>15, <3>1, <3>2, <3>3
  <2>2. queue'[m].base <= Pending'
    BY <1>5, <1>8, <1>12, <1>13, <1>7, SMTT(60) DEF Pending, Large, s
  <2>3. \A i, j \in 1 .. m : i < j => \A x \in queue'[i].seqNums, y \in queue'[j].seqNums : x < y
    <3> SUFFICES ASSUME NEW i \in 1 .. m, NEW j \in 1 .. m, i < j,
                        NEW x \in queue'[i].seqNums, NEW y \in queue'[j].seqNums
                 PROVE  x < y
      OBVIOUS
    <3>1. j # m
      BY <1>5
    <3>2. CASE j \in 1 .. n
      <4>1. i \in 1 .. n
        BY <1>2, <3>2
      <4>2. x \in queue[i].seqNums /\ y \in queue[j].seqNums
        BY <1>5, <3>2, <4>1
      <4> QED BY <1>2, <3>2, <4>1, <4>2 DEF IInv, IOrder
    <3>3. CASE Large /\ j = n + 1
      <4>1. i \in 1 .. n
        BY <1>2, <3>3
      <4>2. x \in queue[i].seqNums /\ y = s
        BY <1>5, <3>3, <4>1
      <4> QED BY <1>13, <1>24, <3>3, <4>1, <4>2
    <3> QED BY <1>15, <3>1, <3>2, <3>3
  <2> QED BY <1>5, <2>1, <2>2, <2>3 DEF IOrder
<1>26. \A i \in 1 .. n : /\ LogOf(i) \in LogNums /\ LogOf(i) <= c
                         /\ queue[i].logNum = 0 => i + 1 \in 1 .. n - 1 /\ queue[i + 1].logNum > 0
  BY <1>1, LogOfType DEF n, c
<1>27. /\ \A i \in 1 .. n : LogOf(i)' = LogOf(i)
       /\ LogOf(n) = c
       /\ \A i \in 1 .. m : Large /\ i = n + 1 => LogOf(i)' = c
       /\ \A i \in 1 .. m : i = m => LogOf(i)' = rot.new
  <2>1. LogOf(n) = c
    BY <1>9 DEF LogOf
  <2>2. ASSUME NEW i \in 1 .. m, Large, i = n + 1 PROVE LogOf(i)' = c
    <3>1. queue'[i].logNum = c
      BY <1>5, <1>9, <2>2
    <3> QED BY <1>9, <3>1 DEF LogOf
  <2>3. ASSUME NEW i \in 1 .. m, i = m PROVE LogOf(i)' = rot.new
    <3>1. queue'[i].logNum = rot.new /\ rot.new > 0
      BY <1>5, <1>8, <1>9, <2>3
    <3> QED BY <3>1 DEF LogOf
  <2>4. ASSUME NEW i \in 1 .. n PROVE LogOf(i)' = LogOf(i)
    <3>1. CASE i = n
      <4>1. CASE Large
        BY <1>5, <1>9, <2>1, <3>1, <4>1 DEF LogOf
      <4>2. CASE ~Large
        BY <1>5, <1>9, <2>1, <3>1, <4>2 DEF LogOf
      <4> QED BY <4>1, <4>2
    <3>2. CASE i # n
      <4>1. queue'[i].logNum = queue[i].logNum /\ queue[i].logNum \in Nat
        BY <1>2, <1>5, <3>2
      <4>2. CASE queue[i].logNum > 0
        BY <4>1, <4>2 DEF LogOf
      <4>3. CASE queue[i].logNum = 0
        <5>1. i + 1 \in 1 .. n /\ i + 1 # n
          BY <1>2, <1>26, <4>3
        <5>2. queue'[i + 1].logNum = queue[i + 1].logNum
          BY <1>5, <5>1
        <5> QED BY <4>1, <4>3, <5>2 DEF LogOf
      <4> QED BY <4>1, <4>2, <4>3
    <3> QED BY <3>1, <3>2
  <2> QED BY <2>1, <2>2, <2>3, <2>4
<1>28. \A i \in 1 .. n : Flushed(i)' <=> Flushed(i)
  BY <1>6 DEF Flushed, Rests
<1>29. \A i \in 1 .. m : i > n => ~Flushed(i)'
  <2>1. flush.n \in Nat /\ (flush.pc = "install" => flush.n < n)
    BY <1>1, RecordTypes DEF IInv, IFlush, n
  <2>2. flush'.pc = "install" => flush' = flush
    BY <1>6 DEF Rests
  <2> QED BY <1>2, <2>1, <2>2 DEF Flushed
<1>30. \A i \in 1 .. n : queue[i].logNum <= c
  <2> SUFFICES ASSUME NEW i \in 1 .. n PROVE queue[i].logNum <= c
    OBVIOUS
  <2>1. queue[i].logNum \in Nat
    BY <1>2
  <2>2. queue[i].logNum > 0 => LogOf(i) = queue[i].logNum
    BY DEF LogOf
  <2> QED BY <1>9, <1>26, <2>1, <2>2
<1>31. IQueue'
  <2>1. \A i \in 1 .. m : queue'[i].logNum = 0 => i + 1 < m /\ queue'[i + 1].logNum > 0
    <3> SUFFICES ASSUME NEW i \in 1 .. m, queue'[i].logNum = 0 PROVE i + 1 < m /\ queue'[i + 1].logNum > 0
      OBVIOUS
    <3>1. i # m /\ ~(Large /\ i = n + 1)
      BY <1>5, <1>8, <1>9
    <3>2. i \in 1 .. n
      BY <1>15, <3>1
    <3>3. CASE i = n
      BY <1>2, <1>5, <1>9, <1>14, <3>3
    <3>4. CASE i # n
      <4>1. queue[i].logNum = 0
        BY <1>5, <3>2, <3>4
      <4>2. i + 1 \in 1 .. n - 1 /\ queue[i + 1].logNum > 0
        BY <1>26, <3>2, <4>1
      <4>3. i + 1 \in 1 .. n /\ i + 1 # n /\ i + 1 < m
        BY <1>2, <1>14, <4>2
      <4> QED BY <1>5, <4>2, <4>3
    <3> QED BY <3>3, <3>4
  <2>2. \A i, j \in 1 .. m : i < j /\ queue'[i].logNum > 0 /\ queue'[j].logNum > 0 =>
           queue'[i].logNum < queue'[j].logNum
    <3> SUFFICES ASSUME NEW i \in 1 .. m, NEW j \in 1 .. m, i < j, queue'[i].logNum > 0, queue'[j].logNum > 0
                 PROVE  queue'[i].logNum < queue'[j].logNum
      OBVIOUS
    <3>1. i # m
      BY <1>14
    <3>2. CASE j \in 1 .. n
      <4>1. i \in 1 .. n /\ i # n
        BY <1>2, <3>2
      <4>2. queue'[i].logNum = queue[i].logNum /\ (queue'[j].logNum = queue[j].logNum)
        BY <1>5, <3>2, <4>1
      <4> QED BY <1>2, <3>2, <4>1, <4>2 DEF IInv, IQueue
    <3>3. CASE Large /\ j = n + 1
      <4>1. i \in 1 .. n
        BY <1>2, <3>3
      <4>2. i # n
        BY <1>5, <3>3
      <4>3. queue'[i].logNum = queue[i].logNum /\ queue'[j].logNum = queue[n].logNum /\ i < n
        BY <1>2, <1>5, <3>3, <4>1, <4>2
      <4>4. queue[i].logNum > 0 /\ queue[n].logNum > 0
        BY <4>3
      <4>5. queue[i].logNum < queue[n].logNum
        BY <1>2, <4>1, <4>3, <4>4 DEF IInv, IQueue
      <4> QED BY <4>3, <4>5
    <3>4. CASE j = m
      <4>1. queue'[j].logNum = rot.new
        BY <1>5, <3>4
      <4>2. queue'[i].logNum <= c
        <5>1. CASE i \in 1 .. n
          BY <1>2, <1>5, <1>9, <1>30, <5>1
        <5>2. CASE Large /\ i = n + 1
          BY <1>5, <1>9, <5>2
        <5> QED BY <1>15, <3>1, <5>1, <5>2
      <4>3. queue'[i].logNum \in Nat
        <5>1. queue'[i] \in EntryType
          <6> HIDE DEF EntryType
          <6> QED BY <1>5, ElementOfSeq
        <5> QED BY <5>1 DEF EntryType
      <4> QED BY <1>8, <1>9, <4>1, <4>2, <4>3
    <3> QED BY <1>15, <3>2, <3>3, <3>4
  <2>3. \A i \in 1 .. n : IF Flushed(i) THEN queue[i].seqNums \subseteq manifest.tables
                          ELSE LogOf(i) >= manifest.min /\ queue[i].seqNums \subseteq ToSet(log[LogOf(i)])
    BY <1>1, <1>2 DEF IInv, IQueue
  <2>4. \A i \in 1 .. m : IF Flushed(i)' THEN queue'[i].seqNums \subseteq manifest.tables
                          ELSE LogOf(i)' >= manifest.min /\ queue'[i].seqNums \subseteq ToSet(log[LogOf(i)'])
    <3> SUFFICES ASSUME NEW i \in 1 .. m
                 PROVE  IF Flushed(i)' THEN queue'[i].seqNums \subseteq manifest.tables
                        ELSE LogOf(i)' >= manifest.min /\ queue'[i].seqNums \subseteq ToSet(log[LogOf(i)'])
      OBVIOUS
    <3>1. CASE i \in 1 .. n
      BY <1>5, <1>27, <1>28, <2>3, <3>1
    <3>2. CASE Large /\ i = n + 1
      <4>1. ~Flushed(i)'
        BY <1>2, <1>29, <3>2
      <4>2. s \in ToSet(log[c])
        BY <3>2 DEF IInv, IQueue, s, c
      <4>3. LogOf(i)' = c /\ queue'[i].seqNums = {s} /\ c >= manifest.min
        BY <1>5, <1>8, <1>9, <1>27, <3>2
      <4> QED BY <4>1, <4>2, <4>3
    <3>3. CASE i = m
      <4>1. ~Flushed(i)'
        BY <1>14, <1>29, <3>3
      <4>2. LogOf(i)' = rot.new /\ queue'[i].seqNums = {} /\ rot.new >= manifest.min
        BY <1>5, <1>8, <1>9, <1>27, <3>3
      <4> QED BY <4>1, <4>2
    <3> QED BY <1>15, <3>1, <3>2, <3>3
  <2> QED BY <1>5, <1>7, <1>11, <1>13, <2>1, <2>2, <2>4 DEF IQueue
<1>32. ICovered'
  <2>1. \A x \in ToSet(history) : x \in manifest.tables \/ \E i \in 1 .. m : x \in queue'[i].seqNums
    <3> SUFFICES ASSUME NEW x \in ToSet(history), x \notin manifest.tables
                 PROVE  \E i \in 1 .. m : x \in queue'[i].seqNums
      OBVIOUS
    <3>1. (\E i \in 1 .. n : x \in queue[i].seqNums) \/ (Large /\ x = s)
      BY <1>1, <1>2 DEF IInv, ICovered, s
    <3>2. CASE \E i \in 1 .. n : x \in queue[i].seqNums
      BY <1>5, <1>14, <3>2
    <3>3. CASE Large /\ x = s
      <4>1. n + 1 \in 1 .. m /\ x \in queue'[n + 1].seqNums
        BY <1>2, <1>5, <1>14, <3>3
      <4> QED BY <4>1
    <3> QED BY <3>1, <3>2, <3>3
  <2>2. \A l \in Kept : \A x \in ToSet(log[l]) :
          x \in manifest.tables \/ \E i \in 1 .. m : x \in queue'[i].seqNums /\ LogOf(i)' = l
    <3> SUFFICES ASSUME NEW l \in Kept, NEW x \in ToSet(log[l]), x \notin manifest.tables
                 PROVE  \E i \in 1 .. m : x \in queue'[i].seqNums /\ LogOf(i)' = l
      OBVIOUS
    <3>1. (\E i \in 1 .. n : x \in queue[i].seqNums /\ LogOf(i) = l) \/ (Large /\ x = s /\ l = c)
      BY <1>1, <1>2 DEF IInv, ICovered, s, c
    <3>2. CASE \E i \in 1 .. n : x \in queue[i].seqNums /\ LogOf(i) = l
      BY <1>5, <1>14, <1>27, <3>2
    <3>3. CASE Large /\ x = s /\ l = c
      <4>1. PICK i \in 1 .. m : i = n + 1
        BY <1>2, <1>14, <3>3
      <4>2. x \in queue'[i].seqNums /\ LogOf(i)' = l
        BY <1>5, <1>27, <3>3, <4>1
      <4> QED BY <4>2
    <3> QED BY <3>1, <3>2, <3>3
  <2> QED BY <1>5, <1>7, <1>21, <2>1, <2>2 DEF ICovered
<1>33. IFlush'
  <2>1. CASE flush' = flush
    <3>1. flush.pc \in {"run", "log", "write", "install"} =>
             /\ flush.n > 0 /\ flush.n < n /\ flush.min > 0 /\ minLog <= flush.min /\ flush.min <= c
             /\ \A i \in 1 .. n : i > flush.n /\ queue[i].logNum > 0 => queue[i].logNum >= flush.min
      BY <1>2 DEF IInv, IFlush, n, c
    <3>2. flush.n \in Nat /\ flush.min \in Nat
      BY <1>1, RecordTypes
    <3>3. ASSUME flush.pc \in {"run", "log", "write", "install"}
          PROVE  /\ flush.n < m /\ flush.min <= rot.new
                 /\ \A i \in 1 .. m : i > flush.n /\ queue'[i].logNum > 0 => queue'[i].logNum >= flush.min
      <4>1. flush.n < m /\ flush.min <= rot.new
        BY <1>2, <1>8, <1>9, <1>14, <3>1, <3>2, <3>3
      <4>2. ASSUME NEW i \in 1 .. m, i > flush.n, queue'[i].logNum > 0 PROVE queue'[i].logNum >= flush.min
        <5>1. CASE i \in 1 .. n
          <6>1. queue'[i].logNum = queue[i].logNum
            BY <1>5, <4>2, <5>1
          <6> QED BY <3>1, <3>3, <4>2, <5>1, <6>1
        <5>2. CASE Large /\ i = n + 1
          <6>1. queue'[i].logNum = c
            BY <1>5, <1>9, <5>2
          <6> QED BY <1>9, <3>1, <3>2, <3>3, <6>1
        <5>3. CASE i = m
          <6>1. queue'[i].logNum = rot.new
            BY <1>5, <5>3
          <6> QED BY <1>8, <3>2, <4>1, <6>1
        <5> QED BY <1>15, <5>1, <5>2, <5>3
      <4> QED BY <4>1, <4>2
    <3>4. ASSUME flush.pc = "write" PROVE \A i \in 1 .. flush.n : queue'[i].seqNums = queue[i].seqNums
      <4>1. \A i \in 1 .. flush.n : i \in 1 .. n
        BY <1>2, <3>1, <3>2, <3>4
      <4> QED BY <1>5, <4>1
    <3> QED BY <1>5, <1>7, <1>11, <2>1, <3>1, <3>3, <3>4 DEF IInv, IFlush
  <2>2. CASE Rests(flush')
    BY <2>2 DEF IFlush, Rests
  <2> QED BY <1>6, <2>1, <2>2
<1>34. IAcked'
  BY <1>7, SameAcked DEF IInv
<1> QED BY <1>16, <1>18, <1>19, <1>20, <1>22, <1>23, <1>25, <1>31, <1>32, <1>33, <1>34 DEF IInv


-----------------------------------------------------------------------------
(* The version edit of a flush.                                            *)

(* What a flush leaves in the queue is logged at or above its minimum. *)
LEMMA LeftLogs ==
  ASSUME IInv, flush.pc \in {"write", "install"}
  PROVE  \A i \in 1 .. Len(queue) : i > flush.n => LogOf(i) >= flush.min
<1> SUFFICES ASSUME NEW i \in 1 .. Len(queue), i > flush.n PROVE LogOf(i) >= flush.min
  OBVIOUS
<1>1. IType /\ Opened /\ flush.n \in Nat
  BY RecordTypes DEF IInv, IPhase, Opened
<1>2. Len(queue) \in Nat /\ DOMAIN queue = 1 .. Len(queue) /\ queue[i].logNum \in Nat
  BY <1>1, QueueTypes
<1>3. \A j \in 1 .. Len(queue) : j > flush.n /\ queue[j].logNum > 0 => queue[j].logNum >= flush.min
  BY <1>2 DEF IInv, IFlush
<1>4. CASE queue[i].logNum > 0
  BY <1>3, <1>4 DEF LogOf
<1>5. CASE queue[i].logNum = 0
  <2>1. i + 1 \in 1 .. Len(queue) - 1 /\ queue[i + 1].logNum > 0
    BY <1>1, <1>5, LogOfType
  <2>2. i + 1 \in 1 .. Len(queue) /\ i + 1 > flush.n
    BY <1>1, <1>2, <2>1
  <2> QED BY <1>3, <1>5, <2>1, <2>2 DEF LogOf
<1> QED BY <1>2, <1>4, <1>5

LEMMA LogEditStep == IInv /\ LogEdit => IInv'
<1> SUFFICES ASSUME IInv, LogEdit PROVE IInv'
  OBVIOUS
<1> DEFINE n == flush.n
           c == Current
           N == UNION {queue[i].seqNums : i \in 1 .. n}
           T == manifest.tables \union N
           K == {l \in LogNums : l >= flush.min}
<1>1. IType /\ IPhase /\ flush.pc = "write" /\ status \in {"up", "closing"} /\ Opened /\ Serving /\ Running
      /\ logQueue # <<>> /\ queue # <<>> /\ flush \in FlushType
  BY DEF IInv, LogEdit, IPhase, IType, RunType, Opened, Serving, Running
<1>2. /\ manifest' = [min |-> flush.min, next |-> flush.next, last |-> flush.last, tables |-> T]
      /\ flush' = [flush EXCEPT !.pc = "install"]
      /\ UNCHANGED <<names, linked, log, durable, closed, torn, strict, status, memVars, rot, replayed, history,
                     waiting, acked, crashes, flushErrors>>
  BY DEF LogEdit
<1> USE DEF memVars
<1>3. /\ flush' \in FlushType /\ flush'.pc = "install" /\ flush'.n = n /\ flush'.min = flush.min
      /\ flush'.delete = flush.delete
  BY <1>1, <1>2 DEF FlushType
<1>4. /\ manifest'.min = flush.min /\ manifest'.next = flush.next /\ manifest'.last = flush.last
      /\ manifest'.tables = T
  BY <1>2
<1>5. /\ n > 0 /\ n < Len(queue) /\ flush.min > 0 /\ minLog <= flush.min /\ flush.min <= c
      /\ manifest.min = minLog
      /\ \A s \in manifest.tables : s <= flush.last
      /\ \A i \in 1 .. n : \A s \in queue[i].seqNums : s <= flush.last
  BY <1>1 DEF IInv, IFlush, INumbers
<1>6. /\ n \in Nat /\ flush.min \in 0 .. MaxLogNum /\ flush.min \in Nat /\ minLog \in Nat /\ flush.next \in Nat
      /\ flush.last \in 0 .. MaxSeqNum /\ manifest.tables \subseteq SeqNums /\ rot.batch.seqNum \in Nat
      /\ nextFile \in Nat
  BY <1>1, RecordTypes
<1>7. c \in LogNums /\ c \in Nat /\ c < nextFile
  BY <1>1, CurrentType DEF IInv, INumbers
<1>8. /\ Len(queue) \in Nat /\ DOMAIN queue = 1 .. Len(queue)
      /\ \A i \in 1 .. Len(queue) : queue[i].seqNums \subseteq SeqNums
  BY <1>1, QueueTypes
<1>9. \A i \in 1 .. n : i \in 1 .. Len(queue)
  BY <1>5, <1>6, <1>8
<1>10. Kept' = K /\ K \subseteq Kept /\ K \subseteq LogNums /\ c \in K
  <2>1. Kept' = K
    BY <1>4 DEF Kept
  <2>2. ASSUME NEW l \in K PROVE l \in Kept
    BY <1>5, <1>6 DEF Kept, LogNums
  <2> QED BY <1>5, <1>6, <1>7, <2>1, <2>2
<1>11. Current' = c /\ Opened' /\ Serving' /\ Running' /\ (Large' <=> Large) /\ Pending' = Pending
       /\ \A i : LogOf(i)' = LogOf(i)
  BY <1>1, <1>2 DEF Current, Opened, Serving, Running, Large, Pending, LogOf, c
<1>12. N \subseteq SeqNums /\ T \subseteq SeqNums
  BY <1>6, <1>8, <1>9
<1>13. \A i \in 1 .. Len(queue) : LogOf(i) \in LogNums /\ LogOf(i) >= manifest.min
                                  /\ queue[i].seqNums \subseteq ToSet(log[LogOf(i)])
  BY <1>1, <1>8, LogOfType DEF IInv, IQueue, Flushed
<1>14. \A i \in 1 .. Len(queue) : i > n => LogOf(i) >= flush.min
  BY <1>1, LeftLogs
<1>15. N \subseteq Logged /\ N \subseteq ToSet(history)
  <2>1. N \subseteq Logged
    BY <1>9, <1>13 DEF Logged, Kept
  <2> QED BY <2>1 DEF IInv, IHistory
<1> HIDE DEF n, c, T, K
<1>16. \A i \in 1 .. n : queue[i].seqNums \subseteq T
  BY DEF T
<1> HIDE DEF N
<1>17. ASSUME NEW l \in Kept, l \notin K, NEW s \in ToSet(log[l]) PROVE s \in T
  <2>1. CASE s \in manifest.tables
    BY <2>1 DEF T
  <2>2. CASE \E i \in DOMAIN queue : s \in queue[i].seqNums /\ LogOf(i) = l
    <3>1. PICK i \in DOMAIN queue : s \in queue[i].seqNums /\ LogOf(i) = l
      BY <2>2
    <3>2. i \in 1 .. n
      <4>1. i \in 1 .. Len(queue)
        BY <1>8
      <4>2. l \in LogNums /\ ~ (l >= flush.min)
        BY <1>17 DEF K, Kept
      <4>3. ~ (i > n)
        BY <1>14, <3>1, <4>1, <4>2
      <4> QED BY <1>6, <1>8, <4>1, <4>3 DEF n
    <3> QED BY <1>16, <3>1, <3>2
  <2>3. CASE Large /\ s = rot.batch.seqNum /\ l = Current
    BY <1>10, <1>17, <2>3 DEF c
  <2> QED BY <1>1, <2>1, <2>2, <2>3 DEF IInv, ICovered
<1>18. IType'
  <2>1. manifest' \in ManifestType
    BY <1>2, <1>6, <1>12 DEF ManifestType
  <2> QED BY <1>1, <1>2, <1>3, <2>1 DEF IType, DiskType, MemType, RunType, CallerType
<1>19. IPhase'
  BY <1>1, <1>2, <1>3 DEF IPhase, Opened, Running, Rotating
<1>20. INumbers'
  <2>1. flush.min < nextFile
    BY <1>5, <1>6, <1>7 DEF c
  <2>2. ASSUME NEW l \in ToSet(recycler.logNums) \union ToSet(flush.delete) PROVE l < flush.min
    <3>1. l < manifest.min
      BY DEF IInv, INumbers
    <3>2. l \in LogNums
      BY <1>1, RecordTypes
    <3>3. l \in Nat
      BY <3>2 DEF LogNums
    <3> QED BY <1>5, <1>6, <3>1, <3>3
  <2>3. Top = nextFile /\ Top' = nextFile /\ flush.next <= nextFile /\ \A l \in names \union linked : l < nextFile
    BY <1>1, <1>2, <1>11 DEF Top, IInv, INumbers
  <2>4. (rot.pc \in {"close", "create"} => \A l \in names \union linked : l < rot.new)
        /\ (Rotating => Current < rot.new)
    BY DEF IInv, INumbers
  <2>5. Rotating' = Rotating
    BY <1>2 DEF Rotating
  <2> QED BY <1>1, <1>2, <1>3, <1>4, <1>5, <1>7, <1>11, <2>1, <2>2, <2>3, <2>4, <2>5 DEF INumbers, c
<1>21. \A l \in LogNums : l < manifest.min => l < flush.min
  BY <1>5, <1>6 DEF LogNums
<1>22. INames'
  <2>1. \A l \in linked : l \in names \/ l < flush.min
    BY <1>1, <1>21 DEF IInv, INames, IType, DiskType
  <2>2. \A l \in LogNums : log[l] # <<>> => l < flush.min \/ l \in names \intersect linked
    BY <1>21 DEF IInv, INames
  <2>3. /\ status = "created" => Current \in names
        /\ status \in {"linked", "logged", "up", "closing"} => Current \in names \intersect linked
        /\ rot.pc = "dirsync" => rot.new \in names
        /\ rot.pc = "install" => rot.new \in names \intersect linked
    BY DEF IInv, INames
  <2> QED BY <1>2, <1>4, <1>11, <2>1, <2>2, <2>3 DEF INames, c
<1>23. ILogs'
  <2>1. /\ \A l \in LogNums : durable[l] <= Len(log[l])
        /\ \A l \in K : \A i, j \in DOMAIN log[l] : i < j => log[l][i] < log[l][j]
        /\ \A l, k \in K : l < k => \A s \in ToSet(log[l]), t \in ToSet(log[k]) : s < t
        /\ \A l, k \in K : l < k /\ log[k] # <<>> => durable[l] = Len(log[l])
        /\ \A l \in K : l < c => durable[l] = Len(log[l])
        /\ rot.pc \in {"create", "dirsync", "install"} => durable[c] = Len(log[c])
        /\ \A l \in LogNums : l > c => log[l] = <<>>
    BY <1>1, <1>10 DEF IInv, ILogs, c
  <2> QED BY <1>1, <1>2, <1>10, <1>11, <2>1 DEF ILogs
<1>24. Logged' \subseteq Logged /\ \A s \in Logged : s \in T \/ s \in Logged'
  <2>1. Logged' = UNION {ToSet(log[l]) : l \in K}
    BY <1>2, <1>10 DEF Logged
  <2>2. \A s \in Logged : s \in T \/ s \in UNION {ToSet(log[l]) : l \in K}
    BY <1>17 DEF Logged
  <2> QED BY <1>10, <2>1, <2>2 DEF Logged
<1>25. ToSet(history) \subseteq SeqNums
  <2>1. history \in Seq(SeqNums)
    BY <1>1 DEF IType, CallerType
  <2> HIDE DEF SeqNums
  <2> QED BY <2>1, ToSetMember
<1>26. IHistory'
  <2>1. T \subseteq ToSet(history) /\ Logged' \subseteq ToSet(history)
    BY <1>15, <1>24 DEF T, IInv, IHistory
  <2>2. ASSUME NEW s \in ToSet(history), NEW t \in T, s < t PROVE s \in T
    <3>1. CASE t \in manifest.tables
      BY <2>2, <3>1 DEF T, IInv, IHistory
    <3>2. CASE t \in N
      <4>1. PICK i \in 1 .. n : t \in queue[i].seqNums
        BY <3>2 DEF N
      <4>2. i \in 1 .. Len(queue)
        BY <1>9, <4>1 DEF n
      <4>3. CASE s \in manifest.tables
        BY <4>3 DEF T
      <4>4. CASE \E j \in DOMAIN queue : s \in queue[j].seqNums
        <5>1. PICK j \in DOMAIN queue : s \in queue[j].seqNums
          BY <4>4
        <5>2. ~ (i < j)
          <6>1. i < j => t < s
            BY <1>8, <4>1, <4>2, <5>1 DEF IInv, IOrder
          <6>2. s \in Nat /\ t \in Nat
            BY <1>12, <1>25 DEF SeqNums
          <6> QED BY <2>2, <6>1, <6>2
        <5>3. j \in 1 .. n
          BY <1>6, <1>8, <4>1, <5>2 DEF n
        <5> QED BY <1>16, <5>1, <5>3
      <4>5. CASE Large /\ s = rot.batch.seqNum
        <5>1. t < Pending
          BY <1>8, <4>1, <4>2 DEF IInv, IOrder
        <5>2. Pending = s
          BY <4>5 DEF Pending, Large
        <5>3. s \in Nat /\ t \in Nat
          BY <1>12, <1>25 DEF SeqNums
        <5> QED BY <2>2, <5>1, <5>2, <5>3
      <4> QED BY <1>1, <4>3, <4>4, <4>5 DEF IInv, ICovered
    <3> QED BY <3>1, <3>2 DEF T
  <2>3. \A s \in ToSet(history) : s \in T \/ s \in Logged'
    BY <1>1, <1>24, HistoryFound DEF T
  <2>4. \A s \in T : s <= flush.last
    BY <1>5 DEF T, N, n
  <2>5. \A s \in ToSet(history) : s < Pending \/ (Large /\ s = rot.batch.seqNum)
    BY <1>1 DEF IInv, IHistory
  <2>6. \A i, j \in DOMAIN history : i < j => history[i] < history[j]
    BY DEF IInv, IHistory
  <2> QED BY <1>1, <1>2, <1>4, <1>11, <2>1, <2>2, <2>3, <2>4, <2>5, <2>6 DEF IHistory
<1>27. IOrder'
  BY <1>2, SameOrder DEF IInv
<1>28. IQueue'
  <2>1. \A i \in 1 .. Len(queue) :
          IF Flushed(i)' THEN queue[i].seqNums \subseteq T
          ELSE LogOf(i) >= flush.min /\ queue[i].seqNums \subseteq ToSet(log[LogOf(i)])
    <3> SUFFICES ASSUME NEW i \in 1 .. Len(queue)
                 PROVE  IF Flushed(i)' THEN queue[i].seqNums \subseteq T
                        ELSE LogOf(i) >= flush.min /\ queue[i].seqNums \subseteq ToSet(log[LogOf(i)])
      OBVIOUS
    <3>1. Flushed(i)' <=> i <= n
      BY <1>3 DEF Flushed
    <3>2. CASE i <= n
      <4>1. i \in 1 .. n
        BY <1>6, <3>2 DEF n
      <4> QED BY <1>16, <3>1, <3>2, <4>1
    <3>3. CASE ~ (i <= n)
      <4>1. i > n
        BY <1>6, <3>3 DEF n
      <4> QED BY <1>13, <1>14, <3>1, <3>3, <4>1
    <3> QED BY <3>2, <3>3
  <2>2. /\ queue[Len(queue)].logNum = c
        /\ \A i \in DOMAIN queue : queue[i].logNum = 0 => i + 1 < Len(queue) /\ queue[i + 1].logNum > 0
        /\ \A i, j \in DOMAIN queue : i < j /\ queue[i].logNum > 0 /\ queue[j].logNum > 0 =>
             queue[i].logNum < queue[j].logNum
        /\ Large => rot.batch.seqNum \in ToSet(log[c])
    BY <1>1 DEF IInv, IQueue, c
  <2> QED BY <1>2, <1>4, <1>8, <1>11, <2>1, <2>2 DEF IQueue
<1>29. ICovered'
  <2>1. \A s \in ToSet(history) : \/ s \in T
                                  \/ \E i \in DOMAIN queue : s \in queue[i].seqNums
                                  \/ Large /\ s = rot.batch.seqNum
    BY <1>1 DEF IInv, ICovered, T
  <2>2. \A l \in K : \A s \in ToSet(log[l]) :
          \/ s \in T
          \/ \E i \in DOMAIN queue : s \in queue[i].seqNums /\ LogOf(i) = l
          \/ Large /\ s = rot.batch.seqNum /\ l = c
    BY <1>1, <1>10 DEF IInv, ICovered, T, c
  <2> QED BY <1>2, <1>4, <1>10, <1>11, <2>1, <2>2 DEF ICovered
<1>30. IFlush'
  BY <1>1, <1>2, <1>3, <1>11 DEF IInv, IFlush, n, c
<1>31. IAcked'
  <2> SUFFICES ASSUME NEW s \in acked, s \notin T
               PROVE  \E l \in K : \E j \in 1 .. durable[l] : log[l][j] = s
    BY <1>2, <1>4, <1>10 DEF IAcked
  <2>1. PICK l \in Kept : \E j \in 1 .. durable[l] : log[l][j] = s
    BY DEF IInv, IAcked, T
  <2>2. l \in LogNums
    BY DEF Kept
  <2>3. PICK j \in 1 .. durable[l] : log[l][j] = s
    BY <2>1
  <2>4. j \in 1 .. Len(log[l])
    <3>1. durable[l] \in Nat /\ Len(log[l]) \in Nat /\ durable[l] <= Len(log[l])
      BY <1>1, <2>2, LogTypes DEF IInv, ILogs
    <3> QED BY <3>1
  <2>5. s \in ToSet(log[l])
    BY <1>1, <2>2, <2>3, <2>4, LogTypes
  <2>6. l \in K
    BY <1>17, <2>5
  <2> QED BY <2>3, <2>6
<1> QED BY <1>18, <1>19, <1>20, <1>22, <1>23, <1>26, <1>27, <1>28, <1>29, <1>30, <1>31 DEF IInv

-----------------------------------------------------------------------------
(* The logs a flush makes obsolete.                                        *)

LEMMA LastSubSeq ==
  ASSUME NEW S, NEW q \in Seq(S), NEW n \in Nat, n < Len(q)
  PROVE  LET r == SubSeq(q, n + 1, Len(q))
         IN /\ r \in Seq(S) /\ r # <<>> /\ Len(r) = Len(q) - n /\ DOMAIN r = 1 .. Len(q) - n
            /\ \A i \in 1 .. Len(q) - n : r[i] = q[n + i]
            /\ Last(r) = Last(q)
<1> DEFINE r == SubSeq(q, n + 1, Len(q))
<1>1. Len(q) \in Nat
  BY LenProperties
<1>2. n + 1 \in 1 .. Len(q) + 1 /\ Len(q) \in 0 .. Len(q) /\ n + 1 <= Len(q)
  BY <1>1
<1>3. /\ r \in Seq(S) /\ Len(r) = Len(q) - (n + 1) + 1
      /\ \A i \in 1 .. Len(q) - (n + 1) + 1 : r[i] = q[n + 1 + i - 1]
  BY <1>2, ToSetSubSeq
<1> HIDE DEF r
<1>4. Len(r) = Len(q) - n /\ Len(r) > 0
  BY <1>1, <1>3
<1>5. \A i \in 1 .. Len(q) - n : r[i] = q[n + i]
  <2> SUFFICES ASSUME NEW i \in 1 .. Len(q) - n PROVE r[i] = q[n + i]
    OBVIOUS
  <2>1. i \in 1 .. Len(q) - (n + 1) + 1 /\ n + 1 + i - 1 = n + i
    BY <1>1
  <2> QED BY <1>3, <2>1
<1>6. r # <<>> /\ DOMAIN r = 1 .. Len(r)
  BY <1>3, <1>4, EmptySeq, LenProperties
<1>7. Last(r) = Last(q)
  <2>1. Last(r) = r[Len(q) - n] /\ Len(q) - n \in 1 .. Len(q) - n /\ n + (Len(q) - n) = Len(q)
    BY <1>1, <1>4 DEF Last
  <2> QED BY <1>5, <2>1 DEF Last
<1> QED BY <1>3, <1>4, <1>5, <1>6, <1>7 DEF r

(* Obsolete takes logs below the minimum only, and never the last one. *)
LEMMA ObsoleteLogs ==
  ASSUME NEW logs \in Seq(LogNums), logs # <<>>, NEW min \in Nat, Last(logs) >= min
  PROVE  LET gone == Obsolete(logs, min)
         IN /\ gone \in Seq(LogNums) /\ Len(gone) \in Nat /\ Len(gone) < Len(logs)
            /\ \A l \in ToSet(gone) : l < min
<1> DEFINE kept == {i \in DOMAIN logs : logs[i] >= min}
           m == Min(kept)
           gone == SubSeq(logs, 1, m - 1)
<1>1. /\ Len(logs) \in Nat \ {0} /\ DOMAIN logs = 1 .. Len(logs) /\ Last(logs) = logs[Len(logs)]
      /\ \A i \in 1 .. Len(logs) : logs[i] \in LogNums
  <2> HIDE DEF LogNums
  <2> QED BY LastOf, LenProperties, ElementOfSeq
<1>2. kept \subseteq Nat /\ Len(logs) \in kept
  BY <1>1
<1>3. m \in kept /\ \A i \in kept : m <= i
  <2> HIDE DEF kept
  <2> QED BY <1>2, MinNat
<1>4. m \in 1 .. Len(logs)
  BY <1>1, <1>3
<1>5. Obsolete(logs, min) = gone
  BY <1>2 DEF Obsolete
<1> HIDE DEF m
<1>6. m - 1 \in 0 .. Len(logs) /\ 1 \in 1 .. Len(logs) + 1
  BY <1>1, <1>4
<1>7. /\ gone \in Seq(LogNums) /\ Len(gone) = (IF 1 <= m - 1 THEN m - 1 - 1 + 1 ELSE 0)
      /\ \A x : x \in ToSet(gone) <=> \E i \in 1 .. m - 1 : logs[i] = x
  <2> HIDE DEF LogNums
  <2> QED BY <1>6, ToSetSubSeq
<1> HIDE DEF gone
<1>8. Len(gone) \in Nat /\ Len(gone) < Len(logs)
  BY <1>1, <1>4, <1>7
<1>9. ASSUME NEW l \in ToSet(gone) PROVE l < min
  <2>1. PICK i \in 1 .. m - 1 : logs[i] = l
    BY <1>7
  <2>2. i \in 1 .. Len(logs) /\ i < m
    BY <1>1, <1>4
  <2>3. i \notin kept
    <3>1. m \in Nat /\ i \in Nat
      BY <1>4, <2>2
    <3> QED BY <1>3, <2>2, <3>1
  <2>4. ~ (logs[i] >= min)
    BY <1>1, <2>2, <2>3
  <2>5. logs[i] \in Nat
    BY <1>1, <2>2 DEF LogNums
  <2> QED BY <2>1, <2>4, <2>5
<1> QED BY <1>5, <1>7, <1>8, <1>9

LEMMA InstallFlushStep == IInv /\ InstallFlush => IInv'
<1> SUFFICES ASSUME IInv, InstallFlush PROVE IInv'
  OBVIOUS
<1> DEFINE n == flush.n
           c == Current
           k == Len(queue) - n
           gone == Obsolete(logQueue, flush.min)
<1>1. IType /\ IPhase /\ flush.pc = "install" /\ status \in {"up", "closing"} /\ Opened /\ Serving /\ Running
      /\ logQueue # <<>> /\ queue # <<>> /\ flush \in FlushType
  BY DEF IInv, InstallFlush, IPhase, IType, RunType, Opened, Serving, Running
<1>2. /\ minLog' = flush.min
      /\ queue' = SubSeq(queue, n + 1, Len(queue))
      /\ logQueue' = SubSeq(logQueue, Len(gone) + 1, Len(logQueue))
      /\ flush' = [flush EXCEPT !.pc = "delete", !.delete = gone]
      /\ UNCHANGED <<diskVars, status, logSeqNum, nextFile, nextSize, recycler, rot, replayed, history,
                     waiting, acked, crashes, flushErrors>>
  BY DEF InstallFlush
<1> USE DEF diskVars
<1>3. n \in Nat /\ n > 0 /\ n < Len(queue) /\ flush.min <= c /\ manifest.min = flush.min
      /\ flush.min \in Nat /\ flush.min \in 0 .. MaxLogNum
  BY <1>1, RecordTypes DEF IInv, IFlush, INumbers
<1>4. /\ Len(queue) \in Nat /\ DOMAIN queue = 1 .. Len(queue)
      /\ \A i \in 1 .. Len(queue) : queue[i].seqNums \subseteq SeqNums /\ queue[i].logNum \in Nat
  BY <1>1, QueueTypes
<1>5. queue \in Seq(EntryType) /\ logQueue \in Seq(LogNums)
  BY <1>1 DEF IType, MemType
<1>6. c \in LogNums /\ c \in Nat
  BY <1>1, CurrentType
<1>7. gone \in Seq(LogNums) /\ Len(gone) \in Nat /\ Len(gone) < Len(logQueue) /\ \A l \in ToSet(gone) : l < flush.min
  <2>1. Last(logQueue) >= flush.min
    BY <1>3, <1>6 DEF Current
  <2> QED BY <1>1, <1>3, <1>5, <2>1, ObsoleteLogs
<1> HIDE DEF gone
<1>8. logQueue' \in Seq(LogNums) /\ logQueue' # <<>> /\ Current' = c
  <2> HIDE DEF LogNums
  <2> QED BY <1>2, <1>5, <1>7, LastSubSeq DEF Current
<1>9. /\ queue' \in Seq(EntryType) /\ queue' # <<>> /\ Len(queue') = k /\ DOMAIN queue' = 1 .. k
      /\ \A i \in 1 .. k : queue'[i] = queue[n + i]
  <2> HIDE DEF EntryType, n
  <2>1. queue \in Seq(EntryType) /\ n \in Nat /\ n < Len(queue) /\ queue' = SubSeq(queue, n + 1, Len(queue))
    BY <1>2, <1>3, <1>5
  <2> QED BY <2>1, LastSubSeq
<1>10. /\ flush' \in FlushType /\ flush'.pc = "delete" /\ flush'.delete = gone
  BY <1>1, <1>2, <1>7 DEF FlushType
<1>11. Kept' = Kept /\ Logged' = Logged /\ Opened' = Opened /\ Serving' = Serving /\ Running' = Running
       /\ (Large' <=> Large) /\ Pending' = Pending
  BY <1>2 DEF Kept, Logged, Opened, Serving, Running, Large, Pending
<1> HIDE DEF n, c
<1>12. k \in Nat /\ k > 0 /\ \A i \in 1 .. k : n + i \in 1 .. Len(queue)
  BY <1>3, <1>4
<1>13. n + k = Len(queue) /\ \A i \in 1 .. Len(queue) : i > n => i - n \in 1 .. k /\ n + (i - n) = i
  BY <1>3, <1>4
<1> HIDE DEF k
<1>14. \A i \in 1 .. k : LogOf(i)' = LogOf(n + i) /\ n + i > n
  <2> SUFFICES ASSUME NEW i \in 1 .. k PROVE LogOf(i)' = LogOf(n + i) /\ n + i > n
    OBVIOUS
  <2>1. queue'[i] = queue[n + i] /\ n + i \in 1 .. Len(queue) /\ n + i > n /\ queue[n + i].logNum \in Nat
    <3>1. n \in Nat /\ k \in Nat /\ n + i \in 1 .. Len(queue)
      BY <1>3, <1>12
    <3>2. n + i > n
      BY <3>1
    <3> QED BY <1>4, <1>9, <3>1, <3>2
  <2>2. CASE queue[n + i].logNum > 0
    BY <2>1, <2>2 DEF LogOf
  <2>3. CASE queue[n + i].logNum = 0
    <3>1. n + i + 1 \in 1 .. Len(queue) - 1
      BY <1>1, <2>1, <2>3, LogOfType
    <3>2. i + 1 \in 1 .. k /\ n + (i + 1) = n + i + 1
      <4>1. n \in Nat /\ k \in Nat /\ Len(queue) \in Nat /\ n + k = Len(queue)
        BY <1>3, <1>4, <1>12, <1>13
      <4> QED BY <3>1, <4>1
    <3>3. queue'[i + 1] = queue[n + i + 1]
      BY <1>9, <3>2
    <3> QED BY <2>1, <2>3, <3>3 DEF LogOf
  <2> QED BY <2>1, <2>2, <2>3
<1>15. \A i \in 1 .. k : ~Flushed(n + i)
  BY <1>3, <1>14 DEF Flushed, n
<1>16. \A i \in 1 .. Len(queue) : ~ (i > n) => queue[i].seqNums \subseteq manifest.tables
  <2> SUFFICES ASSUME NEW i \in 1 .. Len(queue), ~ (i > n) PROVE queue[i].seqNums \subseteq manifest.tables
    OBVIOUS
  <2>1. Flushed(i)
    BY <1>1, <1>3 DEF Flushed, n
  <2> QED BY <1>1, <1>4, <2>1 DEF IInv, IQueue
<1>17. IType'
  BY <1>1, <1>2, <1>3, <1>8, <1>9, <1>10 DEF IType, DiskType, MemType, RunType, CallerType
<1>18. IPhase'
  BY <1>1, <1>2, <1>8, <1>9, <1>10 DEF IPhase, Opened, Running, Rotating
<1>19. INumbers'
  <2>1. \A l \in ToSet(recycler.logNums) \union ToSet(gone) : l < manifest.min
    BY <1>3, <1>7 DEF IInv, INumbers
  <2>2. Top' = Top
    BY <1>2 DEF Top, Running
  <2> QED BY <1>1, <1>2, <1>3, <1>8, <1>10, <1>11, <2>1, <2>2 DEF IInv, INumbers, Rotating, c
<1>20. INames'
  BY <1>2, <1>8 DEF IInv, INames, c
<1>21. ILogs'
  BY <1>2, <1>8, <1>11 DEF IInv, ILogs, c
<1>22. IHistory'
  BY <1>2, SameHistory DEF IInv
<1>23. IOrder'
  <2>1. \A i \in 1 .. k : \A s \in queue'[i].seqNums : queue'[i].base <= s /\ s < Pending
    BY <1>4, <1>9, <1>12 DEF IInv, IOrder
  <2>2. queue'[k].base <= Pending
    BY <1>1, <1>9, <1>12, <1>13 DEF IInv, IOrder
  <2>3. ASSUME NEW i \in 1 .. k, NEW j \in 1 .. k, i < j PROVE \A s \in queue'[i].seqNums, t \in queue'[j].seqNums : s < t
    <3>1. n + i < n + j
      BY <1>3, <2>3 DEF n
    <3> QED BY <1>4, <1>9, <1>12, <3>1 DEF IInv, IOrder
  <2> QED BY <1>9, <1>11, <2>1, <2>2, <2>3 DEF IOrder
<1>24. IQueue'
  <2>1. queue'[k].logNum = c
    BY <1>1, <1>9, <1>12, <1>13 DEF IInv, IQueue, c
  <2>2. ASSUME NEW i \in 1 .. k, queue'[i].logNum = 0 PROVE i + 1 < k /\ queue'[i + 1].logNum > 0
    <3>1. n + i + 1 \in 1 .. Len(queue) - 1 /\ queue[n + i + 1].logNum > 0
      BY <1>1, <1>9, <1>12, <2>2, LogOfType
    <3>2. i + 1 \in 1 .. k /\ i + 1 < k /\ n + (i + 1) = n + i + 1
      BY <1>3, <1>4, <1>12, <1>13, <3>1
    <3> QED BY <1>9, <3>1, <3>2
  <2>3. ASSUME NEW i \in 1 .. k, NEW j \in 1 .. k, i < j, queue'[i].logNum > 0, queue'[j].logNum > 0
        PROVE  queue'[i].logNum < queue'[j].logNum
    <3>1. n + i < n + j
      BY <1>3, <2>3 DEF n
    <3> QED BY <1>4, <1>9, <1>12, <2>3, <3>1 DEF IInv, IQueue
  <2>4. ASSUME NEW i \in 1 .. k
        PROVE  ~Flushed(i)' /\ LogOf(i)' >= manifest.min /\ queue'[i].seqNums \subseteq ToSet(log[LogOf(i)'])
    <3>1. ~Flushed(i)'
      BY <1>10 DEF Flushed
    <3>2. n + i \in DOMAIN queue /\ ~Flushed(n + i) /\ LogOf(i)' = LogOf(n + i) /\ queue'[i] = queue[n + i]
      BY <1>4, <1>9, <1>12, <1>14, <1>15
    <3>3. LogOf(n + i) >= manifest.min /\ queue[n + i].seqNums \subseteq ToSet(log[LogOf(n + i)])
      BY <1>1, <3>2 DEF IInv, IQueue
    <3> QED BY <3>1, <3>2, <3>3
  <2>5. Large => rot.batch.seqNum \in ToSet(log[c])
    BY DEF IInv, IQueue, c
  <2> QED BY <1>2, <1>8, <1>9, <1>11, <2>1, <2>2, <2>3, <2>4, <2>5 DEF IQueue
<1>25. ICovered'
  <2>1. \A s \in ToSet(history) : s \in manifest.tables \/ (\E i \in 1 .. k : s \in queue'[i].seqNums)
                                  \/ (Large /\ s = rot.batch.seqNum)
    <3> SUFFICES ASSUME NEW s \in ToSet(history), s \notin manifest.tables, ~ (Large /\ s = rot.batch.seqNum)
                 PROVE  \E i \in 1 .. k : s \in queue'[i].seqNums
      OBVIOUS
    <3>1. PICK i \in 1 .. Len(queue) : s \in queue[i].seqNums
      BY <1>1, <1>4 DEF IInv, ICovered
    <3>2. i > n
      BY <1>16, <3>1
    <3>3. i - n \in 1 .. k /\ queue'[i - n] = queue[i]
      BY <1>9, <1>13, <3>2
    <3> QED BY <3>1, <3>3
  <2>2. \A l \in Kept : \A s \in ToSet(log[l]) :
          s \in manifest.tables \/ (\E i \in 1 .. k : s \in queue'[i].seqNums /\ LogOf(i)' = l)
          \/ (Large /\ s = rot.batch.seqNum /\ l = c)
    <3> SUFFICES ASSUME NEW l \in Kept, NEW s \in ToSet(log[l]), s \notin manifest.tables,
                        ~ (Large /\ s = rot.batch.seqNum /\ l = c)
                 PROVE  \E i \in 1 .. k : s \in queue'[i].seqNums /\ LogOf(i)' = l
      OBVIOUS
    <3>1. PICK i \in 1 .. Len(queue) : s \in queue[i].seqNums /\ LogOf(i) = l
      BY <1>1, <1>4 DEF IInv, ICovered, c
    <3>2. i > n
      BY <1>16, <3>1
    <3>3. PICK j \in 1 .. k : n + j = i
      BY <1>13, <3>2
    <3>4. s \in queue'[j].seqNums /\ LogOf(j)' = l
      BY <1>9, <1>14, <3>1, <3>3
    <3> QED BY <3>4
  <2> QED BY <1>2, <1>8, <1>9, <1>11, <2>1, <2>2, SMTT(60) DEF ICovered
<1>26. IFlush'
  BY <1>10 DEF IFlush
<1>27. IAcked'
  BY <1>2, SameAcked DEF IInv
<1> QED BY <1>17, <1>18, <1>19, <1>20, <1>21, <1>22, <1>23, <1>24, <1>25, <1>26, <1>27 DEF IInv

LEMMA DeleteLogStep == IInv /\ DeleteLog => IInv'
<1> SUFFICES ASSUME IInv, DeleteLog PROVE IInv'
  OBVIOUS
<1> DEFINE l == Head(flush.delete)
           rest == Tail(flush.delete)
<1>1. IType /\ IPhase /\ flush.pc = "delete" /\ flush.delete # <<>> /\ status \in {"up", "closing"} /\ Opened
      /\ logQueue # <<>> /\ flush \in FlushType /\ recycler \in RecyclerType
  BY DEF IInv, DeleteLog, IPhase, IType, MemType, RunType, Opened
<1>2. /\ recycler' = Add(l)
      /\ names' = (IF Recyclable(l) THEN names ELSE names \ {l})
      /\ flush' = [flush EXCEPT !.delete = rest]
      /\ UNCHANGED <<linked, log, durable, closed, torn, manifest, strict, status, logSeqNum, nextFile, minLog,
                     queue, nextSize, logQueue, rot, replayed, history, waiting, acked, crashes, flushErrors>>
  BY DEF DeleteLog
<1>3. rest \in Seq(LogNums) /\ ToSet(rest) \subseteq ToSet(flush.delete) /\ l \in ToSet(flush.delete) /\ l \in LogNums
  <2>1. flush.delete \in Seq(LogNums)
    BY <1>1, RecordTypes
  <2> HIDE DEF LogNums
  <2> QED BY <1>1, <2>1, ToSetTail
<1>4. l < manifest.min /\ l \in Nat /\ manifest.min \in Nat
  <2>1. l < manifest.min /\ manifest.min \in Nat
    BY <1>1, <1>3, RecordTypes DEF IInv, INumbers
  <2> HIDE DEF l
  <2> QED BY <1>3, <2>1 DEF LogNums
<1> HIDE DEF l, rest
<1>5. flush' \in FlushType /\ flush'.pc = "delete" /\ flush'.delete = rest
  BY <1>1, <1>2, <1>3 DEF FlushType
<1>6. recycler' \in RecyclerType /\ ToSet(recycler'.logNums) \subseteq ToSet(recycler.logNums) \union {l}
  <2>1. recycler.logNums \in Seq(LogNums)
    BY <1>1, RecordTypes
  <2> DEFINE a == Append(recycler.logNums, l)
             q == IF Len(recycler.logNums) < RecycleLimit THEN a ELSE recycler.logNums
  <2>2. a \in Seq(LogNums) /\ ToSet(a) = ToSet(recycler.logNums) \union {l}
    <3> HIDE DEF LogNums
    <3> QED BY <1>3, <2>1, ToSetAppend
  <2>3. q \in Seq(LogNums) /\ ToSet(q) \subseteq ToSet(recycler.logNums) \union {l}
    BY <2>1, <2>2
  <2>4. recycler' = recycler \/ recycler' = [recycler EXCEPT !.maxLogNum = l, !.logNums = q]
    BY <1>2 DEF Add
  <2> HIDE DEF q
  <2>5. CASE recycler' = [recycler EXCEPT !.maxLogNum = l, !.logNums = q]
    <3>1. recycler' \in RecyclerType /\ recycler'.logNums = q
      BY <1>1, <1>4, <2>3, <2>5 DEF RecyclerType
    <3> QED BY <2>3, <3>1
  <2> QED BY <1>1, <2>4, <2>5
<1>7. names' \subseteq names /\ \A x \in names : x \in names' \/ x < manifest.min
  BY <1>2, <1>4
<1>8. IType'
  BY <1>1, <1>2, <1>5, <1>6, <1>7 DEF IType, DiskType, MemType, RunType, CallerType
<1>9. IPhase'
  BY <1>1, <1>2, <1>5 DEF IPhase, Opened, Running, Rotating
<1>10. \A x \in ToSet(recycler'.logNums) \union ToSet(flush'.delete) : x < manifest.min
  BY <1>3, <1>4, <1>5, <1>6 DEF IInv, INumbers
<1>11. INumbers'
  <2>1. names' \union linked \subseteq names \union linked
    BY <1>7
  <2>2. Current' = Current /\ Top' = Top /\ Opened' = Opened /\ Rotating' = Rotating
    BY <1>2 DEF Current, Top, Running, Opened, Rotating
  <2> QED BY <1>1, <1>2, <1>5, <1>10, <2>1, <2>2 DEF IInv, INumbers
<1>12. INames'
  <2>1. Current' = Current
    BY <1>2 DEF Current
  <2>2. Current \in Nat /\ manifest.min <= Current /\ (Rotating => Current < rot.new) /\ rot.new \in Nat
    BY <1>1, CurrentType, RecordTypes DEF IInv, INumbers
  <2>3. ~ (Current < manifest.min) /\ (Rotating => ~ (rot.new < manifest.min))
    BY <1>4, <2>2
  <2>4. Current \in names' \intersect linked
    BY <1>1, <1>7, <2>3 DEF IInv, INames
  <2>5. rot.pc = "dirsync" => rot.new \in names'
    BY <1>7, <2>3 DEF IInv, INames, Rotating
  <2>6. rot.pc = "install" => rot.new \in names' \intersect linked
    BY <1>7, <2>3 DEF IInv, INames, Rotating
  <2>7. \A x \in linked : x \in names' \/ x < manifest.min
    BY <1>7 DEF IInv, INames
  <2>8. \A x \in LogNums : log[x] # <<>> => x < manifest.min \/ x \in names' \intersect linked
    BY <1>7 DEF IInv, INames
  <2> QED BY <1>2, <2>1, <2>4, <2>5, <2>6, <2>7, <2>8 DEF INames
<1>13. ILogs' /\ IHistory' /\ IOrder' /\ ICovered' /\ IAcked'
  BY <1>2, SameLogs, SameHistory, SameOrder, SameCovered, SameAcked DEF IInv
<1>14. IQueue'
  BY <1>1, <1>2, <1>5, SameQueue DEF IInv
<1>15. IFlush'
  BY <1>5 DEF IFlush
<1> QED BY <1>8, <1>9, <1>11, <1>12, <1>13, <1>14, <1>15 DEF IInv

-----------------------------------------------------------------------------
(* Crash and Close.                                                        *)

(* A stopped process leaves what the invariant says about the disk. *)
LEMMA Stopped ==
  ASSUME IInv, Running, nextFile <= MaxLogNum, Forget, UNCHANGED manifest,
         names' \union linked' \subseteq names \union linked,
         DiskType', CallerType', INames', ILogs', IHistory', IAcked'
  PROVE  IInv'
<1>1. IType /\ nextFile \in Nat
  BY RecordTypes DEF IInv
<1>2. /\ status' = "down" /\ logSeqNum' = 1 /\ nextFile' = 1 /\ minLog' = 0
      /\ queue' = <<>> /\ nextSize' = InitialMemTableSize /\ logQueue' = <<>>
      /\ recycler' = [logNums |-> <<>>, maxLogNum |-> 0, minRecycle |-> 0]
      /\ rot' = Idle /\ flush' = NoFlush /\ replayed' = {}
  BY DEF Forget
<1>3. <<>> \in Seq(LogNums) /\ <<>> \in Seq(EntryType)
  BY EmptySeq
<1>4. ~Opened' /\ ~Serving' /\ ~Running'
  BY <1>2 DEF Opened, Serving, Running
<1>5. rot' \in RotType /\ rot'.pc = "idle" /\ rot'.batch.seqNum = 0 /\ rot'.batch.size = 0
  BY <1>2, IdleRecord
<1>6. flush' \in FlushType /\ flush'.pc = "idle" /\ flush'.delete = <<>>
  BY <1>2, RestRecords DEF Rests
<1>7. recycler' \in RecyclerType /\ recycler'.logNums = <<>>
  BY <1>2, <1>3 DEF RecyclerType
<1>8. IType'
  <2>1. MemType'
    BY <1>2, <1>3, <1>7 DEF MemType
  <2>2. RunType'
    BY <1>2, <1>5, <1>6 DEF RunType
  <2> QED BY <2>1, <2>2 DEF IType
<1>9. IPhase'
  BY <1>2, <1>4, <1>5, <1>6 DEF IPhase, Rotating
<1>10. INumbers'
  <2>1. Top = nextFile /\ Top' = MaxLogNum
    BY <1>4 DEF Top
  <2>2. manifest.min < nextFile /\ manifest.next <= nextFile /\ \A l \in names \union linked : l < nextFile
    BY <2>1 DEF IInv, INumbers
  <2>3. manifest.min \in Nat /\ manifest.next \in Nat
    BY <1>1, RecordTypes
  <2>4. manifest.min < MaxLogNum /\ manifest.next <= MaxLogNum
    BY <1>1, <2>2, <2>3
  <2>5. ASSUME NEW l \in names' \union linked' PROVE l < MaxLogNum
    <3>1. l < nextFile /\ l \in LogNums
      BY <1>1, <2>2 DEF IType, DiskType
    <3> QED BY <1>1, <3>1 DEF LogNums
  <2> QED BY <1>2, <1>4, <1>5, <1>6, <1>7, <2>1, <2>4, <2>5, ToSetEmpty DEF INumbers, Rotating
<1>11. DOMAIN queue' = {}
  BY <1>2
<1>12. IOrder' /\ IQueue' /\ ICovered'
  BY <1>2, <1>4, <1>5, <1>11 DEF IOrder, IQueue, ICovered, Large
<1>13. IFlush'
  BY <1>6 DEF IFlush
<1> QED BY <1>8, <1>9, <1>10, <1>12, <1>13 DEF IInv

LEMMA ProcessCrashStep == IInv /\ ProcessCrash => IInv'
<1> SUFFICES ASSUME IInv, ProcessCrash PROVE IInv'
  OBVIOUS
<1>1. Running /\ nextFile <= MaxLogNum /\ Forget /\ IType
      /\ UNCHANGED <<names, linked, log, durable, closed, manifest, strict, history, acked, flushErrors>>
      /\ waiting' = {} /\ crashes' = crashes + 1
  BY DEF ProcessCrash, Running, IInv
<1>2. torn' \subseteq LogNums
  BY <1>1 DEF ProcessCrash, Unclean, IType, DiskType
<1>3. DiskType' /\ CallerType'
  BY <1>1, <1>2 DEF IType, DiskType, CallerType
<1>4. status' = "down" /\ rot'.pc = "idle" /\ ~Opened' /\ ~Serving' /\ Kept' = Kept /\ Logged' = Logged
  BY <1>1, IdleRecord DEF Forget, Opened, Serving, Kept, Logged
<1>5. INames'
  BY <1>1, <1>4 DEF IInv, INames
<1>6. ILogs'
  BY <1>1, <1>4 DEF IInv, ILogs
<1>7. IHistory'
  BY <1>1, <1>4 DEF IInv, IHistory
<1>8. IAcked'
  BY <1>1, SameAcked DEF IInv
<1> QED BY <1>1, <1>3, <1>5, <1>6, <1>7, <1>8, Stopped

LEMMA MachineCrashStep == IInv /\ MachineCrash => IInv'
<1> SUFFICES ASSUME IInv, MachineCrash PROVE IInv'
  OBVIOUS
<1>1. Running /\ nextFile <= MaxLogNum /\ Forget /\ IType
      /\ UNCHANGED <<closed, manifest, strict, history, acked, flushErrors>>
      /\ waiting' = {} /\ crashes' = crashes + 1
  BY DEF MachineCrash, Running, IInv
<1>2. PICK kept \in SUBSET (names \union linked) :
        names \intersect linked \subseteq kept /\ names' = kept /\ linked' = kept
  BY DEF MachineCrash
<1>3. PICK len \in [LogNums -> 0 .. MaxSeqNum] :
        /\ \A l \in LogNums : len[l] \in durable[l] .. Len(log[l])
        /\ log' = [l \in LogNums |-> SubSeq(log[l], 1, len[l])]
        /\ durable' = len
  BY DEF MachineCrash
<1>4. torn' \subseteq LogNums
  BY <1>1 DEF MachineCrash, Unclean, IType, DiskType
<1>5. ASSUME NEW l \in LogNums
      PROVE  /\ log'[l] \in Seq(SeqNums) /\ Len(log'[l]) = len[l] /\ durable'[l] = len[l] /\ len[l] \in Nat
             /\ durable[l] \in Nat /\ Len(log[l]) \in Nat /\ durable[l] <= len[l] /\ len[l] <= Len(log[l])
             /\ DOMAIN log'[l] = 1 .. len[l]
             /\ \A i \in 1 .. len[l] : log'[l][i] = log[l][i] /\ i \in DOMAIN log[l]
             /\ \A x : x \in ToSet(log'[l]) <=> \E i \in 1 .. len[l] : log[l][i] = x
             /\ log[l] = <<>> => log'[l] = <<>>
  <2> DEFINE n == len[l]
             a == SubSeq(log[l], 1, n)
  <2>1. log[l] \in Seq(SeqNums) /\ Len(log[l]) \in Nat /\ durable[l] \in Nat /\ n \in durable[l] .. Len(log[l])
        /\ DOMAIN log[l] = 1 .. Len(log[l])
    BY <1>1, <1>3, LogTypes
  <2>2. log'[l] = a /\ durable'[l] = n
    BY <1>3
  <2> HIDE DEF n
  <2>3. n \in Nat /\ durable[l] <= n /\ n <= Len(log[l]) /\ n \in 0 .. Len(log[l]) /\ 1 \in 1 .. Len(log[l]) + 1
    BY <2>1
  <2>4. /\ a \in Seq(SeqNums) /\ Len(a) = (IF 1 <= n THEN n - 1 + 1 ELSE 0)
        /\ \A i \in 1 .. n - 1 + 1 : a[i] = log[l][1 + i - 1]
        /\ \A x : x \in ToSet(a) <=> \E i \in 1 .. n : log[l][i] = x
    <3> HIDE DEF SeqNums, LogNums
    <3> QED BY <2>1, <2>3, ToSetSubSeq
  <2> HIDE DEF a
  <2>5. Len(a) = n
    BY <2>3, <2>4
  <2>6. \A i \in 1 .. n : a[i] = log[l][i] /\ i \in DOMAIN log[l]
    <3> SUFFICES ASSUME NEW i \in 1 .. n PROVE a[i] = log[l][i] /\ i \in DOMAIN log[l]
      OBVIOUS
    <3>1. i \in 1 .. n - 1 + 1 /\ 1 + i - 1 = i /\ i \in 1 .. Len(log[l])
      BY <2>3, <2>1
    <3> QED BY <2>1, <2>4, <3>1
  <2>7. DOMAIN a = 1 .. Len(a) /\ (Len(a) = 0 => a = <<>>)
    <3> HIDE DEF SeqNums
    <3> QED BY <2>4, EmptySeq, LenProperties
  <2>8. log[l] = <<>> => a = <<>>
    <3>1. log[l] = <<>> => Len(log[l]) = 0
      BY EmptySeq
    <3> QED BY <2>3, <2>5, <2>7, <3>1
  <2> QED BY <2>1, <2>2, <2>3, <2>4, <2>5, <2>6, <2>7, <2>8 DEF n
<1>6. DiskType' /\ CallerType'
  <2>1. log' \in [LogNums -> Seq(SeqNums)] /\ durable' \in [LogNums -> Nat]
    <3>1. DOMAIN log' = LogNums /\ log' = [l \in LogNums |-> log'[l]]
      BY <1>3
    <3>2. durable' = [l \in LogNums |-> durable'[l]]
      BY <1>3
    <3> HIDE DEF LogNums, SeqNums
    <3>3. \A l \in LogNums : log'[l] \in Seq(SeqNums) /\ durable'[l] \in Nat
      BY <1>5
    <3> QED BY <3>1, <3>2, <3>3
  <2>2. names' \subseteq LogNums /\ linked' \subseteq LogNums
    BY <1>1, <1>2 DEF IType, DiskType
  <2> QED BY <1>1, <1>4, <2>1, <2>2 DEF IType, DiskType, CallerType
<1>7. status' = "down" /\ rot'.pc = "idle" /\ ~Opened' /\ ~Serving' /\ Kept' = Kept
  BY <1>1, IdleRecord DEF Forget, Opened, Serving, Kept
<1>8. INames'
  <2>1. \A l \in LogNums : log'[l] # <<>> => l < manifest.min \/ l \in kept
    BY <1>2, <1>5 DEF IInv, INames
  <2> QED BY <1>1, <1>2, <1>7, <2>1 DEF INames
<1>9. \A l \in Kept : l \in LogNums /\ ToSet(log'[l]) \subseteq ToSet(log[l])
  <2> SUFFICES ASSUME NEW l \in Kept PROVE l \in LogNums /\ ToSet(log'[l]) \subseteq ToSet(log[l])
    OBVIOUS
  <2>1. l \in LogNums
    BY DEF Kept
  <2>2. \A i \in 1 .. len[l] : i \in 1 .. Len(log[l])
    BY <1>5, <2>1
  <2>3. \A i \in 1 .. Len(log[l]) : log[l][i] \in ToSet(log[l])
    BY <1>1, <2>1, LogTypes
  <2>4. \A x : x \in ToSet(log'[l]) <=> \E i \in 1 .. len[l] : log[l][i] = x
    BY <1>5, <2>1, Zenon
  <2> QED BY <2>1, <2>2, <2>3, <2>4
<1>10. ILogs'
  <2>1. \A l \in LogNums : durable'[l] = Len(log'[l]) /\ durable'[l] \in Nat
    BY <1>5
  <2>2. ASSUME NEW l \in Kept, NEW i \in DOMAIN log'[l], NEW j \in DOMAIN log'[l], i < j PROVE log'[l][i] < log'[l][j]
    <3>1. l \in LogNums
      BY <1>9
    <3>2. i \in DOMAIN log[l] /\ j \in DOMAIN log[l] /\ log'[l][i] = log[l][i] /\ log'[l][j] = log[l][j]
      BY <1>5, <3>1
    <3> QED BY <2>2, <3>2 DEF IInv, ILogs
  <2>3. \A l, k \in Kept : l < k => \A s \in ToSet(log'[l]), t \in ToSet(log'[k]) : s < t
    BY <1>9 DEF IInv, ILogs
  <2>4. \A l \in LogNums : durable'[l] <= Len(log'[l])
    BY <2>1
  <2>5. \A l \in Kept : durable'[l] = Len(log'[l])
    BY <1>9, <2>1
  <2> QED BY <1>7, <2>2, <2>3, <2>4, <2>5 DEF ILogs
<1>11. IHistory'
  <2>1. Logged' = UNION {ToSet(log'[l]) : l \in Kept} /\ Logged' \subseteq Logged
    BY <1>7, <1>9 DEF Logged
  <2>2. ToSet(history) \subseteq SeqNums
    <3>1. history \in Seq(SeqNums)
      BY <1>1 DEF IType, CallerType
    <3> HIDE DEF SeqNums
    <3> QED BY <3>1, ToSetMember
  <2>3. ASSUME NEW s \in ToSet(history), NEW t \in Logged', s < t PROVE s \in manifest.tables \union Logged'
    <3> SUFFICES ASSUME s \notin manifest.tables PROVE s \in Logged'
      OBVIOUS
    <3>1. PICK k \in Kept : t \in ToSet(log'[k])
      BY <2>1
    <3>2. k \in LogNums /\ t \in ToSet(log[k]) /\ t \in Logged
      BY <1>9, <2>1, <3>1
    <3>3. s \in Logged
      BY <2>3, <3>2 DEF IInv, IHistory
    <3>4. PICK l \in Kept : s \in ToSet(log[l])
      BY <3>3 DEF Logged
    <3>5. l \in LogNums /\ l \in Nat /\ k \in Nat
      BY <3>2 DEF Kept, LogNums
    <3>6. PICK i \in 1 .. Len(log[l]) : log[l][i] = s
      BY <1>1, <3>4, <3>5, LogTypes
    <3>7. PICK j \in 1 .. len[k] : log[k][j] = t
      <4>1. \A x : x \in ToSet(log'[k]) <=> \E h \in 1 .. len[k] : log[k][h] = x
        BY <1>5, <3>2, Zenon
      <4> QED BY <3>1, <4>1
    <3>8. j \in DOMAIN log[k] /\ len[k] \in Nat /\ len[l] \in Nat
      BY <1>5, <3>2, <3>5
    <3>9. i \in DOMAIN log[l]
      BY <1>1, <3>5, LogTypes
    <3>10. s \in Nat /\ t \in Nat
      <4>1. s \in SeqNums /\ t \in SeqNums
        BY <1>1, <2>2, <3>2, LogTypes
      <4> QED BY <4>1 DEF SeqNums
    <3>11. CASE i \in 1 .. len[l]
      <4>1. s \in ToSet(log'[l])
        BY <1>5, <3>5, <3>6, <3>11
      <4> QED BY <2>1, <3>4, <4>1
    <3>12. CASE i \notin 1 .. len[l]
      <4>1. i > len[l]
        BY <3>8, <3>12
      <4>2. durable[l] # Len(log[l])
        BY <1>5, <3>5, <4>1
      <4>3. log[k] # <<>>
        BY <3>2, <3>7, <3>8
      <4>4. ~ (l < k)
        BY <3>1, <3>4, <4>2, <4>3 DEF IInv, ILogs
      <4>5. ~ (k < l)
        <5>1. k < l => t < s
          BY <3>1, <3>2, <3>4 DEF IInv, ILogs
        <5> QED BY <2>3, <3>10, <5>1
      <4>6. l = k
        BY <3>5, <4>4, <4>5
      <4>7. j < i
        BY <3>8, <4>1, <4>6
      <4>8. t < s
        BY <3>4, <3>6, <3>7, <3>8, <3>9, <4>6, <4>7 DEF IInv, ILogs
      <4> QED BY <2>3, <3>10, <4>8
    <3> QED BY <3>11, <3>12
  <2>4. Logged' \subseteq ToSet(history)
    BY <2>1 DEF IInv, IHistory
  <2> QED BY <1>1, <1>7, <2>3, <2>4 DEF IInv, IHistory
<1>12. IAcked'
  <2> SUFFICES ASSUME NEW s \in acked, s \notin manifest.tables
               PROVE  \E l \in Kept : \E j \in 1 .. durable'[l] : log'[l][j] = s
    BY <1>1, <1>7 DEF IAcked
  <2>1. PICK l \in Kept : \E j \in 1 .. durable[l] : log[l][j] = s
    BY DEF IInv, IAcked
  <2>2. l \in LogNums
    BY <1>9
  <2>3. PICK j \in 1 .. durable[l] : log[l][j] = s
    BY <2>1
  <2>4. j \in 1 .. len[l]
    BY <1>5, <2>2
  <2>5. durable'[l] = len[l] /\ log'[l][j] = s
    BY <1>5, <2>2, <2>3, <2>4
  <2> QED BY <2>4, <2>5
<1>13. names' \union linked' \subseteq names \union linked
  BY <1>2
<1> QED BY <1>1, <1>6, <1>8, <1>10, <1>11, <1>12, <1>13, Stopped

LEMMA BeginCloseStep == IInv /\ BeginClose => IInv'
<1> SUFFICES ASSUME IInv, BeginClose PROVE IInv'
  OBVIOUS
<1> USE DEF diskVars, memVars
<1>1. IType /\ IPhase /\ status = "up" /\ status' = "closing" /\ nextFile <= MaxLogNum /\ rot.pc = "idle"
      /\ crashes' \in Nat
      /\ UNCHANGED <<diskVars, memVars, rot, flush, replayed, history, waiting, acked, flushErrors>>
  BY DEF BeginClose, IInv, IType, CallerType
<1>2. Opened /\ Opened' /\ Serving /\ Serving' /\ Running /\ Running' /\ Current' = Current /\ Kept' = Kept
      /\ Logged' = Logged /\ (Large' <=> Large) /\ Pending' = Pending /\ Top' = Top /\ (Rotating' <=> Rotating)
      /\ \A i : LogOf(i)' = LogOf(i) /\ (Flushed(i)' <=> Flushed(i))
  BY <1>1 DEF Opened, Serving, Running, Current, Kept, Logged, Large, Pending, LogOf, Flushed, Top, Rotating
<1>3. IType'
  BY <1>1 DEF IType, DiskType, MemType, RunType, CallerType
<1>4. IPhase'
  BY <1>1, <1>2 DEF IPhase
<1>5. INumbers'
  BY <1>1, <1>2 DEF IInv, INumbers
<1>6. INames'
  BY <1>1, <1>2 DEF IInv, INames
<1>7. ILogs'
  BY <1>1, <1>2 DEF IInv, ILogs
<1>8. IHistory'
  BY <1>1, <1>2 DEF IInv, IHistory
<1>9. IOrder' /\ IFlush' /\ IAcked'
  BY <1>1, SameOrder, SameFlush, SameAcked DEF IInv
<1>10. IQueue'
  BY <1>1, <1>2 DEF IInv, IQueue
<1>11. ICovered'
  BY <1>1, <1>2 DEF IInv, ICovered
<1> QED BY <1>3, <1>4, <1>5, <1>6, <1>7, <1>8, <1>9, <1>10, <1>11 DEF IInv

LEMMA FinishCloseStep == IInv /\ FinishClose => IInv'
<1> SUFFICES ASSUME IInv, FinishClose PROVE IInv'
  OBVIOUS
<1>1. Running /\ Opened /\ nextFile <= MaxLogNum /\ Forget /\ IType
      /\ UNCHANGED <<names, linked, log, torn, manifest, strict, history, crashes, flushErrors>>
  BY DEF FinishClose, Running, Opened, IInv, IPhase
<1>2. /\ IAcked' /\ acked' \subseteq SeqNums /\ waiting' \subseteq SeqNums
      /\ durable' \in [LogNums -> Nat] /\ Current \in LogNums
      /\ \A l \in LogNums : durable'[l] = IF l = Current THEN Len(log[l]) ELSE durable[l]
      /\ \A l \in LogNums : durable'[l] <= Len(log[l])
  BY <1>1, SyncCurrent DEF FinishClose, SealLog
<1>3. DiskType' /\ CallerType'
  <2>1. closed' \subseteq LogNums
    BY <1>1, <1>2 DEF FinishClose, SealLog, IType, DiskType
  <2> QED BY <1>1, <1>2, <2>1 DEF IType, DiskType, CallerType
<1>4. status' = "down" /\ rot'.pc = "idle" /\ ~Opened' /\ ~Serving' /\ Kept' = Kept /\ Logged' = Logged
  BY <1>1, IdleRecord DEF Forget, Opened, Serving, Kept, Logged
<1>5. INames'
  BY <1>1, <1>4 DEF IInv, INames
<1>6. ILogs'
  <2>1. \A l \in Kept : l \in LogNums
    BY DEF Kept
  <2> QED BY <1>1, <1>2, <1>4, <2>1 DEF IInv, ILogs
<1>7. IHistory'
  BY <1>1, <1>4 DEF IInv, IHistory
<1> QED BY <1>1, <1>2, <1>3, <1>5, <1>6, <1>7, Stopped

-----------------------------------------------------------------------------
(* Open.                                                                   *)

(* Open replays every batch of the kept logs. *)
LEMMA RecordsLogged == IInv => Records = Logged
<1> SUFFICES ASSUME IInv PROVE Records = Logged
  OBVIOUS
<1>1. names \subseteq LogNums /\ IType
  BY DEF IInv, IType, DiskType
<1>2. ReplayLogs \subseteq Kept
  BY <1>1 DEF ReplayLogs, Kept
<1>3. ASSUME NEW l \in Kept, NEW s \in ToSet(log[l]) PROVE l \in ReplayLogs
  <2>1. l \in LogNums /\ l >= manifest.min /\ l \in Nat /\ manifest.min \in Nat
    <3>1. manifest.min \in Nat /\ l \in LogNums /\ l >= manifest.min
      BY <1>1, RecordTypes DEF Kept
    <3> QED BY <3>1 DEF LogNums
  <2>2. log[l] # <<>>
    BY <1>3, ToSetEmpty
  <2>3. l \in names
    BY <2>1, <2>2 DEF IInv, INames
  <2> QED BY <2>1, <2>3 DEF ReplayLogs
<1> QED BY <1>2, <1>3 DEF Records, Logged

LEMMA RecoveredNumbers ==
  ASSUME IInv, ~Running
  PROVE  /\ RecoveredSeqNum \in 1 .. MaxSeqNum + 1 /\ manifest.last < RecoveredSeqNum
         /\ \A s \in Logged : s < RecoveredSeqNum
         /\ RecoveredFileNum \in 1 .. MaxLogNum /\ manifest.next <= RecoveredFileNum
         /\ manifest.min < RecoveredFileNum
         /\ \A l \in names \union linked : l < RecoveredFileNum
         /\ Max({0} \union {l + 1 : l \in names}) \in Nat
<1> DEFINE S == {manifest.last + 1} \union {r + 1 : r \in Records}
           F == {manifest.next, manifest.min + 1} \union {l + 1 : l \in names}
           G == {0} \union {l + 1 : l \in names}
<1>1. IType /\ names \subseteq LogNums /\ linked \subseteq LogNums /\ Records = Logged
  BY RecordsLogged DEF IInv, IType, DiskType
<1>2. manifest.last \in 0 .. MaxSeqNum /\ manifest.next \in Nat /\ manifest.min \in Nat
  BY <1>1, RecordTypes
<1>3. Logged \subseteq SeqNums
  <2>1. ASSUME NEW l \in Kept PROVE ToSet(log[l]) \subseteq SeqNums
    BY <1>1, LogTypes DEF Kept
  <2> QED BY <2>1 DEF Logged
<1>4. manifest.min < MaxLogNum /\ manifest.next <= MaxLogNum /\ \A l \in names \union linked : l < MaxLogNum
  BY DEF IInv, INumbers, Top
<1>5. S \subseteq Nat /\ S # {} /\ \A x \in S : x <= MaxSeqNum + 1
  BY <1>1, <1>2, <1>3 DEF SeqNums
<1>6. Max(S) \in S /\ \A x \in S : x <= Max(S)
  <2>1. MaxSeqNum + 1 \in Nat
    OBVIOUS
  <2> HIDE DEF S
  <2> QED BY <1>5, <2>1, MaxNat
<1>7. F \subseteq Nat /\ F # {} /\ \A x \in F : x <= MaxLogNum
  BY <1>1, <1>2, <1>4 DEF LogNums
<1>8. Max(F) \in F /\ \A x \in F : x <= Max(F)
  <2>1. MaxLogNum \in Nat
    OBVIOUS
  <2> HIDE DEF F
  <2> QED BY <1>7, <2>1, MaxNat
<1>9. G \subseteq Nat /\ G # {} /\ \A x \in G : x <= MaxLogNum
  BY <1>1, <1>4 DEF LogNums
<1>10. Max(G) \in Nat
  <2>1. MaxLogNum \in Nat
    OBVIOUS
  <2> HIDE DEF G
  <2> QED BY <1>9, <2>1, MaxNat
<1>11. RecoveredSeqNum = Max(S) /\ RecoveredFileNum = Max(F)
  BY DEF RecoveredSeqNum, RecoveredFileNum
<1> DEFINE a == Max(S)
           b == Max(F)
<1>12. a \in Nat /\ a <= MaxSeqNum + 1 /\ b \in Nat /\ b <= MaxLogNum
  BY <1>5, <1>6, <1>7, <1>8
<1>13. manifest.last + 1 <= a /\ \A r \in Logged : r + 1 <= a
  BY <1>1, <1>6
<1>14. manifest.next <= b /\ manifest.min + 1 <= b /\ \A l \in names : l + 1 <= b
  BY <1>8
<1>15. \A l \in linked : l \in names \/ l < manifest.min
  BY DEF IInv, INames
<1> HIDE DEF S, F, G, a, b
<1>16. a \in 1 .. MaxSeqNum + 1 /\ manifest.last < a /\ \A s \in Logged : s < a
  BY <1>2, <1>3, <1>12, <1>13 DEF SeqNums
<1>17. b \in 1 .. MaxLogNum /\ manifest.min < b /\ \A l \in names \union linked : l < b
  BY <1>1, <1>2, <1>12, <1>14, <1>15 DEF LogNums
<1> QED BY <1>10, <1>11, <1>14, <1>16, <1>17 DEF a, b, G

LEMMA ReplayStep == IInv /\ Replay => IInv'
<1> SUFFICES ASSUME IInv, Replay PROVE IInv'
  OBVIOUS
<1> USE DEF diskVars, memVars
<1>1. IType /\ IPhase /\ status = "down" /\ ~Running /\ ~Opened /\ ~Serving
      /\ UNCHANGED <<diskVars, rot, flush, history, waiting, acked, crashes, flushErrors>>
  BY DEF IInv, Replay, Running, Opened, Serving
<1>2. flush.pc = "idle" /\ rot.pc = "idle" /\ rot = Idle /\ rot.batch.seqNum = 0 /\ rot.batch.size = 0
  BY <1>1, IdleRecord DEF IPhase
<1>3. CASE Refused
  <2>1. status' = "failed" /\ UNCHANGED <<memVars, replayed>>
    BY <1>3 DEF Replay
  <2>2. ~Running' /\ ~Opened' /\ ~Serving' /\ Kept' = Kept /\ Logged' = Logged /\ Top' = Top
        /\ (Large' <=> Large) /\ (Rotating' <=> Rotating)
    BY <1>1, <2>1 DEF Running, Opened, Serving, Kept, Logged, Top, Large, Rotating
  <2>3. IType'
    BY <1>1, <2>1 DEF IType, DiskType, MemType, RunType, CallerType
  <2>4. IPhase'
    BY <1>1, <1>2, <2>1, <2>2 DEF IPhase
  <2>5. INumbers'
    <3>1. ~Rotating
      BY <1>2 DEF Rotating
    <3>2. /\ \A l \in names \union linked : l < Top
          /\ manifest.min < Top /\ manifest.next <= Top
          /\ \A l \in ToSet(recycler.logNums) \union ToSet(flush.delete) : l < manifest.min
      BY DEF IInv, INumbers
    <3> QED BY <1>1, <1>2, <2>1, <2>2, <3>1, <3>2 DEF INumbers
  <2>6. INames'
    BY <1>1, <1>2, <2>1 DEF IInv, INames
  <2>7. ILogs'
    BY <1>1, <1>2, <2>1, <2>2 DEF IInv, ILogs
  <2>8. IHistory'
    BY <1>1, <2>1, <2>2 DEF IInv, IHistory
  <2>9. IOrder' /\ IFlush' /\ IAcked'
    BY <1>1, <2>1, SameOrder, SameFlush, SameAcked DEF IInv
  <2>10. IQueue'
    BY <1>1, <1>2, <2>1, <2>2 DEF IInv, IQueue, Large
  <2>11. ICovered'
    BY <2>2 DEF ICovered
  <2> QED BY <2>3, <2>4, <2>5, <2>6, <2>7, <2>8, <2>9, <2>10, <2>11 DEF IInv
<1>4. CASE ~Refused
  <2> DEFINE e == Entry("memtable", 0, manifest.last + 1, InitialMemTableSize, {})
             g == Max({0} \union {l + 1 : l \in names})
  <2>1. /\ status' = "replayed" /\ replayed' = Records /\ logSeqNum' = RecoveredSeqNum
        /\ nextFile' = RecoveredFileNum /\ minLog' = manifest.min
        /\ recycler' = [recycler EXCEPT !.minRecycle = g]
        /\ queue' = <<e>> /\ logQueue' = logQueue
    BY <1>4 DEF Replay
  <2>2. nextSize' \in Nat
    <3>1. InitialMemTableSize \in Nat
      OBVIOUS
    <3>2. Ramp(InitialMemTableSize) \in Nat
      BY <3>1, RampType
    <3>3. Ramp(Ramp(InitialMemTableSize)) \in Nat
      BY <3>2, RampType
    <3> QED BY <1>4, <3>2, <3>3 DEF Replay
  <2>3. /\ RecoveredSeqNum \in 1 .. MaxSeqNum + 1 /\ manifest.last < RecoveredSeqNum
        /\ \A s \in Logged : s < RecoveredSeqNum
        /\ RecoveredFileNum \in 1 .. MaxLogNum /\ manifest.next <= RecoveredFileNum
        /\ manifest.min < RecoveredFileNum
        /\ \A l \in names \union linked : l < RecoveredFileNum
        /\ g \in Nat
    BY <1>1, RecoveredNumbers
  <2>4. Records = Logged /\ Logged \subseteq SeqNums
    <3>1. Records = Logged
      BY RecordsLogged
    <3>2. ASSUME NEW l \in Kept PROVE ToSet(log[l]) \subseteq SeqNums
      BY <1>1, LogTypes DEF Kept
    <3> QED BY <3>1, <3>2 DEF Logged
  <2>5. e \in EntryType /\ e.seqNums = {} /\ e.base = manifest.last + 1
    <3>1. manifest.last + 1 \in Nat
      <4>1. manifest.last \in Nat
        BY <1>1, RecordTypes
      <4> QED BY <4>1
    <3> DEFINE base == manifest.last + 1
    <3> HIDE DEF base
    <3>2. Entry("memtable", 0, base, InitialMemTableSize, {}) \in EntryType
          /\ Entry("memtable", 0, base, InitialMemTableSize, {}).seqNums = {}
          /\ Entry("memtable", 0, base, InitialMemTableSize, {}).base = base
      BY <3>1 DEF Entry, EntryType, base
    <3> QED BY <3>2 DEF base
  <2> HIDE DEF g, e
  <2>6. /\ queue' \in Seq(EntryType) /\ queue' # <<>> /\ Len(queue') = 1 /\ DOMAIN queue' = {1} /\ queue'[1] = e
    <3> HIDE DEF EntryType
    <3> QED BY <2>1, <2>5
  <2>7. recycler' \in RecyclerType /\ recycler'.logNums = recycler.logNums
    <3>1. recycler \in RecyclerType
      BY <1>1 DEF IType, MemType
    <3> QED BY <2>1, <2>3, <3>1 DEF RecyclerType
  <2> DEFINE a == RecoveredSeqNum
             b == RecoveredFileNum
  <2> HIDE DEF a, b
  <2>8. /\ a \in 1 .. MaxSeqNum + 1 /\ manifest.last < a /\ a \in Nat /\ (\A s \in Logged : s < a)
        /\ b \in 1 .. MaxLogNum + 1 /\ b <= MaxLogNum /\ b \in Nat /\ manifest.next <= b /\ manifest.min < b
        /\ (\A l \in names \union linked : l < b)
        /\ logSeqNum' = a /\ nextFile' = b
    <3>1. /\ a \in 1 .. MaxSeqNum + 1 /\ manifest.last < a /\ (\A s \in Logged : s < a)
          /\ b \in 1 .. MaxLogNum /\ manifest.next <= b /\ manifest.min < b
          /\ (\A l \in names \union linked : l < b)
          /\ logSeqNum' = a /\ nextFile' = b
      BY <2>1, <2>3 DEF a, b
    <3> QED BY <3>1
  <2>9. Running' /\ ~Opened' /\ ~Serving' /\ Kept' = Kept /\ Logged' = Logged /\ Top' = b
        /\ ~Large' /\ Pending' = a
    BY <1>1, <1>2, <2>1, <2>8 DEF Running, Opened, Serving, Kept, Logged, Top, Large, Pending
  <2>10. IType'
    <3>1. minLog' \in 0 .. MaxLogNum
      BY <1>1, <2>1, RecordTypes
    <3> QED BY <1>1, <2>1, <2>2, <2>4, <2>6, <2>7, <2>8, <3>1 DEF IType, DiskType, MemType, RunType, CallerType
  <2>11. IPhase'
    BY <1>1, <1>2, <2>1, <2>5, <2>6, <2>8, <2>9 DEF IPhase, Rotating
  <2>12. INumbers'
    BY <1>1, <1>2, <2>1, <2>7, <2>8, <2>9 DEF IInv, INumbers, Rotating
  <2>13. INames'
    BY <1>1, <1>2, <2>1 DEF IInv, INames
  <2>14. ILogs'
    BY <1>1, <1>2, <2>1, <2>9 DEF IInv, ILogs
  <2>15. IHistory'
    BY <1>1, <2>1, <2>4, <2>8, <2>9 DEF IInv, IHistory
  <2>16. IOrder'
    <3>1. manifest.last + 1 <= a
      <4>1. manifest.last \in Nat /\ a \in Nat /\ manifest.last < a
        BY <1>1, <2>8, RecordTypes
      <4> QED BY <4>1
    <3> QED BY <2>5, <2>6, <2>9, <3>1 DEF IOrder
  <2>17. IQueue'
    BY <2>6, <2>9 DEF IQueue
  <2>18. ICovered' /\ IFlush'
    BY <1>1, <1>2, <2>9 DEF ICovered, IFlush
  <2>19. IAcked'
    BY <1>1, SameAcked DEF IInv
  <2> QED BY <2>10, <2>11, <2>12, <2>13, <2>14, <2>15, <2>16, <2>17, <2>18, <2>19 DEF IInv
<1> QED BY <1>3, <1>4

LEMMA OpenCreateStep == IInv /\ OpenCreate => IInv'
<1> SUFFICES ASSUME IInv, OpenCreate PROVE IInv'
  OBVIOUS
<1> DEFINE f == nextFile
           e == [queue[1] EXCEPT !.logNum = f]
<1>1. IType /\ IPhase /\ status = "replayed" /\ status' = "created" /\ Running /\ ~Serving
      /\ nextFile' = f + 1 /\ names' = names \union {f} /\ logQueue' = <<f>>
      /\ queue' = [queue EXCEPT ![1] = e]
      /\ UNCHANGED <<linked, log, durable, closed, torn, manifest, strict, logSeqNum, minLog, nextSize, recycler,
                     rot, flush, replayed, history, waiting, acked, crashes, flushErrors>>
  BY DEF IInv, OpenCreate, Running, Serving
<1>2. flush.pc = "idle" /\ rot.pc = "idle" /\ rot = Idle /\ rot.batch.seqNum = 0 /\ rot.batch.size = 0
      /\ Len(queue) = 1 /\ queue[1].seqNums = {} /\ f <= MaxLogNum
  BY <1>1, IdleRecord DEF IPhase
<1>3. f \in LogNums /\ f \in Nat /\ f > 0 /\ f + 1 \in 1 .. MaxLogNum + 1 /\ f \in 0 .. MaxLogNum
  <2>1. nextFile \in 1 .. MaxLogNum + 1
    BY <1>1 DEF IType, MemType
  <2> QED BY <1>2, <2>1 DEF LogNums
<1>4. manifest.min \in Nat /\ manifest.min < f /\ manifest.next <= f /\ manifest.next \in Nat
      /\ \A l \in names \union linked : l < f
  BY <1>1, RecordTypes DEF IInv, INumbers, Top
<1> HIDE DEF f
<1>5. e \in EntryType /\ e.seqNums = {} /\ e.logNum = f /\ e.base = queue[1].base
  <2>1. queue[1] \in EntryType
    BY <1>1, <1>2, QueueTypes
  <2> QED BY <1>2, <1>3, <2>1 DEF EntryType
<1> HIDE DEF e
<1>6. queue' \in Seq(EntryType) /\ Len(queue') = 1 /\ DOMAIN queue' = {1} /\ queue'[1] = e /\ queue' # <<>>
  <2>1. queue \in Seq(EntryType) /\ 1 \in 1 .. Len(queue)
    BY <1>1, <1>2 DEF IType, MemType
  <2> HIDE DEF EntryType
  <2>2. queue' \in Seq(EntryType) /\ Len(queue') = Len(queue) /\ queue'[1] = e
    BY <1>1, <1>5, <2>1, ExceptSeq
  <2>3. DOMAIN queue' = 1 .. Len(queue') /\ (queue' # <<>> <=> Len(queue') # 0)
    BY <2>2, LenProperties, EmptySeq
  <2> QED BY <1>2, <2>2, <2>3
<1>7. logQueue' \in Seq(LogNums) /\ logQueue' # <<>> /\ Current' = f
  <2> HIDE DEF LogNums
  <2> QED BY <1>1, <1>3 DEF Current, Last
<1>8. Opened' /\ Running' /\ ~Serving' /\ Kept' = Kept /\ Logged' = Logged /\ Top' = f + 1
      /\ ~Large' /\ Pending' = Pending
  BY <1>1, <1>2 DEF Opened, Running, Serving, Kept, Logged, Top, Large, Pending
<1>9. IType'
  BY <1>1, <1>3, <1>6, <1>7 DEF IType, DiskType, MemType, RunType, CallerType
<1>10. IPhase'
  BY <1>1, <1>2, <1>5, <1>6, <1>7, <1>8 DEF IPhase, Rotating
<1>11. \A l \in names \union linked : l \in Nat
  BY <1>1 DEF IType, DiskType, LogNums
<1>12. INumbers'
  <2>1. \A l \in names' \union linked : l < f + 1
    BY <1>1, <1>3, <1>4, <1>11
  <2>2. manifest.min < f + 1 /\ manifest.next <= f + 1 /\ manifest.min <= f /\ f < f + 1
    BY <1>3, <1>4
  <2>3. \A l \in ToSet(recycler.logNums) \union ToSet(flush.delete) : l < manifest.min
    BY DEF IInv, INumbers
  <2> QED BY <1>1, <1>2, <1>4, <1>7, <1>8, <2>1, <2>2, <2>3 DEF INumbers, Rotating
<1>13. INames'
  BY <1>1, <1>2, <1>7 DEF IInv, INames
<1>14. ILogs'
  <2>1. ASSUME NEW l \in LogNums, l >= f PROVE log[l] = <<>>
    <3>1. l \in Nat
      BY DEF LogNums
    <3>2. ~ (l < manifest.min) /\ ~ (l < f)
      BY <1>3, <1>4, <2>1, <3>1
    <3> QED BY <1>4, <3>2 DEF IInv, INames
  <2>2. log[f] = <<>> /\ \A l \in LogNums : l > f => log[l] = <<>>
    BY <1>3, <2>1 DEF LogNums
  <2> QED BY <1>1, <1>2, <1>7, <1>8, <2>2 DEF IInv, ILogs
<1>15. IHistory'
  BY <1>1, <1>8 DEF IInv, IHistory
<1>16. IOrder'
  <2>1. queue[1].base <= Pending
    <3>1. queue # <<>>
      BY <1>1 DEF IPhase
    <3> QED BY <1>2, <3>1 DEF IInv, IOrder
  <2> QED BY <1>5, <1>6, <1>8, <2>1 DEF IOrder
<1>17. IQueue'
  <2>1. ASSUME NEW i, i = 1 PROVE LogOf(i)' = f /\ ~Flushed(i)'
    BY <1>1, <1>2, <1>3, <1>5, <1>6, <2>1 DEF LogOf, Flushed
  <2>2. f # 0 /\ f >= manifest.min
    BY <1>3, <1>4
  <2> QED BY <1>1, <1>5, <1>6, <1>7, <1>8, <2>1, <2>2 DEF IQueue
<1>18. ICovered' /\ IFlush'
  BY <1>1, <1>2, <1>8 DEF ICovered, IFlush
<1>19. IAcked'
  BY <1>1, SameAcked DEF IInv
<1> QED BY <1>9, <1>10, <1>12, <1>13, <1>14, <1>15, <1>16, <1>17, <1>18, <1>19 DEF IInv

LEMMA OpenSyncDirStep == IInv /\ OpenSyncDir => IInv'
<1> SUFFICES ASSUME IInv, OpenSyncDir PROVE IInv'
  OBVIOUS
<1> USE DEF memVars
<1>1. IType /\ IPhase /\ status = "created" /\ status' = "linked" /\ linked' = names
      /\ UNCHANGED <<names, log, durable, closed, torn, manifest, strict, memVars, rot, flush, replayed, history,
                     waiting, acked, crashes, flushErrors>>
  BY DEF IInv, OpenSyncDir
<1>2. flush.pc = "idle" /\ rot.pc = "idle" /\ ~Rotating
  BY <1>1 DEF IPhase, Rotating
<1>3. Opened /\ Opened' /\ Running /\ Running' /\ ~Serving /\ ~Serving' /\ Current' = Current /\ Kept' = Kept
      /\ Logged' = Logged /\ (Large' <=> Large) /\ Pending' = Pending /\ Top' = Top /\ ~Rotating'
      /\ \A i : LogOf(i)' = LogOf(i) /\ (Flushed(i)' <=> Flushed(i))
  BY <1>1, <1>2 DEF Opened, Serving, Running, Current, Kept, Logged, Large, Pending, LogOf, Flushed, Top, Rotating
<1>4. IType'
  BY <1>1 DEF IType, DiskType, MemType, RunType, CallerType
<1>5. IPhase'
  BY <1>1, <1>3 DEF IPhase
<1>6. INumbers'
  BY <1>1, <1>2, <1>3 DEF IInv, INumbers
<1>7. INames'
  BY <1>1, <1>2, <1>3 DEF IInv, INames
<1>8. ILogs'
  BY <1>1, <1>2, <1>3 DEF IInv, ILogs
<1>9. IHistory'
  BY <1>1, <1>3 DEF IInv, IHistory
<1>10. IOrder' /\ IFlush' /\ IAcked'
  BY <1>1, SameOrder, SameFlush, SameAcked DEF IInv
<1>11. IQueue'
  BY <1>1, <1>3 DEF IInv, IQueue
<1>12. ICovered'
  BY <1>3 DEF ICovered
<1> QED BY <1>4, <1>5, <1>6, <1>7, <1>8, <1>9, <1>10, <1>11, <1>12 DEF IInv

(* A set of commits that has every commit before one of its own is a prefix of the history. *)
LEMMA ClosedPrefix ==
  ASSUME NEW S, NEW h \in Seq(SeqNums), \A i, j \in DOMAIN h : i < j => h[i] < h[j],
         S \subseteq ToSet(h), \A s \in ToSet(h), t \in S : s < t => s \in S,
         NEW k, k = Max({0} \union {i \in DOMAIN h : h[i] \in S})
  PROVE  /\ k \in 0 .. Len(h) /\ ToSet(SubSeq(h, 1, k)) = S
         /\ SubSeq(h, 1, k) \in Seq(SeqNums)
         /\ LET a == SubSeq(h, 1, k) IN \A i, j \in DOMAIN a : i < j => a[i] < a[j]
<1> DEFINE I == {0} \union {i \in DOMAIN h : h[i] \in S}
           a == SubSeq(h, 1, k)
<1>1. /\ Len(h) \in Nat /\ DOMAIN h = 1 .. Len(h)
      /\ \A x : x \in ToSet(h) <=> \E i \in 1 .. Len(h) : h[i] = x
      /\ \A i \in 1 .. Len(h) : h[i] \in ToSet(h)
  <2> HIDE DEF SeqNums
  <2> QED BY ToSetMember
<1>2. I \subseteq Nat /\ I # {} /\ \A i \in I : i <= Len(h)
  BY <1>1
<1>3. k \in I /\ \A i \in I : i <= k
  <2>1. k = Max(I)
    OBVIOUS
  <2> HIDE DEF I
  <2> QED BY <1>1, <1>2, <2>1, MaxNat
<1>4. k \in 0 .. Len(h) /\ k \in Nat /\ (k > 0 => k \in DOMAIN h /\ h[k] \in S)
  BY <1>1, <1>2, <1>3
<1>5. 1 \in 1 .. Len(h) + 1
  BY <1>1
<1>6. /\ a \in Seq(SeqNums) /\ Len(a) = (IF 1 <= k THEN k - 1 + 1 ELSE 0)
      /\ \A i \in 1 .. k - 1 + 1 : a[i] = h[1 + i - 1]
      /\ \A x : x \in ToSet(a) <=> \E i \in 1 .. k : h[i] = x
  <2>1. ASSUME NEW m \in 0 .. Len(h)
        PROVE  /\ SubSeq(h, 1, m) \in Seq(SeqNums)
               /\ Len(SubSeq(h, 1, m)) = (IF 1 <= m THEN m - 1 + 1 ELSE 0)
               /\ \A i \in 1 .. m - 1 + 1 : SubSeq(h, 1, m)[i] = h[1 + i - 1]
               /\ \A x : x \in ToSet(SubSeq(h, 1, m)) <=> \E i \in 1 .. m : h[i] = x
    <3> HIDE DEF SeqNums
    <3> QED BY <1>5, ToSetSubSeq
  <2> QED BY <1>4, <2>1
<1> HIDE DEF a
<1>7. Len(a) = k
  BY <1>4, <1>6
<1>8. DOMAIN a = 1 .. k
  <2> HIDE DEF SeqNums
  <2> QED BY <1>6, <1>7, LenProperties
<1>9. \A i \in 1 .. k : a[i] = h[i] /\ i \in DOMAIN h
  <2> SUFFICES ASSUME NEW i \in 1 .. k PROVE a[i] = h[i] /\ i \in DOMAIN h
    OBVIOUS
  <2>1. i \in 1 .. k - 1 + 1 /\ 1 + i - 1 = i /\ i \in 1 .. Len(h)
    BY <1>1, <1>4
  <2> QED BY <1>1, <1>6, <2>1
<1>10. ASSUME NEW x \in S PROVE x \in ToSet(a)
  <2>1. PICK i \in 1 .. Len(h) : h[i] = x
    BY <1>1
  <2>2. i \in I
    BY <1>1, <2>1
  <2>3. i \in 1 .. k
    BY <1>3, <1>4, <2>2
  <2> QED BY <1>6, <2>1, <2>3
<1>11. ASSUME NEW x \in ToSet(a) PROVE x \in S
  <2>1. PICK i \in 1 .. k : h[i] = x
    BY <1>6
  <2>2. k > 0 /\ k \in DOMAIN h /\ h[k] \in S /\ i \in DOMAIN h
    BY <1>4, <1>9
  <2>3. i = k \/ i < k
    BY <1>4
  <2>4. i < k => h[i] < h[k]
    BY <2>2
  <2>5. h[i] \in ToSet(h)
    BY <1>1, <2>2
  <2> QED BY <2>1, <2>2, <2>3, <2>4, <2>5
<1>12. ToSet(a) = S
  BY <1>10, <1>11
<1>13. \A i, j \in DOMAIN a : i < j => a[i] < a[j]
  BY <1>8, <1>9
<1> QED BY <1>4, <1>6, <1>12, <1>13 DEF a

(* What Open finds is such a set. *)
LEMMA FoundClosed ==
  ASSUME IInv
  PROVE  /\ manifest.tables \union Logged \subseteq ToSet(history)
         /\ \A s \in ToSet(history), t \in manifest.tables \union Logged :
              s < t => s \in manifest.tables \union Logged
  BY DEF IInv, IHistory

LEMMA OpenLogEditStep == IInv /\ OpenLogEdit => IInv'
<1> SUFFICES ASSUME IInv, OpenLogEdit PROVE IInv'
  OBVIOUS
<1> DEFINE T == manifest.tables \union replayed
           c == Current
           k == Max({0} \union {i \in DOMAIN history : history[i] \in T})
           last == logSeqNum - 1
<1> USE DEF memVars
<1>1. IType /\ IPhase /\ status = "linked" /\ status' = "logged"
      /\ manifest' = [min |-> c, next |-> nextFile, last |-> last, tables |-> T]
      /\ history' = SubSeq(history, 1, k)
      /\ UNCHANGED <<names, linked, log, durable, closed, torn, strict, memVars, rot, flush, replayed, waiting,
                     acked, crashes, flushErrors>>
  BY DEF IInv, OpenLogEdit, Surviving
<1>2. flush.pc = "idle" /\ rot.pc = "idle" /\ rot = Idle /\ rot.batch.seqNum = 0 /\ rot.batch.size = 0
      /\ ~Rotating /\ ~Large /\ Pending = logSeqNum
      /\ Len(queue) = 1 /\ queue[1].seqNums = {} /\ logQueue # <<>> /\ queue # <<>>
  BY <1>1, IdleRecord DEF IPhase, Rotating, Large, Pending, Running, Opened
<1>3. T = manifest.tables \union Logged /\ replayed = Logged
  BY <1>1 DEF IInv, IHistory
<1>4. /\ ToSet(history') = T /\ history' \in Seq(SeqNums)
      /\ \A i, j \in DOMAIN history' : i < j => history'[i] < history'[j]
  <2>1. history \in Seq(SeqNums) /\ \A i, j \in DOMAIN history : i < j => history[i] < history[j]
    BY <1>1 DEF IInv, IHistory, IType, CallerType
  <2>2. T \subseteq ToSet(history) /\ \A s \in ToSet(history), t \in T : s < t => s \in T
    BY <1>3, FoundClosed
  <2> HIDE DEF T, SeqNums
  <2> QED BY <1>1, <2>1, <2>2, ClosedPrefix, ZenonT(60)
<1>5. c \in LogNums /\ c \in Nat /\ manifest.min < c /\ c + 1 = nextFile /\ manifest.min \in Nat
      /\ nextFile \in Nat
  BY <1>1, <1>2, CurrentType, RecordTypes DEF IInv, INumbers
<1>6. logSeqNum \in 1 .. MaxSeqNum + 1 /\ last \in 0 .. MaxSeqNum
  BY <1>1 DEF IType, MemType
<1>7. \A s \in T : s <= last /\ s < logSeqNum
  <2>1. \A s \in manifest.tables : s <= manifest.last
    BY DEF IInv, IHistory
  <2>2. manifest.last < logSeqNum /\ \A s \in Logged : s < logSeqNum
    BY <1>1 DEF IInv, IHistory
  <2>3. manifest.last \in Nat /\ manifest.tables \subseteq SeqNums
    BY <1>1, RecordTypes
  <2>4. Logged \subseteq SeqNums
    <3>1. ASSUME NEW l \in Kept PROVE ToSet(log[l]) \subseteq SeqNums
      BY <1>1, LogTypes DEF Kept
    <3> QED BY <3>1 DEF Logged
  <2>5. ASSUME NEW s \in T PROVE s \in Nat /\ s < logSeqNum
    <3>1. s \in Nat
      <4>1. s \in SeqNums
        BY <1>3, <2>3, <2>4
      <4> QED BY <4>1 DEF SeqNums
    <3>2. CASE s \in manifest.tables
      BY <1>6, <2>1, <2>2, <2>3, <3>1, <3>2
    <3>3. CASE s \in Logged
      BY <2>2, <3>1, <3>3
    <3> QED BY <1>3, <3>1, <3>2, <3>3
  <2> QED BY <1>6, <2>5
<1>8. T \subseteq SeqNums
  BY <1>1, <1>3, RecordTypes DEF IType, RunType
<1> HIDE DEF T, c, last, k
<1>9. /\ manifest'.min = c /\ manifest'.next = nextFile /\ manifest'.last = last /\ manifest'.tables = T
      /\ manifest' \in ManifestType
  <2>1. c \in 0 .. MaxLogNum
    BY <1>5 DEF LogNums
  <2> QED BY <1>1, <1>5, <1>6, <1>8, <2>1 DEF ManifestType
<1>10. Opened /\ Opened' /\ Running /\ Running' /\ Serving' /\ Current' = c /\ ~Large' /\ Pending' = logSeqNum
       /\ Top = nextFile /\ Top' = nextFile /\ ~Rotating' /\ \A i : LogOf(i)' = LogOf(i) /\ ~Flushed(i)'
  BY <1>1, <1>2 DEF Opened, Serving, Running, Current, Large, Pending, LogOf, Flushed, Top, Rotating, c
<1>11. \A l \in LogNums : l >= c => log[l] = <<>>
  <2> SUFFICES ASSUME NEW l \in LogNums, l >= c PROVE log[l] = <<>>
    OBVIOUS
  <2>1. l = c \/ l > c
    BY <1>5 DEF LogNums
  <2> QED BY <1>1, <1>10, <2>1 DEF IInv, ILogs, c
<1>12. Kept' \subseteq Kept /\ (\A l \in Kept' : l \in LogNums /\ log[l] = <<>>) /\ Logged' = {}
  <2>1. Kept' = {l \in LogNums : l >= c}
    BY <1>9 DEF Kept
  <2>2. ASSUME NEW l \in Kept' PROVE l \in Kept /\ log[l] = <<>> /\ l \in LogNums
    <3>1. l \in LogNums /\ l >= c
      BY <2>1
    <3>2. l \in Nat
      BY <3>1 DEF LogNums
    <3>3. l >= manifest.min
      BY <1>5, <3>1, <3>2
    <3> QED BY <1>11, <3>1, <3>3 DEF Kept
  <2>3. Logged' = {}
    BY <1>1, <2>2, ToSetEmpty DEF Logged
  <2> QED BY <2>2, <2>3
<1>13. IType'
  BY <1>1, <1>4, <1>9 DEF IType, DiskType, MemType, RunType, CallerType
<1>14. IPhase'
  BY <1>1, <1>2, <1>10 DEF IPhase
<1>15. \A l \in LogNums : l < manifest.min => l < c
  BY <1>5 DEF LogNums
<1>16. INumbers'
  <2>1. c < nextFile /\ c <= c /\ nextFile <= nextFile
    BY <1>5
  <2>2. ASSUME NEW l \in ToSet(recycler.logNums) \union ToSet(flush.delete) PROVE l < c
    <3>1. l < manifest.min /\ l \in LogNums
      BY <1>1, RecordTypes DEF IInv, INumbers
    <3> QED BY <1>15, <3>1
  <2>3. \A l \in names \union linked : l < nextFile
    BY <1>10 DEF IInv, INumbers
  <2> QED BY <1>1, <1>2, <1>9, <1>10, <2>1, <2>2, <2>3 DEF INumbers
<1>17. INames'
  <2>1. \A l \in linked : l \in names \/ l < c
    BY <1>1, <1>15 DEF IInv, INames, IType, DiskType
  <2>2. \A l \in LogNums : log[l] # <<>> => l < c \/ l \in names \intersect linked
    BY <1>15 DEF IInv, INames
  <2>3. c \in names \intersect linked
    BY <1>1 DEF IInv, INames, c
  <2> QED BY <1>1, <1>2, <1>9, <1>10, <2>1, <2>2, <2>3 DEF INames
<1>18. ILogs'
  <2>1. /\ \A l \in LogNums : durable[l] <= Len(log[l])
        /\ \A l \in LogNums : l > c => log[l] = <<>>
        /\ log[c] = <<>>
    BY <1>1, <1>10 DEF IInv, ILogs, c
  <2>2. /\ \A l \in Kept' : \A i, j \in DOMAIN log[l] : i < j => log[l][i] < log[l][j]
        /\ \A l, m \in Kept' : l < m => \A s \in ToSet(log[l]), t \in ToSet(log[m]) : s < t
        /\ \A l, m \in Kept' : l < m /\ log[m] # <<>> => durable[l] = Len(log[l])
    BY <1>12 DEF IInv, ILogs
  <2> QED BY <1>1, <1>2, <1>10, <2>1, <2>2 DEF ILogs
<1>19. IHistory'
  BY <1>1, <1>4, <1>7, <1>9, <1>10, <1>12 DEF IHistory
<1>20. IOrder'
  BY <1>1, SameOrder DEF IInv
<1>21. IQueue'
  <2>1. queue[1].logNum = c /\ DOMAIN queue = {1} /\ c > 0
    <3>1. DOMAIN queue = 1 .. Len(queue)
      BY <1>1, QueueTypes
    <3>2. queue[Len(queue)].logNum = c
      BY <1>10 DEF IInv, IQueue, c
    <3> QED BY <1>2, <1>5, <3>1, <3>2 DEF LogNums
  <2>2. LogOf(1) = c
    BY <2>1 DEF LogOf
  <2>3. \A i \in {1} : LogOf(i)' = c
    BY <1>10, <2>2
  <2>4. \A i \in {1} : LogOf(i)' >= c /\ c # 0
    BY <1>5, <2>1, <2>3
  <2> QED BY <1>1, <1>2, <1>9, <1>10, <2>1, <2>3, <2>4 DEF IQueue
<1>22. ICovered'
  BY <1>4, <1>1, <1>9, <1>12, ToSetEmpty DEF ICovered
<1>23. IFlush'
  BY <1>1, <1>2 DEF IFlush
<1>24. IAcked'
  <2> SUFFICES ASSUME NEW s \in acked PROVE s \in T
    BY <1>1, <1>9 DEF IAcked
  <2>1. CASE s \in manifest.tables
    BY <1>3, <2>1
  <2>2. CASE \E l \in Kept : \E j \in 1 .. durable[l] : log[l][j] = s
    <3>1. PICK l \in Kept : \E j \in 1 .. durable[l] : log[l][j] = s
      BY <2>2
    <3>2. PICK j \in 1 .. durable[l] : log[l][j] = s
      BY <3>1
    <3>3. l \in LogNums
      BY DEF Kept
    <3>4. durable[l] \in Nat /\ Len(log[l]) \in Nat /\ durable[l] <= Len(log[l])
      BY <1>1, <3>3, LogTypes DEF IInv, ILogs
    <3>5. j \in 1 .. Len(log[l])
      BY <3>4
    <3>6. s \in ToSet(log[l])
      BY <1>1, <3>2, <3>3, <3>5, LogTypes
    <3> QED BY <1>3, <3>6 DEF Logged
  <2> QED BY <2>1, <2>2 DEF IInv, IAcked
<1> QED BY <1>13, <1>14, <1>16, <1>17, <1>18, <1>19, <1>20, <1>21, <1>22, <1>23, <1>24 DEF IInv

LEMMA OpenFinishStep == IInv /\ OpenFinish => IInv'
<1> SUFFICES ASSUME IInv, OpenFinish PROVE IInv'
  OBVIOUS
<1> DEFINE c == Current
<1>1. IType /\ IPhase /\ status = "logged" /\ status' = "up" /\ minLog' = c /\ strict' = TRUE
      /\ names' = {l \in names : l >= c} /\ replayed' = {}
      /\ UNCHANGED <<linked, log, durable, closed, torn, manifest, logSeqNum, nextFile, queue, nextSize, logQueue,
                     recycler, rot, flush, history, waiting, acked, crashes, flushErrors>>
  BY DEF IInv, OpenFinish
<1>2. flush.pc = "idle" /\ rot.pc = "idle" /\ ~Rotating /\ logQueue # <<>>
  BY <1>1 DEF IPhase, Rotating, Opened
<1>3. c \in LogNums /\ c \in Nat /\ manifest.min = c
  BY <1>1, <1>2, CurrentType DEF IInv, INumbers
<1>4. Opened /\ Opened' /\ Running /\ Running' /\ Serving /\ Serving' /\ Current' = c /\ Kept' = Kept
      /\ Logged' = Logged /\ (Large' <=> Large) /\ Pending' = Pending /\ Top' = Top /\ ~Rotating'
      /\ \A i : LogOf(i)' = LogOf(i) /\ (Flushed(i)' <=> Flushed(i))
  BY <1>1, <1>2 DEF Opened, Serving, Running, Current, Kept, Logged, Large, Pending, LogOf, Flushed, Top, Rotating
<1>5. names \subseteq LogNums /\ names' \subseteq names /\ \A l \in names : l \in names' \/ l < c
  <2>1. names \subseteq LogNums
    BY <1>1 DEF IType, DiskType
  <2>2. \A l \in names : l >= c \/ l < c
    BY <1>3, <2>1 DEF LogNums
  <2> QED BY <1>1, <2>1, <2>2
<1>6. IType'
  <2>1. minLog' \in 0 .. MaxLogNum
    BY <1>1, <1>3 DEF LogNums
  <2> QED BY <1>1, <1>5, <2>1 DEF IType, DiskType, MemType, RunType, CallerType
<1>7. IPhase'
  BY <1>1, <1>2, <1>4 DEF IPhase
<1> HIDE DEF c
<1>8. INumbers'
  <2>1. names' \union linked \subseteq names \union linked
    BY <1>5
  <2>2. manifest.min <= c /\ c < nextFile
    BY <1>4 DEF IInv, INumbers, c
  <2>3. /\ \A l \in names \union linked : l < Top
        /\ manifest.min < Top /\ manifest.next <= Top
        /\ \A l \in ToSet(recycler.logNums) \union ToSet(flush.delete) : l < manifest.min
    BY DEF IInv, INumbers
  <2> QED BY <1>1, <1>2, <1>3, <1>4, <2>1, <2>2, <2>3 DEF INumbers
<1>9. INames'
  <2>1. \A l \in linked : l \in names' \/ l < manifest.min
    BY <1>3, <1>5 DEF IInv, INames
  <2>2. \A l \in LogNums : log[l] # <<>> => l < manifest.min \/ l \in names' \intersect linked
    BY <1>3, <1>5 DEF IInv, INames
  <2>3. c \in names' \intersect linked
    <3>1. c \in names \intersect linked
      BY <1>1 DEF IInv, INames, c
    <3>2. c >= c
      BY <1>3
    <3> QED BY <1>1, <3>1, <3>2
  <2> QED BY <1>1, <1>2, <1>4, <2>1, <2>2, <2>3 DEF INames
<1>10. ILogs'
  <2>1. \A l \in Kept : ~ (l < c)
    BY <1>3 DEF Kept, LogNums
  <2> QED BY <1>1, <1>2, <1>4, <2>1 DEF IInv, ILogs, c
<1>11. IHistory'
  BY <1>1, <1>4 DEF IInv, IHistory
<1>12. IOrder' /\ IAcked'
  BY <1>1, SameOrder, SameAcked DEF IInv
<1>13. IQueue'
  BY <1>1, <1>4 DEF IInv, IQueue, c
<1>14. ICovered'
  BY <1>1, <1>4 DEF IInv, ICovered, c
<1>15. IFlush'
  BY <1>1, <1>2 DEF IFlush
<1> QED BY <1>6, <1>7, <1>8, <1>9, <1>10, <1>11, <1>12, <1>13, <1>14, <1>15 DEF IInv

-----------------------------------------------------------------------------
(* The invariant, and what follows from it.                                *)

LEMMA InitInv == Init => IInv
<1> SUFFICES ASSUME Init PROVE IInv
  OBVIOUS
<1>1. /\ names = {} /\ linked = {} /\ closed = {} /\ torn = {}
      /\ log = [l \in LogNums |-> <<>>] /\ durable = [l \in LogNums |-> 0]
      /\ manifest = [min |-> 0, next |-> 1, last |-> 0, tables |-> {}]
      /\ strict = FALSE /\ status = "down"
      /\ logSeqNum = 1 /\ nextFile = 1 /\ minLog = 0
      /\ queue = <<>> /\ nextSize = InitialMemTableSize /\ logQueue = <<>>
      /\ recycler = [logNums |-> <<>>, maxLogNum |-> 0, minRecycle |-> 0]
      /\ rot = Idle /\ flush = NoFlush /\ replayed = {}
      /\ history = <<>> /\ waiting = {} /\ acked = {} /\ crashes = 0 /\ flushErrors = 0
  BY DEF Init
<1>2. <<>> \in Seq(LogNums) /\ <<>> \in Seq(EntryType) /\ <<>> \in Seq(SeqNums) /\ Len(<<>>) = 0
  BY EmptySeq
<1>3. ~Opened /\ ~Serving /\ ~Running
  BY <1>1 DEF Opened, Serving, Running
<1>4. rot \in RotType /\ rot.pc = "idle" /\ rot.batch.seqNum = 0 /\ rot.batch.size = 0 /\ ~Large /\ ~Rotating
  BY <1>1, IdleRecord DEF Large, Rotating
<1>5. flush \in FlushType /\ flush.pc = "idle" /\ flush.delete = <<>>
  BY <1>1, RestRecords DEF Rests
<1>6. recycler \in RecyclerType /\ recycler.logNums = <<>>
  BY <1>1, <1>2 DEF RecyclerType
<1>7. manifest \in ManifestType /\ manifest.min = 0 /\ manifest.next = 1 /\ manifest.tables = {}
  BY <1>1 DEF ManifestType
<1>8. log \in [LogNums -> Seq(SeqNums)] /\ durable \in [LogNums -> Nat]
      /\ \A l \in LogNums : log[l] = <<>> /\ durable[l] = 0
  <2> HIDE DEF LogNums, SeqNums
  <2> QED BY <1>1, <1>2
<1>9. IType
  <2>1. DiskType
    BY <1>1, <1>7, <1>8 DEF DiskType
  <2>2. MemType
    BY <1>1, <1>2, <1>6 DEF MemType
  <2>3. RunType
    BY <1>1, <1>4, <1>5 DEF RunType
  <2>4. CallerType
    BY <1>1, <1>2 DEF CallerType
  <2> QED BY <2>1, <2>2, <2>3, <2>4 DEF IType
<1>10. IPhase
  BY <1>1, <1>3, <1>4, <1>5 DEF IPhase
<1>11. INumbers
  BY <1>1, <1>3, <1>4, <1>5, <1>6, <1>7, ToSetEmpty DEF INumbers, Top
<1>12. INames
  BY <1>1, <1>4, <1>8 DEF INames
<1>13. ILogs
  <2>1. \A l \in Kept : l \in LogNums
    BY DEF Kept
  <2> QED BY <1>1, <1>2, <1>3, <1>4, <1>8, <2>1, ToSetEmpty DEF ILogs
<1>14. IHistory
  <2>1. Logged = {} /\ ToSet(history) = {}
    BY <1>1, <1>8, ToSetEmpty DEF Logged, Kept
  <2> QED BY <1>1, <1>3, <1>7, <2>1 DEF IHistory
<1>15. IOrder /\ IQueue /\ ICovered /\ IFlush /\ IAcked
  BY <1>1, <1>3, <1>4, <1>5 DEF IOrder, IQueue, ICovered, IFlush, IAcked
<1> QED BY <1>9, <1>10, <1>11, <1>12, <1>13, <1>14, <1>15 DEF IInv

(* What a compaction out of L0 changes is not the invariant's. *)
LEMMA CompactL0Step ==
  ASSUME IInv,
         UNCHANGED <<diskVars, status, memVars, rot, flush, replayed, history, waiting, acked, crashes, flushErrors>>
  PROVE  IInv'
<1> USE DEF diskVars, memVars
<1>1. IType'
  BY DEF IInv, IType, DiskType, MemType, RunType, CallerType
<1>2. IPhase' /\ INumbers' /\ INames' /\ ILogs' /\ IAcked' /\ IFlush'
  BY SamePhase, SameNumbers, SameNames, SameLogs, SameAcked, SameFlush DEF IInv
<1>3. IHistory' /\ IOrder' /\ IQueue' /\ ICovered'
  BY SameHistory, SameOrder, SameQueue, SameCovered DEF IInv
<1> QED BY <1>1, <1>2, <1>3 DEF IInv

LEMMA Stutter == IInv /\ UNCHANGED vars => IInv'
  BY CompactL0Step DEF vars

LEMMA NextInv == IInv /\ [Next]_vars => IInv'
<1> SUFFICES ASSUME IInv, [Next]_vars PROVE IInv'
  OBVIOUS
<1>1. CASE \E size \in {0} \union BatchSizes, sync \in BOOLEAN : BeginWrite(size, sync)
  BY <1>1, BeginWriteStep
<1>2. CASE BeginFlush
  BY <1>2, BeginFlushStep
<1>3. CASE \E i \in 1 .. Len(queue) - 1 : DelayedFlush(i)
  BY <1>3, DelayedFlushStep
<1>4. CASE Committer
  BY <1>4, PrepareStep, StartRotationStep, CloseLogStep, CreateLogStep, SyncDirStep, InstallStep DEF Committer
<1>5. CASE Applier
  BY <1>5, ApplyStep DEF Applier
<1>6. CASE SyncLog
  BY <1>6, SyncLogStep
<1>7. CASE Flusher
  BY <1>7, StartFlushStep, WriteTablesStep, PrepareEditStep, LogEditStep, InstallFlushStep, DeleteLogStep,
     FinishFlushStep DEF Flusher
<1>8. CASE FailTables
  BY <1>8, FailTablesStep
<1>9. CASE ProcessCrash \/ MachineCrash
  BY <1>9, ProcessCrashStep, MachineCrashStep
<1>10. CASE BeginClose \/ FinishClose
  BY <1>10, BeginCloseStep, FinishCloseStep
<1>11. CASE Open
  BY <1>11, ReplayStep, OpenCreateStep, OpenSyncDirStep, OpenLogEditStep, OpenFinishStep DEF Open
<1>12. CASE Terminated \/ UNCHANGED vars
  BY <1>12, Stutter DEF Terminated
<1>13. CASE CompactL0
  BY <1>13, CompactL0Step DEF CompactL0
<1> QED BY <1>1, <1>2, <1>3, <1>4, <1>5, <1>6, <1>7, <1>8, <1>9, <1>10, <1>11, <1>12, <1>13 DEF Next

(* The inductive invariant of the committer, the flush goroutine, crashes, Close and Open together. *)
THEOREM WALInvariant == Spec => []IInv
<1>1. Init => IInv
  BY InitInv
<1>2. IInv /\ [Next]_vars => IInv'
  BY NextInv
<1> QED BY <1>1, <1>2, PTL DEF Spec

(* An acknowledged sync commit is in a table of the MANIFEST or in the durable part of a linked log that
   Open replays (commitWrite, makeRoomForWrite, flush1, doDeleteObsoleteFiles and Open). *)
THEOREM AcknowledgedSurvive == Spec => []AckedSurvive
<1>1. IInv => AckedSurvive
  <2> SUFFICES ASSUME IInv, NEW s \in acked, s \notin manifest.tables
               PROVE  \E l \in {k \in names \intersect linked : k >= manifest.min} :
                        s \in ToSet(SubSeq(log[l], 1, durable[l]))
    BY DEF AckedSurvive, Durable
  <2>1. IType
    BY DEF IInv
  <2>2. PICK l \in Kept : \E j \in 1 .. durable[l] : log[l][j] = s
    BY DEF IInv, IAcked
  <2>3. PICK j \in 1 .. durable[l] : log[l][j] = s
    BY <2>2
  <2>4. l \in LogNums /\ l >= manifest.min /\ l \in Nat
    BY DEF Kept, LogNums
  <2>5. /\ log[l] \in Seq(SeqNums) /\ Len(log[l]) \in Nat /\ durable[l] \in Nat /\ durable[l] <= Len(log[l])
        /\ manifest.min \in Nat
    BY <2>1, <2>4, LogTypes, RecordTypes DEF IInv, ILogs
  <2>6. durable[l] \in 0 .. Len(log[l]) /\ 1 \in 1 .. Len(log[l]) + 1 /\ Len(log[l]) # 0
    BY <2>5
  <2>7. s \in ToSet(SubSeq(log[l], 1, durable[l]))
    <3> HIDE DEF SeqNums
    <3>1. \A x : x \in ToSet(SubSeq(log[l], 1, durable[l])) <=> \E i \in 1 .. durable[l] : log[l][i] = x
      BY <2>5, <2>6, ToSetSubSeq
    <3> QED BY <2>3, <3>1
  <2>8. log[l] # <<>>
    BY <2>6, EmptySeq
  <2>9. l \in names \intersect linked
    BY <2>4, <2>5, <2>8 DEF IInv, INames
  <2> QED BY <2>4, <2>7, <2>9
<1> QED BY <1>1, WALInvariant, PTL

(* Open finds a prefix of the commits: in tables and in the logs it replays, nothing is missing in the
   middle (makeRoomForWrite closes a log before the next one is written). *)
THEOREM PrefixRecovered == Spec => []RecoveredIsPrefix
<1>1. IInv => RecoveredIsPrefix
  <2> SUFFICES ASSUME IInv, status = "replayed"
               PROVE  \E k \in 0 .. Len(history) : manifest.tables \union replayed = ToSet(SubSeq(history, 1, k))
    BY DEF RecoveredIsPrefix
  <2> DEFINE T == manifest.tables \union replayed
             k == Max({0} \union {i \in DOMAIN history : history[i] \in T})
  <2>1. T = manifest.tables \union Logged
    BY DEF IInv, IHistory
  <2>2. history \in Seq(SeqNums) /\ \A i, j \in DOMAIN history : i < j => history[i] < history[j]
    BY DEF IInv, IHistory, IType, CallerType
  <2>3. T \subseteq ToSet(history) /\ \A s \in ToSet(history), t \in T : s < t => s \in T
    BY <2>1, FoundClosed
  <2>4. k \in 0 .. Len(history) /\ ToSet(SubSeq(history, 1, k)) = T
    <3> HIDE DEF T, SeqNums
    <3> QED BY <2>2, <2>3, ClosedPrefix
  <2> QED BY <2>4
<1> QED BY <1>1, WALInvariant, PTL

(* A log with a batch that is in no table is neither deleted nor recycled, and the minimum a flush logs
   neither goes back nor was never handed out (doDeleteObsoleteFiles, logAndApply). *)
THEOREM UnflushedKept == Spec => []UnflushedInWAL
<1>1. IInv => UnflushedInWAL
  <2> SUFFICES ASSUME IInv PROVE UnflushedInWAL
    OBVIOUS
  <2> DEFINE kept == names \ (ToSet(recycler.logNums) \union ToSet(flush.delete))
  <2>1. IType
    BY DEF IInv
  <2>2. flush.pc = "log" => minLog <= flush.min /\ flush.min < nextFile
    <3> SUFFICES ASSUME flush.pc = "log" PROVE minLog <= flush.min /\ flush.min < nextFile
      OBVIOUS
    <3>1. minLog <= flush.min /\ flush.min <= Current /\ Opened /\ logQueue # <<>>
      BY DEF IInv, IFlush, IPhase, Opened
    <3>2. Current < nextFile /\ Current \in Nat /\ flush.min \in Nat /\ nextFile \in Nat
      BY <2>1, <3>1, CurrentType, RecordTypes DEF IInv, INumbers
    <3> QED BY <3>1, <3>2
  <2>3. ASSUME NEW i \in DOMAIN queue, NEW s \in queue[i].seqNums, s \notin manifest.tables
        PROVE  \E l \in {k \in kept : k >= manifest.min} : s \in ToSet(log[l])
    <3>1. Len(queue) \in Nat /\ i \in 1 .. Len(queue)
      BY <2>1, QueueTypes
    <3>2. Opened
      <4>1. queue # <<>>
        BY <3>1, EmptySeq
      <4>2. Running
        BY <4>1 DEF IInv, IPhase
      <4>3. ~ (Len(queue) = 1 /\ queue[1].seqNums = {})
        BY <2>3, <3>1
      <4>4. status \in {"up", "closing"}
        BY <4>2, <4>3 DEF IInv, IPhase
      <4> QED BY <4>4 DEF Opened
    <3>3. LogOf(i) >= manifest.min /\ s \in ToSet(log[LogOf(i)])
      BY <2>3, <3>2 DEF IInv, IQueue
    <3>4. LogOf(i) \in LogNums
      BY <3>1, <3>2, LogOfType
    <3> DEFINE l == LogOf(i)
    <3> HIDE DEF l
    <3>5. l \in Nat /\ manifest.min \in Nat /\ l >= manifest.min /\ l \in LogNums /\ s \in ToSet(log[l])
      <4>1. manifest.min \in Nat /\ l >= manifest.min /\ l \in LogNums /\ s \in ToSet(log[l])
        BY <2>1, <3>3, <3>4, RecordTypes DEF l
      <4> QED BY <4>1 DEF LogNums
    <3>6. log[l] # <<>> /\ ~ (l < manifest.min)
      BY <3>5, ToSetEmpty
    <3>7. l \in names
      BY <3>5, <3>6 DEF IInv, INames
    <3>8. l \notin ToSet(recycler.logNums) \union ToSet(flush.delete)
      BY <3>6 DEF IInv, INumbers
    <3> QED BY <3>5, <3>7, <3>8
  <2> QED BY <2>2, <2>3 DEF UnflushedInWAL
<1> QED BY <1>1, WALInvariant, PTL

(* Sequence numbers and log numbers are never given twice, and the queue is in their order, across
   rotations, crashes and recoveries (getNextFileNum, replayWAL's maxSeqNum, Open's scan of the directory). *)
THEOREM FreshNumbers == Spec => []NumbersFresh
<1>1. IInv => NumbersFresh
  <2> SUFFICES ASSUME IInv PROVE NumbersFresh
    OBVIOUS
  <2>1. IType
    BY DEF IInv
  <2>2. SeqNumsFresh
    <3>1. ASSUME status \in {"up", "closing"}, NEW i \in DOMAIN history PROVE history[i] < logSeqNum
      <4>1. history[i] \in ToSet(history) /\ history[i] \in SeqNums
        <5>1. history \in Seq(SeqNums)
          BY <2>1 DEF IType, CallerType
        <5> HIDE DEF SeqNums
        <5> QED BY <5>1, ToSetMember
      <4>2. history[i] < Pending \/ (Large /\ history[i] = rot.batch.seqNum)
        BY <3>1, <4>1 DEF IInv, IHistory, Serving
      <4>3. rot.batch.seqNum \in Nat /\ logSeqNum \in Nat /\ history[i] \in Nat
        <5>1. history[i] \in Nat
          BY <4>1 DEF SeqNums
        <5> QED BY <2>1, <5>1, RecordTypes
      <4>4. rot.batch.seqNum > 0 => rot.batch.seqNum + 1 = logSeqNum
        BY DEF IInv, IPhase
      <4> QED BY <4>2, <4>3, <4>4 DEF Pending, Large
    <3> QED BY <3>1 DEF SeqNumsFresh, IInv, IHistory
  <2>3. QueueOrdered
    BY DEF QueueOrdered, IInv, IOrder
  <2>4. LogNumsFresh
    <3>1. \A l \in names \union linked : l \in Nat
      BY <2>1 DEF IType, DiskType, LogNums
    <3>2. rot.pc \in {"close", "create"} => \A l \in names \union linked : l < rot.new
      BY DEF IInv, INumbers
    <3>3. status = "replayed" => \A l \in names \union linked : l < nextFile
      BY DEF IInv, INumbers, Top, Running
    <3>4. rot.new \in Nat /\ nextFile \in Nat
      BY <2>1, RecordTypes
    <3> QED BY <3>1, <3>2, <3>3, <3>4 DEF LogNumsFresh
  <2> QED BY <2>2, <2>3, <2>4 DEF NumbersFresh
<1> QED BY <1>1, WALInvariant, PTL
=============================================================================
