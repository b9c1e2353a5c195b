------------------------------ MODULE MemTable ------------------------------
(***************************************************************************)
(* A memtable (mem_table.go): batches reserve room one after the other and *)
(* are applied concurrently, while readers go over the points and over the *)
(* range tombstones.                                                       *)
(*                                                                         *)
(* The range tombstones have a skiplist of their own, and a cache of their *)
(* fragments.  A cached value is known by the count of tombstones it was   *)
(* made for; its contents are built by its first reader, under a           *)
(* sync.Once.  What fragmenting does is module RangeDel; here the contents *)
(* are the tombstones that were found.                                     *)
(***************************************************************************)
EXTENDS SkipList

CONSTANTS Readers,
          Scans           \* what readers do: a scan, forwards or backwards, from a key that is
                          \* sought or from an end (NoKey); no record has a key that is sought

Points == 1
Tombstones == 2
NoKey == 0
ASSUME MemTableAssumption ==
    Lists = {Points, Tombstones} /\ Scans \subseteq {"forward", "backward"} \X Int

VARIABLES reserved, writerRefs,
          count, frags,   \* of the rangeTombstoneCache; frags is 0 for nil
          once, built,    \* of each cached value: the sync.Once and the contents
          newCount, old,  \* local to invalidate
          order,          \* the threads in the order of their sequence numbers
          applied,        \* the threads whose batch is applied
          reader          \* the local state of each reader
memVars == <<reserved, writerRefs, count, frags, once, built, newCount, old, order, applied, reader>>

Records(t, l) == {i \in DOMAIN work[t] : work[t][i].list = l}
Counts == 1..Cardinality(UNION {{<<t, i>> : i \in Records(t, Tombstones)} : t \in Threads})
NewReader == [pc |-> "idle", mode |-> "none", at |-> Nil, level |-> 1, seek |-> NoKey, frags |-> 0,
              got |-> <<>>, must |-> {}]

\* newMemTable.  Sizes count from what the ends of the two lists take up.
MemTableInit ==
    /\ ListInit
    /\ arenaSize = 0 /\ reserved = 0 /\ writerRefs = 1
    /\ count = 0 /\ frags = 0
    /\ once = [c \in Counts |-> "new"] /\ built = [c \in Counts |-> {}]
    /\ newCount = [t \in Threads |-> 0] /\ old = [t \in Threads |-> 0]
    /\ order = <<>> /\ applied = {}
    /\ reader = [r \in Readers |-> NewReader]

-----------------------------------------------------------------------------
(* Applying a batch.                                                       *)

(* Mutant: what other batches reserved is forgotten. *)
ReservedBytesNow == arenaSize
\* availBytes: exact while nobody applies a batch.
ReservedBytes == IF writerRefs = 1 THEN arenaSize ELSE reserved
\* memTableEntrySize: as if every node had the full height.
BatchSize(t) == Len(work[t]) * (MaxHeight + 1)

\* prepare, one batch at a time: what does not fit goes to another memtable.
Prepare(t) ==
    LET fits == BatchSize(t) <= Capacity - ReservedBytes
    IN  /\ At(t, "idle") /\ work[t] # <<>>
        /\ reserved' = IF fits THEN ReservedBytes + BatchSize(t) ELSE ReservedBytes
        /\ writerRefs' = IF fits THEN writerRefs + 1 ELSE writerRefs
        /\ order' = IF fits THEN Append(order, t) ELSE order
        /\ Go(t, [thread[t] EXCEPT !.pc = IF fits THEN "splice" ELSE "elsewhere"])
        /\ UNCHANGED <<work, next, prev, height, arenaSize, count, frags, once, built, newCount, old, applied, reader>>

\* rangeTombstoneCache.invalidate.
AddCount(t) ==
    /\ At(t, "applied") /\ Records(t, Tombstones) # {}
    /\ count' = count + Cardinality(Records(t, Tombstones))
    /\ newCount' = [newCount EXCEPT ![t] = count']
    /\ Go(t, [thread[t] EXCEPT !.pc = "load"])
    /\ UNCHANGED <<work, next, prev, height, arenaSize, reserved, writerRefs, frags, once, built, old, order, applied, reader>>
(* Mutant: any value that is there is good enough. *)
SubsumedByAny(t) == frags # 0
Subsumed(t) == frags # 0 /\ frags >= newCount[t]
LoadFrags(t) ==
    /\ At(t, "load")
    /\ old' = [old EXCEPT ![t] = frags]
    /\ Go(t, [thread[t] EXCEPT !.pc = IF Subsumed(t) THEN "unref" ELSE "swap"])
    /\ UNCHANGED <<work, next, prev, height, arenaSize, reserved, writerRefs, count, frags, once, built, newCount, order, applied,
                   reader>>
SwapFrags(t) ==
    /\ At(t, "swap")
    /\ frags' = IF frags = old[t] THEN newCount[t] ELSE frags
    /\ Go(t, [thread[t] EXCEPT !.pc = IF frags = old[t] THEN "unref" ELSE "load"])
    /\ UNCHANGED <<work, next, prev, height, arenaSize, reserved, writerRefs, count, once, built, newCount, old, order, applied,
                   reader>>
\* apply returns, and the commit pipeline drops the reference.
WriterUnref(t) ==
    /\ At(t, "unref") \/ (At(t, "applied") /\ Records(t, Tombstones) = {})
    /\ writerRefs' = writerRefs - 1
    /\ applied' = applied \cup {t}
    /\ Go(t, [thread[t] EXCEPT !.pc = "done"])
    /\ UNCHANGED <<work, next, prev, height, arenaSize, reserved, count, frags, once, built, newCount, old, order, reader>>

-----------------------------------------------------------------------------
(* Readers: a scan of the points, forwards or backwards, from an end or    *)
(* from a seek; and the tombstones.                                        *)

ReaderAt(r, pc) == reader[r].pc = pc
Move(r, s) == /\ reader' = [reader EXCEPT ![r] = s]
              /\ UNCHANGED <<work, next, prev, height, arenaSize, thread, reserved, writerRefs, count, frags, newCount, old,
                             order, applied>>
\* What is visible: the commit pipeline publishes batches in the order of their
\* sequence numbers.
Published == {order[i] : i \in {j \in DOMAIN order : \A k \in 1..j : order[k] \in applied}}
Visible(l) == UNION {{NodeOf(t, i) : i \in Records(t, l)} : t \in Published}
Fresh(mode, must) == [NewReader EXCEPT !.mode = mode, !.must = must]

\* First and Last look at the ends of the list, and Next and Prev go on.
End(mode) == IF mode = "forward" THEN HeadNode(Points) ELSE TailNode(Points)
StartScan(r) ==
    \E mode \in {s[1] : s \in {x \in Scans : x[2] = NoKey}} :
        /\ ReaderAt(r, "idle") /\ UNCHANGED <<once, built>>
        /\ Move(r, [Fresh(mode, Visible(Points)) EXCEPT !.pc = "step", !.at = End(mode)])
StepNode(s) == IF s.mode = "backward" THEN prev[s.at][1] ELSE next[s.at][1]
Step(r) ==
    LET s == reader[r]
        n == StepNode(s)
    IN  /\ ReaderAt(r, "step") /\ UNCHANGED <<once, built>>
        /\ Move(r, IF n \in {HeadNode(Points), TailNode(Points)} THEN [s EXCEPT !.pc = "done"]
                   ELSE [s EXCEPT !.at = n, !.got = Append(@, n)])

\* seekForBaseSplice, one node at a time.  SeekGE takes the node after the
\* place it finds and SeekLT the one before.
StartSeek(r) ==
    \E s \in {x \in Scans : x[2] # NoKey} :
        /\ ReaderAt(r, "idle") /\ UNCHANGED <<once, built>>
        /\ Move(r, [Fresh(s[1], {n \in Visible(Points) : (KeyOf(n) > s[2]) <=> (s[1] = "forward")})
                    EXCEPT !.pc = "seek", !.seek = s[2], !.at = HeadNode(Points), !.level = height[Points]])
Seek(r) ==
    LET s == reader[r]
        n == next[s.at][s.level]
        land == IF s.mode = "forward" THEN n ELSE s.at
    IN  /\ ReaderAt(r, "seek") /\ UNCHANGED <<once, built>>
        /\ Move(r, IF n # TailNode(Points) /\ KeyOf(n) < s.seek THEN [s EXCEPT !.at = n]
                   ELSE IF s.level > 1 THEN [s EXCEPT !.level = @ - 1]
                   ELSE IF land \in {HeadNode(Points), TailNode(Points)} THEN [s EXCEPT !.pc = "done"]
                   ELSE [s EXCEPT !.pc = "step", !.at = land, !.got = <<land>>])

\* newRangeDelIter: the current value of the cache.
LoadTombstones(r) ==
    /\ ReaderAt(r, "idle") /\ UNCHANGED <<once, built>>
    /\ Move(r, [Fresh("tombstones", Visible(Tombstones)) EXCEPT
                    !.pc = IF frags = 0 THEN "done" ELSE "once", !.frags = frags])
\* rangeTombstoneFrags.get: the first reader builds the contents, the others
\* wait for it.
EnterOnce(r) ==
    /\ ReaderAt(r, "once") /\ once[reader[r].frags] = "new"
    /\ once' = [once EXCEPT ![reader[r].frags] = "busy"]
    /\ Move(r, [reader[r] EXCEPT !.pc = "build", !.at = HeadNode(Tombstones)])
    /\ UNCHANGED built
Build(r) ==
    LET s == reader[r]
        n == next[s.at][1]
        end == n = TailNode(Tombstones)
    IN  /\ ReaderAt(r, "build")
        /\ built' = IF end THEN built ELSE [built EXCEPT ![s.frags] = @ \cup {n}]
        /\ once' = IF end THEN [once EXCEPT ![s.frags] = "done"] ELSE once
        /\ Move(r, IF end THEN [s EXCEPT !.pc = "once"] ELSE [s EXCEPT !.at = n])
TakeTombstones(r) ==
    /\ ReaderAt(r, "once") /\ once[reader[r].frags] = "done"
    /\ Move(r, [reader[r] EXCEPT !.pc = "done"])
    /\ UNCHANGED <<once, built>>
Finish(r) ==
    /\ ReaderAt(r, "done") /\ UNCHANGED <<once, built>>
    /\ Move(r, NewReader)

Add(t) == AddStep(t) /\ UNCHANGED memVars
MemTableNext ==
    \/ \E t \in Threads : \/ Add(t)
                          \/ Prepare(t) \/ WriterUnref(t)
                          \/ AddCount(t) \/ LoadFrags(t) \/ SwapFrags(t)
    \/ \E r \in Readers : \/ StartScan(r) \/ Step(r) \/ StartSeek(r) \/ Seek(r) \/ Finish(r)
                          \/ LoadTombstones(r) \/ EnterOnce(r) \/ Build(r) \/ TakeTombstones(r)
MemTableSpec == MemTableInit /\ [][MemTableNext]_<<listVars, memVars>>

-----------------------------------------------------------------------------
\* The nodes that an insert has put into level i.
InLevel(n, i) ==
    /\ next[n][i] # Nil
    /\ \A t \in Threads : thread[t].pc \in Unlinked /\ Node(t) = n => thread[t].level # i
ListNodes(l) == {HeadNode(l), TailNode(l)} \cup UNION {{NodeOf(t, i) : i \in Records(t, l)} : t \in Threads}
LevelNodes(l, i) == {n \in ListNodes(l) : InLevel(n, i)}
Linked(t, i) == \/ thread[t].rec > i
                \/ thread[t].rec = i /\ thread[t].pc \in {"applied", "load", "swap", "unref", "done"}
\* The order of a list, from its head to its tail.
Below(m, n) ==
    \/ IsHead(m) /\ ~IsHead(n)
    \/ IsTail(n) /\ ~IsTail(m)
    \/ {m[1], n[1]} \subseteq Threads /\ KeyOf(m) < KeyOf(n)

\* However inserts interleave, every level links the nodes that were put there
\* in the order of their keys, from the head to the tail and without leaving
\* one out; it lies within the level below and the lowest has every node whose
\* insert is over; and once no insert is under way the links back are the links
\* forward reversed.
ListsWellFormed ==
    \A l \in Lists, i \in Levels :
        LET nodes == LevelNodes(l, i)
        IN  /\ HeadNode(l) \in nodes
            /\ \A n \in nodes :
                   /\ next[n][i] \in nodes \cup {TailNode(l)} /\ Below(n, next[n][i])
                   /\ \A m \in nodes : ~(Below(n, m) /\ Below(m, next[n][i]))
            /\ i > 1 => nodes \subseteq LevelNodes(l, i - 1)
            /\ i = 1 => \A t \in Threads : \A j \in Records(t, l) :
                            At(t, "elsewhere") \/ ~Linked(t, j) \/ NodeOf(t, j) \in nodes
            /\ (\A t \in Threads : thread[t].pc \in {"idle", "done", "elsewhere"}) =>
                   \A n \in nodes : prev[next[n][i]][i] = n

\* A scan forwards returns, in order, at least what was visible when it began,
\* and a scan backwards goes backwards.
ScansComplete ==
    \A r \in Readers :
        LET s == reader[r]
        IN  /\ s.pc = "done" /\ s.mode = "forward" => s.must \subseteq {s.got[i] : i \in DOMAIN s.got}
            /\ \A i \in 1..(Len(s.got) - 1) :
                   (KeyOf(s.got[i]) < KeyOf(s.got[i + 1])) <=> (s.mode = "forward")

\* A reader gets at least the tombstones that were visible when it asked,
\* although the cached value may have been made and filled by others.
TombstonesCurrent ==
    \A r \in Readers :
        ReaderAt(r, "done") /\ reader[r].mode = "tombstones" =>
            reader[r].must \subseteq IF reader[r].frags = 0 THEN {} ELSE built[reader[r].frags]

\* A batch for which there was room is applied: the arena does not fill up,
\* and no key is taken for one that exists.
AppliesSucceed == \A t \in Threads : thread[t].pc \notin {"exists", "arenaFull", "panic"}
=============================================================================
