--------------------------- MODULE MemTableProofs ---------------------------
(***************************************************************************)
(* Proofs about the memtable: its lock-free skiplists, the cache of its    *)
(* range tombstones and the reservation of its arena, for any number of    *)
(* writers and readers and any batches.                                    *)
(***************************************************************************)
EXTENDS MemTable, TLAPS, FiniteSetTheorems, SequenceTheorems

-----------------------------------------------------------------------------
(* Where writers are, and the types.                                       *)

Searching == {"check", "find", "alloc"}
Linking   == Unlinked \cup {"back"}
Adding    == {"splice"} \cup Searching \cup Linking
Over      == {"applied", "load", "swap", "unref", "done"}
PCs       == {"idle", "elsewhere"} \cup Adding \cup Over

Pointer      == Nodes \cup {Nil}
Place        == [prev : Pointer, next : Pointer]
InserterType == [height : 0 .. MaxHeight, spl : [Levels -> Place]]
ThreadType   == [pc : PCs, rec : Nat \ {0}, level : Levels, top : Levels, prev : Pointer, next : Pointer,
                 seen : Pointer, tall : Levels, moved : BOOLEAN, ins : [Lists -> InserterType]]

IType ==
  /\ work \in Works
  /\ next \in [Nodes -> [Levels -> Pointer]] /\ prev \in [Nodes -> [Levels -> Pointer]]
  /\ height \in [Lists -> Levels]
  /\ thread \in [Threads -> ThreadType]
  /\ \A t \in Threads : thread[t].pc \in Adding \cup Over => thread[t].rec \in DOMAIN work[t]
  /\ \A t \in Threads : thread[t].pc \in {"idle", "elsewhere"} => thread[t].rec = 1

-----------------------------------------------------------------------------
(* The lists: every level links the nodes put there in the order of keys.  *)
(* The nodes of each level, and those above a node in the order of its     *)
(* list, are functions so that steps can leave them unchanged as a whole.  *)

Heads == {HeadNode(l) : l \in Lists}
Tails == {TailNode(l) : l \in Lists}
ListOf(n) == IF n[1] \in Threads THEN work[n[1]][n[2]].list ELSE n[2]
Above     == [m \in Nodes |-> {n \in Nodes : ListOf(m) = ListOf(n) /\ Below(m, n)}]
LevelSets == [i \in Levels |-> {n \in Nodes : InLevel(n, i)}]

Lower(m, n)   == m \in Nodes /\ n \in Above[m]
LE(m, n)      == m = n \/ Lower(m, n)
In(n, i)      == n \in LevelSets[i]
Present(n, i) == In(n, i) \/ n \in Tails

(* Which links are set. *)
Untouched(s, r, i) ==
  \/ s.pc \in {"idle", "elsewhere"}
  \/ r > s.rec
  \/ r = s.rec /\ s.pc \in {"splice"} \cup Searching
  \/ r = s.rec /\ s.pc \in Linking /\ i > s.level
Touched(s, r, i) ==
  \/ r = s.rec /\ s.pc \in Linking /\ i < s.level
  \/ r = s.rec /\ s.pc \in {"help", "helpCas", "cas", "back"} /\ i = s.level
  \/ r < s.rec /\ s.pc \in Adding \cup Over /\ i = 1
  \/ r = s.rec /\ s.pc \in Over /\ i = 1

IEnds == \A l \in Lists : \A i \in Levels : next[HeadNode(l)][i] # Nil /\ next[TailNode(l)][i] = Nil
NodesOK(t) ==
  \A r \in DOMAIN work[t] : \A i \in Levels :
    /\ Untouched(thread[t], r, i) => next[NodeOf(t, r)][i] = Nil
    /\ Touched(thread[t], r, i) => next[NodeOf(t, r)][i] # Nil
INodes == IEnds /\ \A t \in Threads : NodesOK(t)

ITower == \A i, j \in Levels : j < i => \A n \in Nodes : In(n, i) => In(n, j)

ISorted ==
  \A i \in Levels : \A n \in Nodes : In(n, i) =>
    /\ Lower(n, next[n][i]) /\ Present(next[n][i], i)
    /\ \A m \in Nodes : In(m, i) => ~(Lower(n, m) /\ Lower(m, next[n][i]))

IPrev ==
  \A i \in Levels : \A n \in Nodes : Present(n, i) /\ n \notin Heads => In(prev[n][i], i) /\ Lower(prev[n][i], n)

-----------------------------------------------------------------------------
(* What writers know.                                                      *)

PlaceOK(t) ==
  LET s == thread[t]
      x == Node(t)
  IN /\ s.pc \in {"find"} \cup Linking => In(s.prev, s.level) /\ Lower(s.prev, x)
     /\ s.pc \in Linking \ {"refind"} => Present(s.next, s.level) /\ Lower(x, s.next)
     /\ s.pc \in {"help", "helpCas", "cas"} => next[x][s.level] = s.next /\ prev[x][s.level] = s.prev
     /\ s.pc \in {"help", "helpCas"} => In(s.seen, s.level) /\ Lower(s.seen, s.next) /\ s.seen # s.prev

IPlaces == \A t \in Threads : PlaceOK(t)

(* The splice of an inserter at the levels above lo and up to hi: its places are in list l, and nested. *)
Spliced(f, lo, hi, l) ==
  /\ \A i \in Levels : lo < i /\ i <= hi =>
       In(f[i].prev, i) /\ Present(f[i].next, i) /\ Lower(f[i].prev, f[i].next) /\ Lower(HeadNode(l), f[i].next)
  /\ \A i, j \in Levels : lo < i /\ i < j /\ j <= hi => LE(f[j].prev, f[i].prev) /\ LE(f[i].next, f[j].next)
Brackets(f, lo, hi, x) == \A i \in Levels : lo < i /\ i <= hi => Lower(f[i].prev, x) /\ Lower(x, f[i].next)
Unset(f, hi) == \A i \in Levels : i > hi => f[i].prev = Nil

Idling(I, l) == Spliced(I.spl, 0, I.height, l) /\ Unset(I.spl, height[l]) /\ I.height <= height[l]
Working(s, I, l, x) ==
     /\ I.height = s.top /\ s.top <= height[l] /\ Unset(I.spl, s.top)
     /\ s.pc \in {"check", "find"} => s.level <= s.top
     /\ s.pc = "check" => Spliced(I.spl, 0, s.top, l)
     /\ s.pc = "find" => /\ Spliced(I.spl, s.level, s.top, l) /\ Brackets(I.spl, s.level, s.top, x)
                         /\ s.level < s.top => LE(I.spl[s.level + 1].prev, s.prev)
     /\ s.pc \in {"alloc"} \cup Linking => Spliced(I.spl, 0, s.top, l) /\ Brackets(I.spl, 0, s.top, x)
     /\ s.pc \in Linking => s.tall <= height[l] /\ s.level <= s.tall
SplicesOK(t) ==
  LET s == thread[t]
  IN /\ \A l \in Lists : s.pc \notin Searching \cup Linking \/ l # List(t) => Idling(s.ins[l], l)
     /\ s.pc \in Searching \cup Linking => Working(s, s.ins[List(t)], List(t), Node(t))

ISplices == \A t \in Threads : SplicesOK(t)

-----------------------------------------------------------------------------
(* The links back.                                                         *)

(* The writer that put n before m has yet to link m back to it. *)
Owes(t, n, m, i) ==
  /\ thread[t].pc = "back" /\ Node(t) = n /\ thread[t].level = i /\ thread[t].next = m
  /\ prev[m][i] = thread[t].prev

IAdjacent ==
  \A i \in Levels : \A n \in Nodes : In(n, i) =>
    prev[next[n][i]][i] = n \/ \E t \in Threads : Owes(t, n, next[n][i], i)

HelperOK(t) ==
  LET s == thread[t]
  IN /\ s.pc = "cas" /\ next[s.prev][s.level] = s.next => prev[s.next][s.level] = s.prev
     /\ s.pc = "helpCas" => Lower(s.seen, s.prev)
     /\ s.pc = "helpCas" /\ prev[s.next][s.level] = s.seen => next[s.prev][s.level] = s.next
     /\ s.pc \in {"help", "helpCas"} => LE(s.seen, prev[s.next][s.level])
     /\ s.pc = "back" => LE(s.prev, prev[s.next][s.level])
IHelpers == \A t \in Threads : HelperOK(t)

(* Two writers at one place: t reads after u put its node there; or both did. *)
PairOK(t, u) ==
  LET s == thread[t]
      v == thread[u]
  IN s.level = v.level /\ s.next = v.next /\ v.pc = "back" =>
       /\ s.pc \in {"help", "helpCas"} /\ s.prev = Node(u) => LE(v.prev, s.seen)
       /\ s.pc = "back" /\ s.prev = v.prev => t = u
IPairs == \A t, u \in Threads : PairOK(t, u)

IWorld == INodes /\ ITower /\ ISorted /\ IPrev /\ IAdjacent
ILocal == IPlaces /\ ISplices /\ IHelpers /\ IPairs
IList  == IType /\ IWorld /\ ILocal

-----------------------------------------------------------------------------
(* Nodes, and the order of a list.                                         *)

LEMMA NodeFacts ==
  ASSUME work \in Works
  PROVE  /\ \A t \in Threads : work[t] \in Seq([list : Lists, key : Int]) /\ DOMAIN work[t] = 1 .. Len(work[t])
         /\ \A t \in Threads : \A i \in DOMAIN work[t] : work[t][i] \in [list : Lists, key : Int]
         /\ \A t \in Threads : \A i \in DOMAIN work[t] : NodeOf(t, i) \in Nodes \ (Heads \cup Tails)
         /\ Heads \subseteq Nodes /\ Tails \subseteq Nodes /\ Heads \cap Tails = {} /\ Nil \notin Nodes
         /\ \A n \in Nodes : n \in Heads \/ n \in Tails
                             \/ \E t \in Threads : \E i \in DOMAIN work[t] : n = NodeOf(t, i)
<1>1. \A t \in Threads : work[t] \in Seq([list : Lists, key : Int]) /\ DOMAIN work[t] = 1 .. Len(work[t])
  <2>1. work \in [Threads -> Seq([list : Lists, key : Int])]
    BY WorksAssumption
  <2>2. ASSUME NEW t \in Threads PROVE work[t] \in Seq([list : Lists, key : Int]) /\ DOMAIN work[t] = 1 .. Len(work[t])
    <3>1. work[t] \in Seq([list : Lists, key : Int])
      BY <2>1
    <3> QED BY <3>1
  <2> QED BY <2>2
<1>2. \A t \in Threads : \A i \in DOMAIN work[t] : work[t][i] \in [list : Lists, key : Int]
  <2> SUFFICES ASSUME NEW t \in Threads, NEW i \in DOMAIN work[t]
               PROVE  work[t][i] \in [list : Lists, key : Int]
    OBVIOUS
  <2>1. work[t] \in Seq([list : Lists, key : Int]) /\ DOMAIN work[t] = 1 .. Len(work[t])
    BY <1>1
  <2> QED BY <2>1, ElementOfSeq
<1>3. Heads \subseteq Nodes /\ Tails \subseteq Nodes
  BY DEF Heads, Tails, Nodes
<1>4. \A t \in Threads : \A i \in DOMAIN work[t] : NodeOf(t, i) \in Nodes
  BY DEF Nodes
<1>5. \A t \in Threads : \A i \in DOMAIN work[t] : NodeOf(t, i) \notin Heads \cup Tails
  BY SkipListAssumption, <1>1 DEF NodeOf, Heads, Tails, HeadNode, TailNode
<1>6. Heads \cap Tails = {}
  BY SkipListAssumption DEF Heads, Tails, HeadNode, TailNode
<1>7. \A n \in Nodes : n \in Heads \/ n \in Tails
                       \/ \E t \in Threads : \E i \in DOMAIN work[t] : n = NodeOf(t, i)
  BY DEF Heads, Tails, Nodes
<1>8. Nil \notin Nodes
  <2>1. \A l : Nil # HeadNode(l) /\ Nil # TailNode(l)
    BY DEF Nil, HeadNode, TailNode
  <2>2. \A t, i : Nil # NodeOf(t, i)
    BY DEF Nil, NodeOf
  <2> QED BY <1>7, <2>1, <2>2 DEF Heads, Tails
<1> QED BY <1>1, <1>2, <1>3, <1>4, <1>5, <1>6, <1>7, <1>8

(* What order a node has by its kind. *)
Rank(n) == IF n[1] = 0 THEN 0 ELSE IF n[1] = -1 THEN 2 ELSE 1

LEMMA BelowFacts ==
  ASSUME work \in Works, NEW m \in Nodes, NEW n \in Nodes
  PROVE  /\ Rank(m) \in 0 .. 2
         /\ Rank(m) = 0 <=> m \in Heads
         /\ Rank(m) = 2 <=> m \in Tails
         /\ Rank(m) = 1 <=> m[1] \in Threads
         /\ Rank(m) = 1 => m[2] \in DOMAIN work[m[1]] /\ KeyOf(m) \in Int /\ ListOf(m) \in Lists /\ m = <<m[1], m[2]>>
         /\ Rank(m) # 1 => ListOf(m) = m[2] /\ m = <<m[1], m[2]>>
         /\ Below(m, n) <=> Rank(m) < Rank(n) \/ (Rank(m) = 1 /\ Rank(n) = 1 /\ KeyOf(m) < KeyOf(n))
<1>1. ASSUME NEW k \in Nodes
      PROVE  /\ Rank(k) \in 0 .. 2
             /\ Rank(k) = 0 <=> k \in Heads
             /\ Rank(k) = 2 <=> k \in Tails
             /\ Rank(k) = 1 <=> k[1] \in Threads
             /\ Rank(k) = 1 => k[2] \in DOMAIN work[k[1]] /\ KeyOf(k) \in Int /\ ListOf(k) \in Lists /\ k = <<k[1], k[2]>>
             /\ Rank(k) # 1 => ListOf(k) = k[2] /\ k = <<k[1], k[2]>>
  <2>1. CASE k \in Heads
    <3>1. PICK l \in Lists : k = HeadNode(l)
      BY <2>1 DEF Heads
    <3>2. k[1] = 0 /\ k[2] = l /\ k = <<k[1], k[2]>>
      BY <3>1 DEF HeadNode
    <3>3. k \notin Tails /\ k[1] \notin Threads
      BY <2>1, <3>2, NodeFacts, SkipListAssumption
    <3> QED BY <2>1, <3>2, <3>3 DEF Rank, ListOf
  <2>2. CASE k \in Tails
    <3>1. PICK l \in Lists : k = TailNode(l)
      BY <2>2 DEF Tails
    <3>2. k[1] = -1 /\ k[2] = l /\ k = <<k[1], k[2]>>
      BY <3>1 DEF TailNode
    <3>3. k \notin Heads /\ k[1] \notin Threads
      BY <2>2, <3>2, NodeFacts, SkipListAssumption
    <3> QED BY <2>2, <3>2, <3>3 DEF Rank, ListOf
  <2>3. CASE \E t \in Threads : \E i \in DOMAIN work[t] : k = NodeOf(t, i)
    <3>1. PICK t \in Threads : \E i \in DOMAIN work[t] : k = NodeOf(t, i)
      BY <2>3
    <3>2. PICK i \in DOMAIN work[t] : k = NodeOf(t, i)
      BY <3>1
    <3>3. k[1] = t /\ k[2] = i /\ k = <<k[1], k[2]>>
      BY <3>2 DEF NodeOf
    <3>4. k \notin Heads /\ k \notin Tails /\ t \in Nat \ {0}
      BY <3>2, NodeFacts, SkipListAssumption
    <3>5. work[t][i] \in [list : Lists, key : Int]
      BY NodeFacts
    <3> QED BY <3>3, <3>4, <3>5 DEF Rank, ListOf, KeyOf
  <2> QED BY <2>1, <2>2, <2>3, NodeFacts
<1>2. Below(m, n) <=> Rank(m) < Rank(n) \/ (Rank(m) = 1 /\ Rank(n) = 1 /\ KeyOf(m) < KeyOf(n))
  <2>1. m[1] \in Threads <=> Rank(m) = 1
    BY <1>1
  <2>2. n[1] \in Threads <=> Rank(n) = 1
    BY <1>1
  <2>3. IsHead(m) <=> Rank(m) = 0
    BY DEF IsHead, Rank
  <2>4. IsHead(n) <=> Rank(n) = 0
    BY DEF IsHead, Rank
  <2>5. IsTail(m) <=> Rank(m) = 2
    BY DEF IsTail, Rank
  <2>6. IsTail(n) <=> Rank(n) = 2
    BY DEF IsTail, Rank
  <2>7. Rank(m) \in 0 .. 2 /\ Rank(n) \in 0 .. 2
    BY <1>1
  <2> QED BY <2>1, <2>2, <2>3, <2>4, <2>5, <2>6, <2>7 DEF Below
<1> QED BY <1>1, <1>2

LEMMA LowerFacts ==
  ASSUME work \in Works
  PROVE  /\ \A m, n : Lower(m, n) => m \in Nodes \ Tails /\ n \in Nodes \ Heads /\ m # n
         /\ \A k, m, n : Lower(k, m) /\ Lower(m, n) => Lower(k, n)
         /\ \A k, m, n : Lower(k, n) /\ Lower(m, n) => k = m \/ Lower(k, m) \/ Lower(m, k)
         /\ \A k, m, n : Lower(n, k) /\ Lower(n, m) => k = m \/ Lower(k, m) \/ Lower(m, k)
<1>0. \A m, n : Lower(m, n) <=> m \in Nodes /\ n \in Nodes /\ ListOf(m) = ListOf(n) /\ Below(m, n)
  BY DEF Lower, Above
<1>1. \A m, n : Lower(m, n) => m \in Nodes \ Tails /\ n \in Nodes \ Heads /\ m # n
  <2> SUFFICES ASSUME NEW m \in Nodes, NEW n \in Nodes, Below(m, n)
               PROVE  m \notin Tails /\ n \notin Heads /\ m # n
    BY <1>0
  <2>1. /\ Rank(m) \in 0 .. 2 /\ (Rank(m) = 2 <=> m \in Tails)
        /\ Rank(m) = 1 => KeyOf(m) \in Int
        /\ Rank(m) < Rank(n) \/ (Rank(m) = 1 /\ Rank(n) = 1 /\ KeyOf(m) < KeyOf(n))
    BY BelowFacts
  <2>2. Rank(n) \in 0 .. 2 /\ (Rank(n) = 0 <=> n \in Heads)
    BY BelowFacts
  <2>3. m # n
    BY <2>1, <2>2
  <2> QED BY <2>1, <2>2, <2>3
<1>2. ASSUME NEW k, NEW m, NEW n, Lower(k, m), Lower(m, n)
      PROVE  Lower(k, n)
  <2>1. k \in Nodes /\ m \in Nodes /\ n \in Nodes /\ ListOf(k) = ListOf(n) /\ Below(k, m) /\ Below(m, n)
    BY <1>0, <1>2
  <2>2. /\ Rank(k) \in 0 .. 2 /\ Rank(m) \in 0 .. 2 /\ Rank(n) \in 0 .. 2
        /\ Rank(k) = 1 => KeyOf(k) \in Int
        /\ Rank(m) = 1 => KeyOf(m) \in Int
        /\ Rank(n) = 1 => KeyOf(n) \in Int
    BY <2>1, BelowFacts
  <2>3. Below(k, m) <=> Rank(k) < Rank(m) \/ (Rank(k) = 1 /\ Rank(m) = 1 /\ KeyOf(k) < KeyOf(m))
    BY <2>1, BelowFacts
  <2>4. Below(m, n) <=> Rank(m) < Rank(n) \/ (Rank(m) = 1 /\ Rank(n) = 1 /\ KeyOf(m) < KeyOf(n))
    BY <2>1, BelowFacts
  <2>5. Below(k, n) <=> Rank(k) < Rank(n) \/ (Rank(k) = 1 /\ Rank(n) = 1 /\ KeyOf(k) < KeyOf(n))
    BY <2>1, BelowFacts
  <2> QED BY <1>0, <2>1, <2>2, <2>3, <2>4, <2>5
<1>3. ASSUME NEW k \in Nodes, NEW m \in Nodes, ListOf(k) = ListOf(m)
      PROVE  k = m \/ Lower(k, m) \/ Lower(m, k)
  <2>1. Below(k, m) <=> Rank(k) < Rank(m) \/ (Rank(k) = 1 /\ Rank(m) = 1 /\ KeyOf(k) < KeyOf(m))
    BY BelowFacts
  <2>2. Below(m, k) <=> Rank(m) < Rank(k) \/ (Rank(k) = 1 /\ Rank(m) = 1 /\ KeyOf(m) < KeyOf(k))
    BY BelowFacts
  <2>3. /\ Rank(k) \in 0 .. 2 /\ Rank(m) \in 0 .. 2
        /\ Rank(k) = 1 => KeyOf(k) \in Int /\ k[1] \in Threads /\ k[2] \in DOMAIN work[k[1]] /\ k = <<k[1], k[2]>>
        /\ Rank(m) = 1 => KeyOf(m) \in Int /\ m[1] \in Threads /\ m[2] \in DOMAIN work[m[1]] /\ m = <<m[1], m[2]>>
        /\ Rank(k) # 1 => k = <<k[1], ListOf(k)>>
        /\ Rank(m) # 1 => m = <<m[1], ListOf(m)>>
    BY BelowFacts
  <2>4. CASE Rank(k) = 1 /\ Rank(m) = 1
    <3>1. work[k[1]][k[2]] \in [list : Lists, key : Int] /\ work[m[1]][m[2]] \in [list : Lists, key : Int]
      BY <2>3, <2>4, NodeFacts
    <3>2. ASSUME KeyOf(k) = KeyOf(m) PROVE k = m
      <4>1. work[k[1]][k[2]] = work[m[1]][m[2]]
        BY <2>3, <2>4, <3>1, <1>3, <3>2 DEF KeyOf, ListOf
      <4>2. k[1] = m[1] /\ k[2] = m[2]
        BY <4>1, <2>3, <2>4, WorksAssumption
      <4> QED BY <4>2, <2>3, <2>4
    <3> QED BY <1>0, <1>3, <2>1, <2>2, <2>3, <2>4, <3>2
  <2>5. CASE Rank(k) = Rank(m) /\ Rank(k) # 1
    <3>1. k[1] = m[1]
      <4>1. \A n : Rank(n) = 0 => n[1] = 0
        BY DEF Rank
      <4>2. \A n : Rank(n) = 2 => n[1] = -1
        BY DEF Rank
      <4> QED BY <2>3, <2>5, <4>1, <4>2
    <3> QED BY <2>3, <2>5, <3>1, <1>3
  <2>6. CASE Rank(k) # Rank(m)
    BY <1>0, <1>3, <2>1, <2>2, <2>3, <2>6
  <2> QED BY <2>4, <2>5, <2>6
<1>4. \A k, m, n : Lower(k, n) /\ Lower(m, n) => k = m \/ Lower(k, m) \/ Lower(m, k)
  BY <1>0, <1>3
<1>5. \A k, m, n : Lower(n, k) /\ Lower(n, m) => k = m \/ Lower(k, m) \/ Lower(m, k)
  BY <1>0, <1>3
<1> QED BY <1>1, <1>2, <1>4, <1>5

(* The node that a writer adds, and how it compares keys with it. *)
LEMMA OwnNode ==
  ASSUME IType, NEW t \in Threads, thread[t].pc \in Adding \cup Over
  PROVE  /\ Node(t) \in Nodes \ (Heads \cup Tails)
         /\ List(t) \in Lists /\ Record(t) \in [list : Lists, key : Int]
         /\ HeadOf(t) \in Heads /\ TailOf(t) \in Tails
         /\ Lower(HeadOf(t), Node(t)) /\ Lower(Node(t), TailOf(t)) /\ Lower(HeadOf(t), TailOf(t))
<1>1. work \in Works /\ thread[t].rec \in DOMAIN work[t]
  BY DEF IType
<1>2. Node(t) \in Nodes \ (Heads \cup Tails) /\ Record(t) \in [list : Lists, key : Int]
  BY <1>1, NodeFacts DEF Node, Record
<1>3. List(t) \in Lists /\ HeadOf(t) \in Heads /\ TailOf(t) \in Tails
  BY <1>2 DEF List, HeadOf, TailOf, Heads, Tails
<1>4. HeadOf(t) \in Nodes /\ TailOf(t) \in Nodes
  BY <1>1, <1>3, NodeFacts
<1>5. ListOf(Node(t)) = List(t)
  BY <1>1 DEF Node, NodeOf, ListOf, List, Record
<1>6. ListOf(HeadOf(t)) = List(t) /\ ListOf(TailOf(t)) = List(t)
  BY SkipListAssumption DEF HeadOf, TailOf, HeadNode, TailNode, ListOf
<1>7. Rank(HeadOf(t)) = 0 /\ Rank(TailOf(t)) = 2 /\ Rank(Node(t)) = 1
  <2>1. Rank(HeadOf(t)) = 0 /\ Rank(TailOf(t)) = 2
    BY <1>1, <1>3, <1>4, BelowFacts
  <2>2. Rank(Node(t)) = 1
    BY SkipListAssumption DEF Node, NodeOf, Rank
  <2> QED BY <2>1, <2>2
<1>8. Below(HeadOf(t), Node(t)) /\ Below(Node(t), TailOf(t)) /\ Below(HeadOf(t), TailOf(t))
  BY <1>1, <1>2, <1>4, <1>7, BelowFacts
<1> QED BY <1>2, <1>3, <1>4, <1>5, <1>6, <1>8 DEF Lower, Above

LEMMA Compare ==
  ASSUME IType, NEW t \in Threads, thread[t].pc \in Adding \cup Over, NEW n, LE(HeadOf(t), n), n # Node(t)
  PROVE  /\ ~Found(t, n) \/ n \in Heads
         /\ n \notin Heads => (Before(t, n) <=> Lower(n, Node(t)))
         /\ n \notin Heads /\ ~Before(t, n) => Lower(Node(t), n)
         /\ n \notin Tails => Lower(n, Node(t)) \/ (n # HeadOf(t) /\ KeyOf(n) >= Record(t).key)
<1>0. work \in Works
  BY DEF IType
<1>1. /\ Node(t) \in Nodes \ (Heads \cup Tails)
      /\ HeadOf(t) \in Heads /\ TailOf(t) \in Tails
      /\ Lower(HeadOf(t), Node(t)) /\ Lower(Node(t), TailOf(t)) /\ Lower(HeadOf(t), TailOf(t))
  BY OwnNode
<1>2. CASE n = HeadOf(t)
  BY <1>1, <1>2, <1>0, NodeFacts
<1>3. CASE n = TailOf(t)
  BY <1>0, <1>1, <1>3, LowerFacts DEF Found, Before
<1>4. CASE n # HeadOf(t) /\ n # TailOf(t)
  <2>1. Lower(HeadOf(t), n) /\ n \in Nodes /\ n \notin Heads
    BY <1>0, <1>4, LowerFacts DEF LE
  <2>2. n \notin Tails
    <3> SUFFICES ASSUME n \in Tails PROVE FALSE
      OBVIOUS
    <3>1. Lower(n, TailOf(t)) \/ Lower(TailOf(t), n)
      BY <1>0, <1>1, <1>4, <2>1, LowerFacts
    <3> QED BY <1>0, <1>1, <3>1, LowerFacts
  <2>3. KeyOf(Node(t)) = Record(t).key
    BY DEF KeyOf, Node, NodeOf, Record
  <2>4. Rank(n) = 1 /\ Rank(Node(t)) = 1 /\ KeyOf(n) \in Int /\ KeyOf(Node(t)) \in Int
    <3>1. ASSUME NEW k \in Nodes, k \notin Heads, k \notin Tails PROVE Rank(k) = 1 /\ KeyOf(k) \in Int
      BY <1>0, <3>1, BelowFacts
    <3> QED BY <1>1, <2>1, <2>2, <3>1
  <2>5. Below(n, Node(t)) <=> KeyOf(n) < KeyOf(Node(t))
    BY <1>0, <1>1, <2>1, <2>4, BelowFacts
  <2>6. Below(Node(t), n) <=> KeyOf(Node(t)) < KeyOf(n)
    BY <1>0, <1>1, <2>1, <2>4, BelowFacts
  <2>7. Lower(n, Node(t)) \/ Lower(Node(t), n)
    BY <1>0, <1>1, <2>1, LowerFacts
  <2>8. Lower(n, Node(t)) => Below(n, Node(t))
    BY DEF Lower, Above
  <2>9. Lower(Node(t), n) => Below(Node(t), n)
    BY DEF Lower, Above
  <2> QED BY <1>4, <2>1, <2>2, <2>3, <2>4, <2>5, <2>6, <2>7, <2>8, <2>9 DEF Found, Before
<1> QED BY <1>2, <1>3, <1>4

-----------------------------------------------------------------------------
(* The nodes of the levels.                                                *)

LEMMA LevelFacts ==
  ASSUME IType, INodes
  PROVE  /\ \A i \in Levels : \A n : In(n, i) => n \in Nodes \ Tails /\ n # Nil /\ next[n][i] # Nil
         /\ \A i \in Levels : \A n \in Heads : In(n, i)
         /\ \A i \in Levels : \A n : Present(n, i) => n \in Nodes /\ n # Nil
<1>0. work \in Works
  BY DEF IType
<1>1. \A i \in Levels : \A n : In(n, i) <=> n \in Nodes /\ InLevel(n, i)
  BY DEF In, LevelSets
<1>2. \A i \in Levels : \A n : In(n, i) => n \in Nodes \ Tails /\ n # Nil /\ next[n][i] # Nil
  BY <1>0, <1>1, NodeFacts DEF INodes, IEnds, InLevel, Tails
<1>3. \A i \in Levels : \A n \in Heads : In(n, i)
  <2> SUFFICES ASSUME NEW i \in Levels, NEW n \in Heads PROVE In(n, i)
    OBVIOUS
  <2>1. n \in Nodes /\ next[n][i] # Nil
    BY <1>0, NodeFacts DEF INodes, IEnds, Heads
  <2>2. ASSUME NEW t \in Threads, thread[t].pc \in Unlinked PROVE Node(t) # n
    <3>1. thread[t].pc \in Adding \cup Over
      BY <2>2 DEF Adding, Linking
    <3> QED BY <3>1, OwnNode
  <2> QED BY <1>1, <2>1, <2>2 DEF InLevel
<1>4. Tails \subseteq Nodes /\ Nil \notin Nodes
  BY <1>0, NodeFacts
<1> QED BY <1>2, <1>3, <1>4 DEF Present

Marked(t, n, i) == thread[t].pc \in Unlinked /\ Node(t) = n /\ thread[t].level = i

LEMMA LevelsKept ==
  ASSUME work' = work, NEW t \in Threads, \A u \in Threads \ {t} : thread'[u] = thread[u],
         \A n \in Nodes : \A i \in Levels :
           next'[n][i] # Nil /\ ~Marked(t, n, i)' <=> next[n][i] # Nil /\ ~Marked(t, n, i)
  PROVE  LevelSets' = LevelSets
<1>1. Nodes' = Nodes
  BY DEF Nodes
<1>2. ASSUME NEW n \in Nodes, NEW i \in Levels PROVE InLevel(n, i)' <=> InLevel(n, i)
  <2>1. InLevel(n, i) <=> next[n][i] # Nil /\ \A u \in Threads : ~Marked(u, n, i)
    BY DEF InLevel, Marked
  <2>2. InLevel(n, i)' <=> next'[n][i] # Nil /\ \A u \in Threads : ~Marked(u, n, i)'
    BY DEF InLevel, Marked
  <2>3. \A u \in Threads \ {t} : Marked(u, n, i)' <=> Marked(u, n, i)
    BY DEF Marked, Node
  <2> QED BY <2>1, <2>2, <2>3
<1> QED BY <1>1, <1>2 DEF LevelSets

LEMMA OrderKept ==
  ASSUME work' = work
  PROVE  Nodes' = Nodes /\ Above' = Above /\ Pointer' = Pointer
<1>1. Nodes' = Nodes
  BY DEF Nodes
<1>2. \A m, n : ListOf(m)' = ListOf(m) /\ (Below(m, n)' <=> Below(m, n))
  BY DEF ListOf, Below, KeyOf
<1> QED BY <1>1, <1>2 DEF Above, Pointer

-----------------------------------------------------------------------------
(* What a step leaves true of the writers that do not take it.             *)

Higher == \A l \in Lists : height[l] <= height'[l]
Grown  == \A i \in Levels : LevelSets[i] \subseteq LevelSets'[i]

LEMMA SplicedKept ==
  ASSUME Above' = Above, Nodes' = Nodes, Grown, NEW f, NEW lo, NEW hi, NEW l, Spliced(f, lo, hi, l)
  PROVE  Spliced(f, lo, hi, l)'
<1>1. \A m, n : (Lower(m, n)' <=> Lower(m, n)) /\ (LE(m, n)' <=> LE(m, n))
  BY DEF Lower, LE
<1>2. \A i \in Levels : \A n : (In(n, i) => In(n, i)') /\ (Present(n, i) => Present(n, i)')
  BY DEF Grown, In, Present
<1> QED BY <1>1, <1>2 DEF Spliced

LEMMA SplicesKept ==
  ASSUME IType, IType', Above' = Above, Nodes' = Nodes, work' = work, Grown, Higher,
         NEW u \in Threads, thread'[u] = thread[u], SplicesOK(u)
  PROVE  SplicesOK(u)'
<1> PICK s : s = thread[u]
  OBVIOUS
<1> PICK x : x = Node(u)
  OBVIOUS
<1> PICK k : k = List(u)
  OBVIOUS
<1>1. thread'[u] = s /\ Node(u)' = x /\ List(u)' = k
  BY DEF Node, List, Record
<1>2. s \in ThreadType
  BY DEF IType
<1>3. \A l \in Lists : height[l] \in Int /\ height'[l] \in Int /\ height[l] <= height'[l]
  BY DEF IType, Levels, Higher
<1>4. ASSUME NEW l \in Lists, Idling(s.ins[l], l) PROVE Idling(s.ins[l], l)'
  <2> PICK f : f = s.ins[l].spl
    OBVIOUS
  <2> PICK h : h = s.ins[l].height
    OBVIOUS
  <2>1. h \in Int
    BY <1>2 DEF ThreadType, InserterType
  <2>2. Spliced(f, 0, h, l) /\ Unset(f, height[l]) /\ h <= height[l]
    BY <1>4 DEF Idling
  <2>3. Spliced(f, 0, h, l)'
    BY <2>2, SplicedKept
  <2>4. Unset(f, height'[l]) /\ h <= height'[l]
    BY <1>3, <2>1, <2>2 DEF Unset, Levels
  <2> QED BY <2>3, <2>4 DEF Idling, Unset, Spliced, In, Present, Lower, LE
<1>5. ASSUME s.pc \in Searching \cup Linking, Working(s, s.ins[k], k, x)
      PROVE  Working(s, s.ins[k], k, x)'
  <2> PICK f : f = s.ins[k].spl
    OBVIOUS
  <2>1. \A lo, hi : Spliced(f, lo, hi, k) => Spliced(f, lo, hi, k)'
    BY SplicedKept
  <2>2. \A lo, hi : Brackets(f, lo, hi, x) => Brackets(f, lo, hi, x)'
    BY DEF Brackets, Lower
  <2>3. k \in Lists /\ s.top \in Int /\ s.tall \in Int
    <3>1. thread[u].pc \in Adding \cup Over
      BY <1>5 DEF Adding
    <3> QED BY <1>2, <3>1, OwnNode DEF ThreadType, Levels
  <2>4. \A m, n : LE(m, n)' <=> LE(m, n)
    BY DEF LE, Lower
  <2>5. Unset(f, s.top)' <=> Unset(f, s.top)
    BY DEF Unset
  <2> QED BY <1>3, <1>5, <2>1, <2>2, <2>3, <2>4, <2>5 DEF Working
<1>6. /\ \A l \in Lists : s.pc \notin Searching \cup Linking \/ l # k => Idling(s.ins[l], l)
      /\ s.pc \in Searching \cup Linking => Working(s, s.ins[k], k, x)
  BY DEF SplicesOK
<1>7. /\ \A l \in Lists : s.pc \notin Searching \cup Linking \/ l # k => Idling(s.ins[l], l)'
      /\ s.pc \in Searching \cup Linking => Working(s, s.ins[k], k, x)'
  BY <1>4, <1>5, <1>6
<1> QED BY <1>1, <1>7 DEF SplicesOK

(* A step that changes no link and puts no node into a level. *)
LEMMA QuietStep ==
  ASSUME IList, IType', work' = work, next' = next, prev' = prev, LevelSets' = LevelSets, Higher,
         NEW t \in Threads, \A u \in Threads \ {t} : thread'[u] = thread[u],
         thread[t].pc # "back", thread'[t].pc # "back",
         NodesOK(t)', PlaceOK(t)', SplicesOK(t)', HelperOK(t)',
         thread'[t].pc \in {"help", "helpCas"} =>
           /\ thread[t].pc = "help" /\ thread'[t].level = thread[t].level
           /\ thread'[t].next = thread[t].next /\ thread'[t].prev = thread[t].prev /\ thread'[t].seen = thread[t].seen
  PROVE  IList'
<1>1. Above' = Above /\ Nodes' = Nodes
  BY OrderKept
<1>2. Grown
  BY DEF Grown
<1>3. INodes'
  <2>1. IEnds'
    BY DEF IList, IWorld, INodes, IEnds
  <2>2. ASSUME NEW u \in Threads, u # t PROVE NodesOK(u)'
    <3>1. NodesOK(u) /\ thread'[u] = thread[u]
      BY <2>2 DEF IList, IWorld, INodes
    <3> QED BY <3>1 DEF NodesOK
  <2> QED BY <2>1, <2>2 DEF INodes
<1>4. ITower' /\ ISorted' /\ IPrev'
  <2>1. ITower /\ ISorted /\ IPrev
    BY DEF IList, IWorld
  <2>2. ITower'
    BY <1>1, <2>1 DEF ITower, In
  <2>3. ISorted'
    BY <1>1, <2>1 DEF ISorted, In, Lower, Present
  <2>4. IPrev'
    BY <1>1, <2>1 DEF IPrev, In, Lower, Present
  <2> QED BY <2>2, <2>3, <2>4
<1>5. IAdjacent'
  <2> SUFFICES ASSUME NEW i \in Levels, NEW n \in Nodes, In(n, i)
               PROVE  prev[next[n][i]][i] = n \/ \E u \in Threads : Owes(u, n, next[n][i], i)'
    BY <1>1 DEF IAdjacent, In
  <2>1. CASE prev[next[n][i]][i] = n
    BY <2>1
  <2>2. CASE \E u \in Threads : Owes(u, n, next[n][i], i)
    <3>1. PICK u \in Threads : Owes(u, n, next[n][i], i)
      BY <2>2
    <3>2. u # t
      BY <3>1 DEF Owes
    <3>3. Owes(u, n, next[n][i], i)'
      BY <3>1, <3>2 DEF Owes, Node
    <3> QED BY <3>3
  <2> QED BY <2>1, <2>2 DEF IList, IWorld, IAdjacent
<1>6. IPlaces'
  <2>1. ASSUME NEW u \in Threads, u # t PROVE PlaceOK(u)'
    <3>1. PlaceOK(u) /\ thread'[u] = thread[u]
      BY <2>1 DEF IList, ILocal, IPlaces
    <3> QED BY <1>1, <3>1 DEF PlaceOK, Node, In, Present, Lower
  <2> QED BY <2>1 DEF IPlaces
<1>7. ISplices'
  <2>1. ASSUME NEW u \in Threads, u # t PROVE SplicesOK(u)'
    BY <1>1, <1>2, <2>1, SplicesKept DEF IList, ILocal, ISplices
  <2> QED BY <2>1 DEF ISplices
<1>8. IHelpers'
  <2>1. ASSUME NEW u \in Threads, u # t PROVE HelperOK(u)'
    <3>1. HelperOK(u) /\ thread'[u] = thread[u]
      BY <2>1 DEF IList, ILocal, IHelpers
    <3> QED BY <1>1, <3>1 DEF HelperOK, Lower, LE
  <2> QED BY <2>1 DEF IHelpers
<1>9. IPairs'
  <2> SUFFICES ASSUME NEW a \in Threads, NEW b \in Threads PROVE PairOK(a, b)'
    BY DEF IPairs
  <2>1. PairOK(a, b)
    BY DEF IList, ILocal, IPairs
  <2>2. CASE b = t
    BY <2>2 DEF PairOK
  <2>3. CASE b # t /\ a # t
    <3>1. thread'[a] = thread[a] /\ thread'[b] = thread[b]
      BY <2>3
    <3> QED BY <1>1, <2>1, <3>1 DEF PairOK, Node, LE, Lower
  <2>4. CASE b # t /\ a = t
    <3>1. thread'[b] = thread[b]
      BY <2>4
    <3> QED BY <1>1, <2>1, <2>4, <3>1 DEF PairOK, Node, LE, Lower
  <2> QED BY <2>2, <2>3, <2>4
<1> QED BY <1>3, <1>4, <1>5, <1>6, <1>7, <1>8, <1>9 DEF IList, IWorld, ILocal

LEMMA LowerLE ==
  ASSUME work \in Works
  PROVE  /\ \A k, m, n : LE(k, m) /\ Lower(m, n) => Lower(k, n)
         /\ \A k, m, n : Lower(k, m) /\ LE(m, n) => Lower(k, n)
         /\ \A k, m, n : LE(k, m) /\ LE(m, n) => LE(k, n)
BY LowerFacts DEF LE

LEMMA LevelRange ==
  /\ MaxHeight \in Int /\ 1 \in Levels
  /\ \A i \in Levels : i \in Int /\ 0 < i /\ 1 <= i /\ i <= MaxHeight
  /\ \A i \in Int : 1 <= i /\ i <= MaxHeight => i \in Levels
BY SkipListAssumption DEF Levels

LEMMA TypeStep ==
  ASSUME IType, work' = work, NEW t \in Threads, NEW s \in ThreadType, thread' = [thread EXCEPT ![t] = s],
         s.pc \in Adding \cup Over => s.rec \in DOMAIN work[t],
         s.pc \in {"idle", "elsewhere"} => s.rec = 1,
         next' \in [Nodes -> [Levels -> Pointer]], prev' \in [Nodes -> [Levels -> Pointer]],
         height' \in [Lists -> Levels]
  PROVE  IType' /\ thread'[t] = s /\ \A u \in Threads \ {t} : thread'[u] = thread[u]
<1>1. Nodes' = Nodes /\ Pointer' = Pointer
  BY OrderKept
<1>2. ThreadType' = ThreadType
  BY <1>1 DEF ThreadType, InserterType, Place
<1>3. thread' \in [Threads -> ThreadType]
  BY DEF IType
<1>4. thread'[t] = s /\ \A u \in Threads \ {t} : thread'[u] = thread[u]
  BY DEF IType
<1>5. \A u \in Threads : thread'[u].pc \in Adding \cup Over => thread'[u].rec \in DOMAIN work[u]
  BY <1>4 DEF IType
<1>6. \A u \in Threads : thread'[u].pc \in {"idle", "elsewhere"} => thread'[u].rec = 1
  BY <1>4 DEF IType
<1> QED BY <1>1, <1>2, <1>3, <1>4, <1>5, <1>6 DEF IType

(* Before its node is linked a writer is in no level. *)
LEMMA Searcher ==
  ASSUME IList, NEW t \in Threads, thread[t].pc \in {"splice"} \cup Searching
  PROVE  \A i \in Levels : next[Node(t)][i] = Nil /\ ~In(Node(t), i)
<1>1. thread[t].rec \in DOMAIN work[t]
  BY DEF IList, IType, Adding
<1>2. \A i \in Levels : next[Node(t)][i] = Nil
  BY <1>1 DEF IList, IWorld, INodes, NodesOK, Untouched, Node
<1> QED BY <1>2, LevelFacts DEF IList, IWorld

(* A search step: the writer goes on searching and its links stay unset. *)
LEMMA SearchStep ==
  ASSUME IList, work' = work, next' = next, prev' = prev, height' = height,
         NEW t \in Threads, thread[t].pc \in {"splice"} \cup Searching,
         NEW s \in ThreadType, thread' = [thread EXCEPT ![t] = s], s.pc \in Searching, s.rec = thread[t].rec,
         s.pc = "find" => In(s.prev, s.level) /\ Lower(s.prev, Node(t)),
         \A l \in Lists : l # List(t) => Idling(s.ins[l], l),
         Working(s, s.ins[List(t)], List(t), Node(t))
  PROVE  IList'
<1>0. thread[t].pc \in Adding \cup Over /\ s.pc \in Adding \cup Over
  BY DEF Adding
<1>1. IType' /\ thread'[t] = s /\ \A u \in Threads \ {t} : thread'[u] = thread[u]
  <2>1. s.pc \notin {"idle", "elsewhere"}
    BY DEF Searching
  <2>2. IType /\ s.rec \in DOMAIN work[t]
    BY <1>0 DEF IList, IType
  <2>3. /\ next' \in [Nodes -> [Levels -> Pointer]] /\ prev' \in [Nodes -> [Levels -> Pointer]]
        /\ height' \in [Lists -> Levels]
    BY DEF IList, IType
  <2> QED BY <2>1, <2>2, <2>3, TypeStep
<1>2. Nodes' = Nodes /\ Above' = Above
  BY OrderKept
<1>3. LevelSets' = LevelSets
  <2>1. \A n, i : ~Marked(t, n, i) /\ ~Marked(t, n, i)'
    BY <1>1 DEF Marked, Searching, Unlinked
  <2> QED BY <1>1, <2>1, LevelsKept
<1>4. Higher
  BY DEF Higher, IList, IType, Levels
<1>5. Node(t)' = Node(t) /\ List(t)' = List(t)
  BY <1>1 DEF Node, List, Record
<1>6. NodesOK(t)'
  <2>1. NodesOK(t)
    BY DEF IList, IWorld, INodes
  <2>2. \A r, i : Untouched(s, r, i) => Untouched(thread[t], r, i)
    BY DEF Untouched, Searching, Linking, Unlinked
  <2>3. \A r, i : Touched(s, r, i) => Touched(thread[t], r, i)
    BY DEF Touched, Searching, Linking, Unlinked, Adding, Over
  <2> QED BY <1>1, <2>1, <2>2, <2>3 DEF NodesOK
<1>7. PlaceOK(t)'
  BY <1>1, <1>2, <1>3, <1>5 DEF PlaceOK, Searching, Linking, Unlinked, In, Lower
<1>8. HelperOK(t)'
  BY <1>1 DEF HelperOK, Searching
<1>9. SplicesOK(t)'
  <2> PICK x : x = Node(t)
    OBVIOUS
  <2> PICK k : k = List(t)
    OBVIOUS
  <2>1. \A f, lo, hi, l : Spliced(f, lo, hi, l) => Spliced(f, lo, hi, l)'
    BY <1>2, <1>3, SplicedKept DEF Grown
  <2>2. \A l \in Lists : l # k => Idling(s.ins[l], l)'
    BY <2>1 DEF Idling, Unset
  <2>3. \A f, lo, hi : Brackets(f, lo, hi, x) => Brackets(f, lo, hi, x)'
    BY <1>2 DEF Brackets, Lower
  <2>4. \A m, n : LE(m, n)' <=> LE(m, n)
    BY <1>2 DEF LE, Lower
  <2>5. Working(s, s.ins[k], k, x)'
    BY <2>1, <2>3, <2>4 DEF Working, Unset
  <2>6. thread'[t] = s /\ Node(t)' = x /\ List(t)' = k
    BY <1>1, <1>5
  <2> QED BY <2>2, <2>5, <2>6 DEF SplicesOK
<1> QED BY <1>1, <1>3, <1>4, <1>6, <1>7, <1>8, <1>9, QuietStep DEF Searching

(* findSplice starts from the head, at the top level. *)
LEMMA FromTopStep ==
  ASSUME IList, work' = work, next' = next, prev' = prev, height' = height,
         NEW t \in Threads, thread[t].pc \in {"splice"} \cup Searching,
         NEW s \in ThreadType, s.rec = thread[t].rec, s.top <= height[List(t)],
         s.ins[List(t)].height = s.top, Unset(s.ins[List(t)].spl, s.top),
         \A l \in Lists : l # List(t) => Idling(s.ins[l], l),
         thread' = [thread EXCEPT ![t] = FromTop(t, s)]
  PROVE  IList'
<1>0. thread[t].pc \in Adding \cup Over
  BY DEF Adding
<1>1. HeadOf(t) \in Heads /\ HeadOf(t) \in Nodes /\ Lower(HeadOf(t), Node(t))
  BY <1>0, OwnNode, NodeFacts DEF IList, IType
<1> PICK z : z = FromTop(t, s)
  OBVIOUS
<1>2. /\ z \in ThreadType /\ z.pc = "find" /\ z.level = s.top /\ z.top = s.top /\ z.prev = HeadOf(t)
      /\ z.rec = s.rec /\ z.ins = s.ins
  <2>1. "find" \in PCs /\ HeadOf(t) \in Pointer
    BY <1>1 DEF PCs, Adding, Searching, Pointer
  <2> QED BY <2>1 DEF FromTop, ThreadType
<1>3. In(z.prev, z.level) /\ Lower(z.prev, Node(t))
  BY <1>1, <1>2, LevelFacts DEF IList, IWorld, ThreadType
<1>4. Working(z, z.ins[List(t)], List(t), Node(t))
  <2>1. s.top \in Int
    BY DEF ThreadType, Levels
  <2>2. \A f : Spliced(f, s.top, s.top, List(t)) /\ Brackets(f, s.top, s.top, Node(t))
    BY <2>1 DEF Spliced, Brackets, Levels
  <2> QED BY <1>2, <2>1, <2>2 DEF Working, Linking, Unlinked
<1> QED BY <1>2, <1>3, <1>4, SearchStep DEF Searching

LEMMA FindSpliceStep ==
  ASSUME IList, NEW t \in Threads, FindSplice(t)
  PROVE  IList'
<1> DEFINE s == [thread[t] EXCEPT !.top = height[List(t)]]
<1>1. At(t, "splice") /\ thread[t].pc = "splice" /\ thread[t].pc \in Adding \cup Over
  BY DEF FindSplice, At, Adding
<1>2. List(t) \in Lists
  BY <1>1, OwnNode DEF IList
<1> PICK k \in Lists : k = List(t)
  BY <1>2
<1>3. thread[t] \in ThreadType /\ height[k] \in Levels
  BY DEF IList, IType
<1>4. \A l \in Lists : Idling(thread[t].ins[l], l)
  BY <1>1 DEF IList, ILocal, ISplices, SplicesOK, Searching, Linking, Unlinked
<1>5. work' = work /\ next' = next /\ prev' = prev /\ height' = height
  BY DEF FindSplice
<1> PICK h : h = height[k]
  OBVIOUS
<1>6. h \in Levels /\ h \in 0 .. MaxHeight /\ h \in Int
  BY <1>3, SkipListAssumption DEF Levels
<1>7. CASE thread[t].ins[k].height < h
  <2> PICK z : z = [s EXCEPT !.ins[k].height = h]
    OBVIOUS
  <2>1. /\ z \in ThreadType /\ z.rec = thread[t].rec /\ z.top = h /\ z.ins[k].height = h
        /\ z.ins[k].spl = thread[t].ins[k].spl
        /\ \A l \in Lists : l # k => z.ins[l] = thread[t].ins[l]
    BY <1>3, <1>6 DEF ThreadType, InserterType
  <2>2. thread' = [thread EXCEPT ![t] = FromTop(t, z)]
    BY <1>7 DEF FindSplice, Go
  <2>3. Unset(z.ins[k].spl, h)
    BY <1>4, <2>1 DEF Idling
  <2>4. \A l \in Lists : l # k => Idling(z.ins[l], l)
    BY <1>4, <2>1
  <2>5. z.top <= height[k]
    BY <1>6, <2>1
  <2> QED BY <1>1, <1>5, <2>1, <2>2, <2>3, <2>4, <2>5, FromTopStep
<1>8. CASE ~(thread[t].ins[k].height < h)
  <2> PICK z : z = [s EXCEPT !.pc = "check", !.level = 1]
    OBVIOUS
  <2>0. 1 \in Levels /\ "check" \in PCs
    BY SkipListAssumption DEF Levels, PCs, Adding, Searching
  <2>1. /\ z \in ThreadType /\ z.rec = thread[t].rec /\ z.top = h /\ z.ins = thread[t].ins /\ z.pc = "check"
        /\ z.level = 1
    BY <1>3, <1>6, <2>0 DEF ThreadType
  <2>2. thread' = [thread EXCEPT ![t] = z]
    BY <1>8 DEF FindSplice, Go
  <2>3. thread[t].ins[k].height = h
    <3>1. thread[t].ins[k].height <= h
      BY <1>4 DEF Idling
    <3>2. thread[t].ins[k].height \in Int
      BY <1>3 DEF ThreadType, InserterType
    <3> QED BY <1>6, <1>8, <3>1, <3>2
  <2>4. Working(z, z.ins[k], k, Node(t))
    <3>1. Spliced(z.ins[k].spl, 0, h, k) /\ Unset(z.ins[k].spl, h) /\ z.ins[k].height = h
      BY <1>4, <2>1, <2>3 DEF Idling
    <3>2. 1 <= h
      BY <1>6 DEF Levels
    <3> QED BY <1>6, <2>1, <3>1, <3>2 DEF Working, Linking, Unlinked
  <2>5. \A l \in Lists : l # k => Idling(z.ins[l], l)
    BY <1>4, <2>1
  <2> QED BY <1>1, <1>5, <2>1, <2>2, <2>4, <2>5, SearchStep DEF Searching
<1> QED BY <1>7, <1>8

LEMMA CheckSpliceStep ==
  ASSUME IList, NEW t \in Threads, CheckSplice(t)
  PROVE  IList'
<1>1. thread[t].pc = "check" /\ thread[t].pc \in Adding \cup Over /\ thread[t].pc \in Searching
  BY DEF CheckSplice, At, Adding, Searching
<1>2. List(t) \in Lists /\ Lower(HeadOf(t), Node(t)) /\ Node(t) \in Nodes
  BY <1>1, OwnNode DEF IList
<1> PICK k \in Lists : k = List(t)
  BY <1>2
<1> PICK x : x = Node(t)
  OBVIOUS
<1> PICK s : s = thread[t]
  OBVIOUS
<1> PICK f : f = s.ins[k].spl
  OBVIOUS
<1> PICK i : i = s.level
  OBVIOUS
<1>3. /\ s \in ThreadType /\ i \in Levels /\ i \in Int /\ 0 < i /\ s.top \in Int /\ s.top \in Levels
      /\ f[i].prev \in Pointer
  <2>1. s \in ThreadType
    BY DEF IList, IType
  <2>2. s.ins[k] \in InserterType /\ i \in Levels /\ s.top \in Levels
    BY <2>1 DEF ThreadType
  <2>3. f[i] \in Place
    BY <2>2 DEF InserterType
  <2> QED BY <2>1, <2>2, <2>3, LevelRange DEF Place
<1>4. \A l \in Lists : l # k => Idling(s.ins[l], l)
  BY <1>1 DEF IList, ILocal, ISplices, SplicesOK
<1>5. Working(s, s.ins[k], k, x)
  BY <1>1 DEF IList, ILocal, ISplices, SplicesOK
<1>6. /\ s.ins[k].height = s.top /\ s.top <= height[k] /\ Unset(f, s.top)
      /\ i <= s.top /\ Spliced(f, 0, s.top, k)
  BY <1>1, <1>5 DEF Working
<1>7. work' = work /\ next' = next /\ prev' = prev /\ height' = height
  BY DEF CheckSplice
<1>8. CASE thread' = [thread EXCEPT ![t] = FromTop(t, s)]
  BY <1>1, <1>3, <1>4, <1>6, <1>7, <1>8, FromTopStep
<1>9. CASE i # s.top /\ thread' = [thread EXCEPT ![t] = [s EXCEPT !.level = i + 1]]
  <2> PICK z : z = [s EXCEPT !.level = i + 1]
    OBVIOUS
  <2>1. i + 1 \in Levels /\ i + 1 <= s.top
    BY <1>3, <1>6, <1>9, LevelRange
  <2>2. z \in ThreadType /\ z.rec = s.rec /\ z.top = s.top /\ z.ins = s.ins /\ z.pc = "check" /\ z.level = i + 1
    BY <1>1, <1>3, <2>1 DEF ThreadType
  <2>3. Working(z, z.ins[k], k, x)
    BY <1>6, <2>1, <2>2 DEF Working, Linking, Unlinked
  <2> QED BY <1>1, <1>4, <1>7, <1>9, <2>2, <2>3, SearchStep DEF Searching
<1>10. ASSUME ~((f[i].prev # HeadOf(t) /\ KeyOf(f[i].prev) >= Record(t).key) \/ Before(t, f[i].next))
       PROVE  Lower(f[i].prev, x) /\ Lower(x, f[i].next)
  <2> PICK p : p = f[i].prev
    OBVIOUS
  <2> PICK q : q = f[i].next
    OBVIOUS
  <2>1. In(p, i) /\ Present(q, i) /\ Lower(p, q) /\ Lower(HeadNode(k), q)
    BY <1>3, <1>6 DEF Spliced
  <2>2. HeadNode(k) = HeadOf(t)
    BY DEF HeadOf
  <2>3. p # x /\ q # x /\ p \notin Tails /\ p \in Nodes
    <3>1. ~In(x, i) /\ x \notin Tails
      BY <1>1, <1>3, Searcher, OwnNode DEF IList
    <3>2. p \notin Tails /\ p \in Nodes
      BY <2>1, LowerFacts DEF IList, IType
    <3> QED BY <2>1, <3>1, <3>2 DEF Present
  <2>4. LE(HeadOf(t), p)
    <3>0. work \in Works /\ Lower(HeadOf(t), q)
      BY <2>1, <2>2 DEF IList, IType
    <3>1. HeadOf(t) = p \/ Lower(HeadOf(t), p) \/ Lower(p, HeadOf(t))
      BY <2>1, <3>0, LowerFacts
    <3>2. HeadOf(t) \in Heads
      BY <1>1, OwnNode DEF IList
    <3> QED BY <3>1, <3>2, LowerFacts DEF LE, IList, IType
  <2>5. Lower(p, x)
    BY <1>1, <1>10, <2>3, <2>4, Compare DEF IList
  <2>6. Lower(x, q)
    <3>1. LE(HeadOf(t), q) /\ q \notin Heads
      BY <2>1, <2>2, LowerFacts DEF LE, IList, IType
    <3> QED BY <1>1, <1>10, <2>3, <3>1, Compare DEF IList
  <2> QED BY <2>5, <2>6
<1>11. ASSUME Lower(f[i].prev, x), Lower(x, f[i].next)
       PROVE  Brackets(f, i - 1, s.top, x)
  <2> SUFFICES ASSUME NEW j \in Levels, i - 1 < j, j <= s.top PROVE Lower(f[j].prev, x) /\ Lower(x, f[j].next)
    BY DEF Brackets
  <2>1. j \in Int /\ work \in Works
    BY LevelRange DEF IList, IType
  <2>2. CASE j = i
    BY <1>11, <2>2
  <2>3. CASE i < j
    <3>1. LE(f[j].prev, f[i].prev) /\ LE(f[i].next, f[j].next)
      BY <1>3, <1>6, <2>3 DEF Spliced
    <3>2. ASSUME NEW a, NEW b, NEW c, LE(a, b), Lower(b, c) PROVE Lower(a, c)
      BY <2>1, <3>2, LowerFacts DEF LE
    <3>3. ASSUME NEW a, NEW b, NEW c, Lower(a, b), LE(b, c) PROVE Lower(a, c)
      BY <2>1, <3>3, LowerFacts DEF LE
    <3> QED BY <1>11, <3>1, <3>2, <3>3
  <2> QED BY <1>3, <2>1, <2>2, <2>3
<1>12. CASE /\ ~((f[i].prev # HeadOf(t) /\ KeyOf(f[i].prev) >= Record(t).key) \/ Before(t, f[i].next))
            /\ i = 1 /\ thread' = [thread EXCEPT ![t] = [s EXCEPT !.pc = "alloc"]]
  <2> PICK z : z = [s EXCEPT !.pc = "alloc"]
    OBVIOUS
  <2>2. z \in ThreadType /\ z.rec = s.rec /\ z.top = s.top /\ z.ins = s.ins /\ z.pc = "alloc"
    BY <1>1, <1>3 DEF ThreadType, PCs, Adding, Searching
  <2>3. Brackets(f, 0, s.top, x)
    <3>1. Lower(f[i].prev, x) /\ Lower(x, f[i].next)
      BY <1>10, <1>12
    <3>2. Brackets(f, i - 1, s.top, x)
      BY <1>11, <3>1
    <3>3. i - 1 = 0
      BY <1>12
    <3> QED BY <3>2, <3>3
  <2>4. Working(z, z.ins[k], k, x)
    BY <1>6, <2>2, <2>3 DEF Working, Linking, Unlinked
  <2> QED BY <1>1, <1>4, <1>7, <1>12, <2>2, <2>4, SearchStep DEF Searching
<1>13. CASE /\ ~((f[i].prev # HeadOf(t) /\ KeyOf(f[i].prev) >= Record(t).key) \/ Before(t, f[i].next))
            /\ i # 1 /\ thread' = [thread EXCEPT ![t] = [s EXCEPT !.pc = "find", !.level = i - 1, !.prev = f[i].prev]]
  <2> PICK z : z = [s EXCEPT !.pc = "find", !.level = i - 1, !.prev = f[i].prev]
    OBVIOUS
  <2>1. i - 1 \in Levels /\ i - 1 < i /\ i - 1 <= s.top /\ i - 1 >= 0 /\ i - 1 \in Int
    <3>1. i # 1
      BY <1>13
    <3> QED BY <1>3, <1>6, <3>1, LevelRange
  <2>2. /\ z \in ThreadType /\ z.rec = s.rec /\ z.top = s.top /\ z.ins = s.ins /\ z.pc = "find" /\ z.level = i - 1
        /\ z.prev = f[i].prev
    BY <1>1, <1>3, <2>1 DEF ThreadType, PCs, Adding, Searching
  <2>3. Lower(f[i].prev, x) /\ Brackets(f, i - 1, s.top, x)
    BY <1>10, <1>11, <1>13
  <2>4. In(f[i].prev, i) /\ f[i].prev \in Nodes
    <3>1. In(f[i].prev, i)
      BY <1>3, <1>6 DEF Spliced
    <3> QED BY <1>3, <3>1, LevelFacts DEF IList, IWorld
  <2>5. In(f[i].prev, i - 1)
    BY <1>3, <2>1, <2>4 DEF IList, IWorld, ITower
  <2>6. Spliced(f, i - 1, s.top, k)
    <3>1. \A j \in Levels : j \in Int /\ 0 < j
      BY LevelRange
    <3>2. \A j \in Levels : j <= s.top =>
            In(f[j].prev, j) /\ Present(f[j].next, j) /\ Lower(f[j].prev, f[j].next) /\ Lower(HeadNode(k), f[j].next)
      BY <1>6, <3>1 DEF Spliced
    <3>3. \A j, m \in Levels : j < m /\ m <= s.top => LE(f[m].prev, f[j].prev) /\ LE(f[j].next, f[m].next)
      BY <1>6, <3>1 DEF Spliced
    <3> QED BY <3>2, <3>3 DEF Spliced
  <2>7. z.level + 1 = i
    BY <1>3, <2>2
  <2>8. Working(z, z.ins[k], k, x)
    BY <1>6, <2>1, <2>2, <2>3, <2>6, <2>7 DEF Working, Linking, Unlinked, LE
  <2>9. In(z.prev, z.level) /\ Lower(z.prev, x) /\ z.pc \in Searching
    BY <2>2, <2>3, <2>5 DEF Searching
  <2>10. \A l \in Lists : l # k => Idling(z.ins[l], l)
    BY <1>4, <2>2
  <2>11. thread' = [thread EXCEPT ![t] = z]
    BY <1>13
  <2>12. z \in ThreadType /\ z.rec = thread[t].rec /\ thread[t].pc \in {"splice"} \cup Searching
    BY <1>1, <2>2
  <2>13. Lower(z.prev, Node(t)) /\ Working(z, z.ins[List(t)], List(t), Node(t))
    BY <2>8, <2>9
  <2>14. \A l \in Lists : l # List(t) => Idling(z.ins[l], l)
    BY <2>10
  <2> QED BY <1>7, <2>9, <2>11, <2>12, <2>13, <2>14, SearchStep
<1> QED BY <1>8, <1>9, <1>12, <1>13 DEF CheckSplice, Go

LEMMA Adjacent ==
  ASSUME ISorted, NEW i \in Levels, NEW p \in Nodes, In(p, i)
  PROVE  /\ Lower(p, next[p][i]) /\ Present(next[p][i], i)
         /\ \A q \in Nodes : In(q, i) => ~(Lower(p, q) /\ Lower(q, next[p][i]))
BY DEF ISorted

(* The node after a place that is below the writer's own. *)
LEMMA NextOf ==
  ASSUME IList, NEW t \in Threads, thread[t].pc \in Adding, NEW i \in Levels, ~In(Node(t), i),
         NEW p, In(p, i), Lower(p, Node(t)), NEW n, n = next[p][i]
  PROVE  /\ Lower(p, n) /\ Present(n, i) /\ n \in Nodes /\ Lower(HeadOf(t), n) /\ n # Node(t)
         /\ ~Found(t, n)
         /\ Before(t, n) => Lower(n, Node(t)) /\ In(n, i)
         /\ ~Before(t, n) => Lower(Node(t), n)
<1>0. work \in Works
  BY DEF IList, IType
<1>1. p \in Nodes
  BY LevelFacts DEF IList, IWorld
<1>2. Lower(p, n) /\ Present(n, i) /\ n \in Nodes
  BY <1>1, LevelFacts DEF IList, IWorld, ISorted
<1>3. /\ Node(t) \notin Tails /\ HeadOf(t) \in Heads /\ Lower(HeadOf(t), Node(t))
  BY OwnNode DEF IList
<1>4. LE(HeadOf(t), p)
  BY <1>0, <1>3, LowerFacts DEF LE
<1>5. Lower(HeadOf(t), n) /\ n \notin Heads
  BY <1>0, <1>2, <1>4, LowerLE, LowerFacts
<1>6. n # Node(t)
  BY <1>2, <1>3 DEF Present
<1>7. ~Found(t, n) /\ (Before(t, n) <=> Lower(n, Node(t))) /\ (~Before(t, n) => Lower(Node(t), n))
  BY <1>5, <1>6, Compare DEF IList, LE
<1>8. Lower(n, Node(t)) => n \notin Tails
  BY <1>0, LowerFacts
<1> QED BY <1>2, <1>5, <1>6, <1>7, <1>8 DEF Present

LEMMA FindStep ==
  ASSUME IList, NEW t \in Threads, Find(t)
  PROVE  IList' /\ thread'[t].pc # "exists"
<1>1. thread[t].pc = "find" /\ thread[t].pc \in Adding \cup Over /\ thread[t].pc \in Searching /\ thread[t].pc \in Adding
  BY DEF Find, At, Adding, Searching
<1>2. List(t) \in Lists /\ Node(t) \in Nodes /\ work \in Works
  BY <1>1, OwnNode DEF IList, IType
<1> PICK k \in Lists : k = List(t)
  BY <1>2
<1> PICK x : x = Node(t)
  OBVIOUS
<1> PICK s : s = thread[t]
  OBVIOUS
<1> PICK f : f = s.ins[k].spl
  OBVIOUS
<1> PICK i : i = s.level
  OBVIOUS
<1> PICK p : p = s.prev
  OBVIOUS
<1> PICK n : n = next[p][i]
  OBVIOUS
<1>3. /\ s \in ThreadType /\ i \in Levels /\ i \in Int /\ 0 < i /\ s.top \in Int /\ s.top \in Levels
      /\ f \in [Levels -> Place] /\ s.ins \in [Lists -> InserterType] /\ s.ins[k] \in InserterType
  <2>1. s \in ThreadType
    BY DEF IList, IType
  <2>2. s.ins[k] \in InserterType /\ i \in Levels /\ s.top \in Levels /\ s.ins \in [Lists -> InserterType]
    BY <2>1 DEF ThreadType
  <2>3. f \in [Levels -> Place]
    BY <2>2 DEF InserterType
  <2> QED BY <2>1, <2>2, <2>3, LevelRange
<1>4. \A l \in Lists : l # k => Idling(s.ins[l], l)
  BY <1>1 DEF IList, ILocal, ISplices, SplicesOK
<1>5. Working(s, s.ins[k], k, x)
  BY <1>1 DEF IList, ILocal, ISplices, SplicesOK
<1>6. /\ s.ins[k].height = s.top /\ s.top <= height[k] /\ Unset(f, s.top)
      /\ i <= s.top /\ Spliced(f, i, s.top, k) /\ Brackets(f, i, s.top, x)
      /\ i < s.top => LE(f[i + 1].prev, p)
  BY <1>1, <1>5 DEF Working
<1>7. work' = work /\ next' = next /\ prev' = prev /\ height' = height
  BY DEF Find
<1>8. In(p, i) /\ Lower(p, x) /\ ~In(x, i) /\ p \in Nodes
  <2>1. In(p, i) /\ Lower(p, x)
    BY <1>1 DEF IList, ILocal, IPlaces, PlaceOK
  <2>2. ~In(x, i)
    BY <1>1, <1>3, Searcher
  <2> QED BY <1>3, <2>1, <2>2, LevelFacts DEF IList, IWorld
<1>9. /\ Lower(p, n) /\ Present(n, i) /\ n \in Nodes /\ Lower(HeadNode(k), n)
      /\ ~Found(t, n) /\ (Before(t, n) => Lower(n, x) /\ In(n, i)) /\ (~Before(t, n) => Lower(x, n))
  BY <1>1, <1>3, <1>8, NextOf DEF HeadOf
<1>12. \A q \in Nodes : In(q, i) => ~(Lower(p, q) /\ Lower(q, n))
  <2>1. ISorted
    BY DEF IList, IWorld
  <2>2. \A q \in Nodes : In(q, i) => ~(Lower(p, q) /\ Lower(q, next[p][i]))
    BY <1>3, <1>8, <2>1, Adjacent
  <2> QED BY <2>2
<1>10. CASE Before(t, n)
  <2> PICK z : z = [s EXCEPT !.prev = n]
    OBVIOUS
  <2>1. thread' = [thread EXCEPT ![t] = z]
    BY <1>10 DEF Find, Go
  <2>2. /\ z \in ThreadType /\ z.rec = s.rec /\ z.top = s.top /\ z.ins = s.ins /\ z.pc = "find" /\ z.level = i
        /\ z.prev = n
    BY <1>1, <1>3, <1>9 DEF ThreadType, Pointer
  <2>3. i < s.top => LE(f[i + 1].prev, n)
    <3>1. i < s.top => LE(f[i + 1].prev, p)
      BY <1>6
    <3>2. LE(p, n)
      BY <1>9 DEF LE
    <3> QED BY <1>2, <3>1, <3>2, LowerLE
  <2>4. Working(z, z.ins[k], k, x)
    BY <1>6, <2>2, <2>3 DEF Working, Linking, Unlinked
  <2>5. z \in ThreadType /\ z.rec = thread[t].rec /\ thread[t].pc \in {"splice"} \cup Searching
    BY <1>1, <2>2
  <2>6. Lower(z.prev, Node(t)) /\ In(z.prev, z.level) /\ z.pc \in Searching
    BY <1>9, <1>10, <2>2 DEF Searching
  <2>7. Working(z, z.ins[List(t)], List(t), Node(t)) /\ \A l \in Lists : l # List(t) => Idling(z.ins[l], l)
    BY <1>4, <2>2, <2>4
  <2>8. thread'[t] = z
    BY <2>1 DEF IList, IType
  <2> QED BY <1>7, <2>1, <2>2, <2>5, <2>6, <2>7, <2>8, SearchStep
<1>11. CASE ~Before(t, n)
  <2> PICK g : g = [f EXCEPT ![i] = [prev |-> p, next |-> n]]
    OBVIOUS
  <2>0. PICK y : y = [s EXCEPT !.ins[k].spl[i] = [prev |-> p, next |-> n]]
    OBVIOUS
  <2>1. g \in [Levels -> Place] /\ g[i].prev = p /\ g[i].next = n /\ \A j \in Levels : j # i => g[j] = f[j]
    BY <1>3, <1>8, <1>9 DEF Place, Pointer
  <2>2. /\ y \in ThreadType /\ y.rec = s.rec /\ y.top = s.top /\ y.level = i /\ y.prev = p /\ y.pc = "find"
        /\ y.ins[k].spl = g /\ y.ins[k].height = s.top
        /\ \A l \in Lists : l # k => y.ins[l] = s.ins[l]
    <3>1. y = [s EXCEPT !.ins = [s.ins EXCEPT ![k] = [s.ins[k] EXCEPT !.spl = g]]]
      BY <2>0
    <3>2. [s.ins[k] EXCEPT !.spl = g] \in InserterType
      BY <1>3, <2>1 DEF InserterType
    <3>3. [s.ins EXCEPT ![k] = [s.ins[k] EXCEPT !.spl = g]] \in [Lists -> InserterType]
      BY <1>3, <3>2
    <3>4. y \in ThreadType
      BY <1>3, <3>1, <3>3 DEF ThreadType
    <3>5. y.rec = s.rec /\ y.top = s.top /\ y.level = i /\ y.prev = p /\ y.pc = "find"
      BY <1>1, <1>3, <3>1 DEF ThreadType
    <3>6. y.ins = [s.ins EXCEPT ![k] = [s.ins[k] EXCEPT !.spl = g]]
      BY <1>3, <3>1 DEF ThreadType
    <3>7. y.ins[k] = [s.ins[k] EXCEPT !.spl = g]
      BY <1>3, <3>6
    <3>8. y.ins[k].spl = g /\ y.ins[k].height = s.top
      BY <1>3, <1>6, <3>7 DEF InserterType
    <3>9. \A l \in Lists : l # k => y.ins[l] = s.ins[l]
      BY <1>3, <3>6
    <3> QED BY <3>4, <3>5, <3>8, <3>9
  <2>3. \A j \in Levels : j \in Int
    BY LevelRange
  <2>4. ASSUME NEW j \in Levels, i < j, j <= s.top
        PROVE  LE(f[j].prev, p) /\ LE(n, f[j].next)
    <3>0. i + 1 \in Levels /\ i + 1 <= j /\ i < s.top
      BY <1>3, <2>3, <2>4, LevelRange
    <3>1. LE(f[j].prev, f[i + 1].prev)
      <4>1. CASE j = i + 1
        BY <4>1 DEF LE
      <4>2. CASE i + 1 < j
        <5>1. \A a, b \in Levels : i < a /\ a < b /\ b <= s.top => LE(f[b].prev, f[a].prev)
          BY <1>6 DEF Spliced
        <5>2. i < i + 1
          BY <1>3
        <5> QED BY <2>4, <3>0, <4>2, <5>1, <5>2
      <4> QED BY <1>3, <2>3, <3>0, <4>1, <4>2
    <3>2. LE(f[j].prev, p)
      BY <1>2, <1>6, <3>0, <3>1, LowerLE
    <3> PICK q : q = f[j].next
      OBVIOUS
    <3>3. Present(q, j) /\ Lower(x, q)
      BY <1>6, <2>4 DEF Spliced, Brackets
    <3>4. Present(q, i) /\ Lower(p, q) /\ q \in Nodes
      <4>1. Lower(p, q) /\ q \in Nodes
        BY <1>2, <1>8, <3>3, LowerFacts
      <4> QED BY <1>3, <2>4, <3>3, <4>1 DEF Present, IList, IWorld, ITower
    <3>5. ~Lower(q, n)
      <4>1. CASE In(q, i)
        BY <1>12, <3>4, <4>1
      <4>2. CASE q \in Tails
        BY <1>2, <4>2, LowerFacts
      <4> QED BY <3>4, <4>1, <4>2 DEF Present
    <3>6. LE(n, q)
      BY <1>2, <1>9, <3>4, <3>5, LowerFacts DEF LE
    <3> QED BY <3>2, <3>6
  <2>5. Spliced(g, i - 1, s.top, k)
    <3>1. ASSUME NEW j \in Levels, i - 1 < j, j <= s.top
          PROVE  In(g[j].prev, j) /\ Present(g[j].next, j) /\ Lower(g[j].prev, g[j].next) /\ Lower(HeadNode(k), g[j].next)
      <4>1. CASE j = i
        BY <1>8, <1>9, <2>1, <4>1
      <4>2. CASE i < j
        <5>1. g[j] = f[j]
          BY <1>3, <2>1, <2>3, <4>2
        <5> QED BY <1>6, <3>1, <4>2, <5>1 DEF Spliced
      <4> QED BY <1>3, <2>3, <3>1, <4>1, <4>2
    <3>2. ASSUME NEW j \in Levels, NEW m \in Levels, i - 1 < j, j < m, m <= s.top
          PROVE  LE(g[m].prev, g[j].prev) /\ LE(g[j].next, g[m].next)
      <4>0. i < m /\ g[m] = f[m]
        BY <1>3, <2>1, <2>3, <3>2
      <4>1. CASE j = i
        BY <2>1, <2>4, <3>2, <4>0, <4>1
      <4>2. CASE i < j
        <5>1. g[j] = f[j]
          BY <1>3, <2>1, <2>3, <4>2
        <5> QED BY <1>6, <3>2, <4>0, <4>2, <5>1 DEF Spliced
      <4> QED BY <1>3, <2>3, <3>2, <4>1, <4>2
    <3> QED BY <3>1, <3>2 DEF Spliced
  <2>6. Brackets(g, i - 1, s.top, x)
    <3> SUFFICES ASSUME NEW j \in Levels, i - 1 < j, j <= s.top PROVE Lower(g[j].prev, x) /\ Lower(x, g[j].next)
      BY DEF Brackets
    <3>1. CASE j = i
      BY <1>8, <1>9, <1>11, <2>1, <3>1
    <3>2. CASE i < j
      <4>1. g[j] = f[j]
        BY <1>3, <2>1, <2>3, <3>2
      <4> QED BY <1>6, <3>2, <4>1 DEF Brackets
    <3> QED BY <1>3, <2>3, <3>1, <3>2
  <2>7. Unset(g, s.top)
    <3> SUFFICES ASSUME NEW j \in Levels, j > s.top PROVE g[j].prev = Nil
      BY DEF Unset
    <3>1. j # i
      BY <1>3, <1>6, <2>3
    <3>2. f[j].prev = Nil
      BY <1>6 DEF Unset
    <3> QED BY <2>1, <3>1, <3>2
  <2>8. \A l \in Lists : l # k => Idling(y.ins[l], l)
    BY <1>4, <2>2
  <2>9. CASE i > 1
    <3>a. PICK z : z = [y EXCEPT !.level = i - 1]
      OBVIOUS
    <3>0. i - 1 \in Levels /\ i - 1 <= s.top /\ i - 1 + 1 = i /\ i - 1 < i
      BY <1>3, <1>6, <2>9, LevelRange
    <3>1. thread' = [thread EXCEPT ![t] = z]
      <4>1. y.level = i
        BY <2>2
      <4> QED BY <1>11, <2>0, <2>9, <3>a, <4>1 DEF Find, Go
    <3>2. /\ z \in ThreadType /\ z.rec = s.rec /\ z.top = s.top /\ z.ins = y.ins /\ z.pc = "find" /\ z.level = i - 1
          /\ z.prev = p
      <4>1. y \in ThreadType /\ y.rec = s.rec /\ y.top = s.top /\ y.prev = p /\ y.pc = "find"
        BY <2>2
      <4> QED BY <3>0, <3>a, <4>1 DEF ThreadType
    <3>3. Working(z, z.ins[k], k, x)
      <4>1. z.ins[k].spl = g /\ z.ins[k].height = s.top /\ z.pc = "find" /\ z.level = i - 1 /\ z.prev = p /\ z.top = s.top
        BY <2>2, <3>2
      <4>2. LE(g[i - 1 + 1].prev, p)
        BY <2>1, <3>0 DEF LE
      <4>3. s.top <= height[k]
        BY <1>6
      <4> QED BY <2>5, <2>6, <2>7, <3>0, <4>1, <4>2, <4>3 DEF Working, Linking, Unlinked
    <3>4. In(p, i - 1)
      BY <1>3, <1>8, <3>0 DEF IList, IWorld, ITower
    <3>5. z \in ThreadType /\ z.rec = thread[t].rec /\ thread[t].pc \in {"splice"} \cup Searching
      BY <1>1, <3>2
    <3>6. Lower(z.prev, Node(t)) /\ In(z.prev, z.level) /\ z.pc \in Searching
      BY <1>8, <3>2, <3>4 DEF Searching
    <3>7. Working(z, z.ins[List(t)], List(t), Node(t)) /\ \A l \in Lists : l # List(t) => Idling(z.ins[l], l)
      BY <2>8, <3>2, <3>3
    <3>8. thread'[t] = z
      BY <3>1 DEF IList, IType
    <3> QED BY <1>7, <3>1, <3>2, <3>5, <3>6, <3>7, <3>8, SearchStep
  <2>10. CASE ~(i > 1)
    <3>a. PICK z : z = [y EXCEPT !.pc = "alloc"]
      OBVIOUS
    <3>1. thread' = [thread EXCEPT ![t] = z]
      BY <1>9, <1>11, <2>0, <2>10, <3>a DEF Find, Go
    <3>2. z \in ThreadType /\ z.rec = s.rec /\ z.top = s.top /\ z.ins = y.ins /\ z.pc = "alloc"
      <4>1. y \in ThreadType /\ y.rec = s.rec /\ y.top = s.top /\ "alloc" \in PCs
        BY <2>2 DEF PCs, Adding, Searching
      <4> QED BY <3>a, <4>1 DEF ThreadType
    <3>0. i - 1 = 0
      BY <1>3, <2>10
    <3>3. Working(z, z.ins[k], k, x)
      <4>1. z.ins[k].spl = g /\ z.ins[k].height = s.top /\ z.pc = "alloc" /\ z.top = s.top
        BY <2>2, <3>2
      <4>2. s.top <= height[k]
        BY <1>6
      <4> QED BY <2>5, <2>6, <2>7, <3>0, <4>1, <4>2 DEF Working, Linking, Unlinked
    <3>5. z \in ThreadType /\ z.rec = thread[t].rec /\ thread[t].pc \in {"splice"} \cup Searching
      BY <1>1, <3>2
    <3>6. z.pc # "find" /\ z.pc \in Searching
      BY <3>2 DEF Searching
    <3>7. Working(z, z.ins[List(t)], List(t), Node(t)) /\ \A l \in Lists : l # List(t) => Idling(z.ins[l], l)
      BY <2>8, <3>2, <3>3
    <3>8. thread'[t] = z
      BY <3>1 DEF IList, IType
    <3> QED BY <1>7, <3>1, <3>2, <3>5, <3>6, <3>7, <3>8, SearchStep
  <2> QED BY <2>9, <2>10
<1> QED BY <1>10, <1>11

-----------------------------------------------------------------------------
(* Linking a node, level by level.                                         *)

(* The place that the splice has for the node at level j. *)
LEMMA LinkPlace ==
  ASSUME IList, NEW t \in Threads, thread[t].pc \in Adding, NEW top \in Levels, NEW f, NEW j \in Levels,
         Spliced(f, 0, top, List(t)), Brackets(f, 0, top, Node(t)), Unset(f, top),
         NEW p, p = (IF f[j].prev = Nil THEN HeadOf(t) ELSE f[j].prev),
         NEW q, q = (IF f[j].prev = Nil THEN TailOf(t) ELSE f[j].next)
  PROVE  In(p, j) /\ Lower(p, Node(t)) /\ Present(q, j) /\ Lower(Node(t), q) /\ p \in Pointer /\ q \in Pointer
<1>0. work \in Works /\ top \in Int /\ j \in Int /\ 0 < j
  BY LevelRange DEF IList, IType
<1>1. In(p, j) /\ Lower(p, Node(t)) /\ Present(q, j) /\ Lower(Node(t), q)
  <2>1. CASE f[j].prev = Nil
    <3>1. p \in Heads /\ q \in Tails /\ Lower(p, Node(t)) /\ Lower(Node(t), q)
      BY <2>1, OwnNode DEF IList
    <3> QED BY <3>1, LevelFacts DEF Present, IList, IWorld
  <2>2. CASE f[j].prev # Nil
    <3>1. j <= top
      BY <1>0, <2>2 DEF Unset
    <3> QED BY <1>0, <2>2, <3>1 DEF Spliced, Brackets
  <2> QED BY <2>1, <2>2
<1> QED BY <1>0, <1>1, LowerFacts DEF Pointer

(* A writer begins to link its node at a level. *)
LEMMA LinkStart ==
  ASSUME IType, IType', Above' = Above, Nodes' = Nodes, work' = work, Grown, Higher,
         NEW t \in Threads, SplicesOK(t), thread[t].pc \in Searching \cup Linking,
         thread'[t].pc = "link", thread'[t].rec = thread[t].rec, thread'[t].ins = thread[t].ins,
         thread'[t].top = thread[t].top, thread'[t].tall <= height'[List(t)], thread'[t].level <= thread'[t].tall,
         Spliced(thread[t].ins[List(t)].spl, 0, thread[t].top, List(t)),
         Brackets(thread[t].ins[List(t)].spl, 0, thread[t].top, Node(t)),
         NEW p, p = thread'[t].prev, NEW q, q = thread'[t].next, NEW j \in Levels, j = thread'[t].level,
         In(p, j), Lower(p, Node(t)), Present(q, j), Lower(Node(t), q)
  PROVE  PlaceOK(t)' /\ SplicesOK(t)' /\ HelperOK(t)'
<1> PICK x : x = Node(t)
  OBVIOUS
<1> PICK k : k = List(t)
  OBVIOUS
<1> PICK s : s = thread[t]
  OBVIOUS
<1> PICK z : z = thread'[t]
  OBVIOUS
<1>1. Node(t)' = x /\ List(t)' = k
  BY DEF Node, List, Record
<1>2. HelperOK(t)'
  BY DEF HelperOK
<1>3. In(p, j)' /\ Lower(p, x)' /\ Present(q, j)' /\ Lower(x, q)'
  BY DEF Grown, In, Present, Lower
<1>4. PlaceOK(t)'
  BY <1>1, <1>3 DEF PlaceOK, In, Present, Lower
<1>5. k \in Lists
  BY OwnNode DEF Adding
<1>6. \A f, lo, hi, l : Spliced(f, lo, hi, l) => Spliced(f, lo, hi, l)'
  BY SplicedKept
<1>7. \A l \in Lists : height[l] \in Int /\ height'[l] \in Int /\ height[l] <= height'[l]
  BY LevelRange DEF IType, Higher
<1>8. ASSUME NEW l \in Lists, l # k PROVE Idling(z.ins[l], l)'
  <2> PICK I : I = z.ins[l]
    OBVIOUS
  <2>1. Idling(I, l)
    BY <1>8 DEF SplicesOK
  <2>2. I.height \in Int
    BY DEF IType, ThreadType, InserterType
  <2>3. \A i \in Levels : i \in Int
    BY LevelRange
  <2>4. Unset(I.spl, height'[l]) /\ I.height <= height'[l]
    BY <1>7, <2>1, <2>2, <2>3 DEF Idling, Unset
  <2>5. Spliced(I.spl, 0, I.height, l)'
    BY <1>6, <2>1 DEF Idling
  <2> QED BY <2>4, <2>5 DEF Idling, Unset
<1>9. Working(s, s.ins[k], k, x)
  BY DEF SplicesOK
<1>10. Working(z, z.ins[k], k, x)'
  <2> PICK f : f = z.ins[k].spl
    OBVIOUS
  <2>1. s.top \in Int /\ z.top = s.top /\ z.pc = "link"
    BY LevelRange DEF IType, ThreadType
  <2>2. z.ins[k].height = z.top /\ z.top <= height[k] /\ Unset(f, z.top)
    BY <1>9, <2>1 DEF Working
  <2>3. z.top <= height'[k]
    BY <1>5, <1>7, <2>1, <2>2
  <2>4. Spliced(f, 0, z.top, k)'
    BY <1>6, <2>1
  <2>5. Brackets(f, 0, z.top, x)'
    BY <2>1 DEF Brackets, Lower
  <2>6. z.tall <= height'[k] /\ z.level <= z.tall
    OBVIOUS
  <2> QED BY <2>1, <2>2, <2>3, <2>4, <2>5, <2>6 DEF Working, Unset
<1>11. thread'[t] = z /\ Node(t)' = x /\ List(t)' = k
  BY <1>1
<1>12. z.pc \in Linking
  BY DEF Linking, Unlinked
<1>13. /\ \A l \in Lists : z.pc \notin Searching \cup Linking \/ l # k => Idling(z.ins[l], l)'
       /\ z.pc \in Searching \cup Linking => Working(z, z.ins[k], k, x)'
  BY <1>8, <1>10, <1>12
<1>14. SplicesOK(t)'
  BY <1>11, <1>13 DEF SplicesOK
<1> QED BY <1>2, <1>4, <1>14

LEMMA NewNodeStep ==
  ASSUME IList, NEW t \in Threads, NewNode(t), thread'[t].pc # "arenaFull"
  PROVE  IList'
<1>1. thread[t].pc = "alloc" /\ thread[t].pc \in Adding \cup Over /\ thread[t].pc \in Adding /\ thread[t].pc \in Searching
  BY DEF NewNode, At, Adding, Searching
<1>2. List(t) \in Lists /\ work \in Works /\ thread[t] \in ThreadType /\ thread[t].rec \in DOMAIN work[t]
  BY <1>1, OwnNode DEF IList, IType
<1> PICK k \in Lists : k = List(t)
  BY <1>2
<1> PICK s : s = thread[t]
  OBVIOUS
<1> PICK f : f = s.ins[k].spl
  OBVIOUS
<1>3. PICK tall \in Levels :
        LET a == Alloc(arenaSize, tall)
        IN  /\ height' = [height EXCEPT ![List(t)] = IF a.ok /\ @ < tall THEN tall ELSE @]
            /\ Go(t, IF a.ok THEN LinkLevel(t, [thread[t] EXCEPT !.tall = tall, !.moved = FALSE], 1)
                     ELSE Failed(thread[t], "arenaFull"))
  BY DEF NewNode
<1>4. work' = work /\ next' = next /\ prev' = prev
  BY DEF NewNode
<1>5. Alloc(arenaSize, tall).ok
  <2> SUFFICES ASSUME ~Alloc(arenaSize, tall).ok PROVE FALSE
    OBVIOUS
  <2>1. thread' = [thread EXCEPT ![t] = Failed(thread[t], "arenaFull")]
    BY <1>3 DEF Go
  <2>2. thread'[t] = Failed(thread[t], "arenaFull")
    BY <2>1 DEF IList, IType
  <2>3. thread'[t].pc = "arenaFull"
    BY <1>2, <2>2 DEF Failed, ThreadType
  <2> QED BY <2>3
<1>6. height' = [height EXCEPT ![k] = IF @ < tall THEN tall ELSE @]
  BY <1>3, <1>5
<1>7. height' \in [Lists -> Levels] /\ Higher /\ tall <= height'[k]
  <2>1. height \in [Lists -> Levels]
    BY DEF IList, IType
  <2> QED BY <1>6, <2>1, LevelRange DEF Higher
<1>8. PICK p : p = IF f[1].prev = Nil THEN HeadOf(t) ELSE f[1].prev
  OBVIOUS
<1>9. PICK q : q = IF f[1].prev = Nil THEN TailOf(t) ELSE f[1].next
  OBVIOUS
<1>10. PICK y : y = [s EXCEPT !.tall = tall, !.moved = FALSE]
  OBVIOUS
<1>11. y \in ThreadType /\ y.rec = s.rec /\ y.ins = s.ins /\ y.top = s.top /\ y.tall = tall
  BY <1>2, <1>10 DEF ThreadType
<1>12. PICK z : z = [y EXCEPT !.pc = "link", !.level = 1, !.prev = p, !.next = q]
  OBVIOUS
<1>13. SplicesOK(t) /\ NodesOK(t)
  BY DEF IList, ILocal, ISplices, IWorld, INodes
<1>14. Spliced(f, 0, s.top, k) /\ Brackets(f, 0, s.top, Node(t)) /\ Unset(f, s.top)
  BY <1>1, <1>13 DEF SplicesOK, Working, Searching
<1>15. In(p, 1) /\ Lower(p, Node(t)) /\ Present(q, 1) /\ Lower(Node(t), q) /\ p \in Pointer /\ q \in Pointer
  <2>1. s.top \in Levels /\ 1 \in Levels
    BY <1>2, LevelRange DEF ThreadType
  <2> PICK top \in Levels : top = s.top
    BY <2>1
  <2> PICK j \in Levels : j = 1
    BY <2>1
  <2>2. Spliced(f, 0, top, List(t)) /\ Brackets(f, 0, top, Node(t)) /\ Unset(f, top)
    BY <1>14
  <2>3. p = (IF f[j].prev = Nil THEN HeadOf(t) ELSE f[j].prev) /\ q = (IF f[j].prev = Nil THEN TailOf(t) ELSE f[j].next)
    BY <1>8, <1>9
  <2>4. In(p, j) /\ Lower(p, Node(t)) /\ Present(q, j) /\ Lower(Node(t), q) /\ p \in Pointer /\ q \in Pointer
    BY <1>1, <2>2, <2>3, LinkPlace
  <2> QED BY <2>4
<1>16. /\ z \in ThreadType /\ z.pc = "link" /\ z.level = 1 /\ z.prev = p /\ z.next = q
       /\ z.rec = s.rec /\ z.ins = s.ins /\ z.top = s.top /\ z.tall = tall
  <2>1. "link" \in PCs
    BY DEF PCs, Adding, Linking, Unlinked
  <2> QED BY <1>11, <1>12, <1>15, <2>1, LevelRange DEF ThreadType
<1>17. thread' = [thread EXCEPT ![t] = z]
  <2>1. z = LinkLevel(t, y, 1)
    BY <1>8, <1>9, <1>11, <1>12 DEF LinkLevel
  <2> QED BY <1>3, <1>5, <1>10, <2>1 DEF Go
<1>18. IType' /\ thread'[t] = z /\ \A u \in Threads \ {t} : thread'[u] = thread[u]
  BY <1>2, <1>4, <1>7, <1>16, <1>17, TypeStep DEF IList, IType
<1>19. Above' = Above /\ Nodes' = Nodes
  BY <1>4, OrderKept
<1>20. LevelSets' = LevelSets
  <2>1. \A n, i : ~Marked(t, n, i)
    BY <1>1 DEF Marked, Unlinked
  <2>2. \A n, i : Marked(t, n, i)' => n = Node(t) /\ i = 1
    BY <1>16, <1>18 DEF Marked, Node
  <2>3. next[Node(t)][1] = Nil
    BY <1>1, Searcher, LevelRange
  <2> QED BY <1>4, <1>18, <2>1, <2>2, <2>3, LevelsKept
<1>21. Grown
  BY <1>20 DEF Grown
<1>22. PlaceOK(t)' /\ SplicesOK(t)' /\ HelperOK(t)'
  <2>1. thread[t].pc \in Searching \cup Linking /\ thread'[t].level <= thread'[t].tall /\ IType
    BY <1>1, <1>16, <1>18, LevelRange DEF IList
  <2>2. 1 \in Levels
    BY LevelRange
  <2> QED BY <1>4, <1>7, <1>13, <1>14, <1>15, <1>16, <1>18, <1>19, <1>21, <2>1, <2>2, LinkStart
<1>23. NodesOK(t)'
  <2>0. \A i \in Levels : ~(i < 1)
    BY LevelRange
  <2>1. \A r : \A i \in Levels : Untouched(z, r, i) => Untouched(s, r, i)
    BY <1>1, <1>16 DEF Untouched, Searching, Linking, Unlinked
  <2>2. \A r : \A i \in Levels : Touched(z, r, i) => Touched(s, r, i)
    BY <1>1, <1>16, <2>0 DEF Touched, Searching, Linking, Unlinked, Adding, Over
  <2> QED BY <1>4, <1>13, <1>18, <2>1, <2>2 DEF NodesOK
<1> QED BY <1>1, <1>4, <1>7, <1>16, <1>18, <1>20, <1>22, <1>23, QuietStep

LEMMA Linker ==
  ASSUME IList, NEW t \in Threads, thread[t].pc \in Linking,
         NEW i, i = thread[t].level, NEW p, p = thread[t].prev, NEW q, q = thread[t].next, NEW x, x = Node(t)
  PROVE  /\ work \in Works /\ thread[t] \in ThreadType /\ thread[t].rec \in DOMAIN work[t] /\ i \in Levels
         /\ x \in Nodes \ (Heads \cup Tails) /\ In(p, i) /\ p \in Nodes /\ Lower(p, x)
         /\ thread[t].pc # "refind" => Present(q, i) /\ q \in Nodes \ Heads /\ Lower(x, q) /\ Lower(p, q)
         /\ thread[t].pc \in Unlinked => ~In(x, i) /\ ~Present(x, i)
         /\ thread[t].pc = "back" => In(x, i)
         /\ \A j \in Levels : j < i => In(x, j)
<1>0. thread[t].pc \in Adding \cup Over
  BY DEF Adding
<1>1. work \in Works /\ thread[t] \in ThreadType /\ thread[t].rec \in DOMAIN work[t] /\ i \in Levels
  BY <1>0 DEF IList, IType, ThreadType
<1>2. x \in Nodes \ (Heads \cup Tails)
  BY <1>0, OwnNode DEF IList
<1>3. In(p, i) /\ Lower(p, x) /\ (thread[t].pc # "refind" => Present(q, i) /\ Lower(x, q))
  BY DEF IList, ILocal, IPlaces, PlaceOK
<1>4. p \in Nodes /\ (thread[t].pc # "refind" => q \in Nodes \ Heads /\ Lower(p, q))
  BY <1>1, <1>3, LowerFacts
<1>5. \A n, j : j \in Levels => (In(n, j) <=> n \in Nodes /\ next[n][j] # Nil /\ \A u \in Threads : ~Marked(u, n, j))
  BY DEF In, LevelSets, InLevel, Marked
<1>6. thread[t].pc \in Unlinked => ~In(x, i) /\ ~Present(x, i)
  BY <1>1, <1>2, <1>5 DEF Marked, Present
<1>7. \A u \in Threads : u # t => Node(u) # x
  BY DEF Node, NodeOf
<1>8. \A j \in Levels : j < i \/ (j = i /\ thread[t].pc = "back") => next[x][j] # Nil
  BY <1>1 DEF IList, IWorld, INodes, NodesOK, Touched, Node
<1>9. \A j \in Levels : j < i \/ (j = i /\ thread[t].pc = "back") => \A u \in Threads : ~Marked(u, x, j)
  BY <1>1, <1>7, LevelRange DEF Marked, Unlinked
<1> QED BY <1>1, <1>2, <1>3, <1>4, <1>5, <1>6, <1>8, <1>9

(* The splice does not change while a level is linked. *)
LEMMA LinkerSplices ==
  ASSUME IType, IType', Above' = Above, Nodes' = Nodes, work' = work, height' = height, Grown,
         NEW t \in Threads, SplicesOK(t), thread[t].pc \in Linking, thread'[t].pc \in Linking,
         thread'[t].rec = thread[t].rec, thread'[t].ins = thread[t].ins, thread'[t].top = thread[t].top,
         thread'[t].tall = thread[t].tall, thread'[t].level = thread[t].level
  PROVE  SplicesOK(t)'
<1> PICK x : x = Node(t)
  OBVIOUS
<1> PICK k : k = List(t)
  OBVIOUS
<1> PICK s : s = thread[t]
  OBVIOUS
<1> PICK z : z = thread'[t]
  OBVIOUS
<1>1. thread'[t] = z /\ Node(t)' = x /\ List(t)' = k
  BY DEF Node, List, Record
<1>2. \A f, lo, hi, l : Spliced(f, lo, hi, l) => Spliced(f, lo, hi, l)'
  BY SplicedKept
<1>3. \A l \in Lists : l # k => Idling(z.ins[l], l)'
  BY <1>2 DEF SplicesOK, Idling, Unset
<1>4. \A f, lo, hi : Brackets(f, lo, hi, x) => Brackets(f, lo, hi, x)'
  BY DEF Brackets, Lower
<1>5. z.pc \notin {"check", "find"} /\ s.pc \notin {"check", "find"} /\ s.pc \in Linking /\ z.pc \in Linking
  BY DEF Linking, Unlinked
<1>6. Working(s, s.ins[k], k, x)
  BY DEF SplicesOK
<1>7. z.ins[k] = s.ins[k] /\ z.top = s.top /\ z.tall = s.tall /\ z.level = s.level
  OBVIOUS
<1>8. Working(z, z.ins[k], k, x)'
  BY <1>2, <1>4, <1>5, <1>6, <1>7 DEF Working, Unset
<1>9. /\ \A l \in Lists : z.pc \notin Searching \cup Linking \/ l # k => Idling(z.ins[l], l)'
      /\ z.pc \in Searching \cup Linking => Working(z, z.ins[k], k, x)'
  BY <1>3, <1>5, <1>8
<1> QED BY <1>1, <1>9 DEF SplicesOK

LEMMA LinkQuiet ==
  ASSUME IList, work' = work, next' = next, prev' = prev, height' = height,
         NEW t \in Threads, thread[t].pc \in Unlinked,
         NEW z \in ThreadType, thread' = [thread EXCEPT ![t] = z], z.pc \in {"link", "helpCas", "cas", "refind"},
         z.rec = thread[t].rec, z.ins = thread[t].ins, z.top = thread[t].top, z.tall = thread[t].tall,
         z.level = thread[t].level,
         In(z.prev, z.level), Lower(z.prev, Node(t)),
         z.pc # "refind" => Present(z.next, z.level) /\ Lower(Node(t), z.next),
         z.pc \in {"helpCas", "cas"} => /\ thread[t].pc \in {"help", "helpCas", "cas"}
                                        /\ z.next = thread[t].next /\ z.prev = thread[t].prev,
         z.pc = "cas" => (next[z.prev][z.level] = z.next => prev[z.next][z.level] = z.prev),
         z.pc = "helpCas" => /\ thread[t].pc = "help" /\ z.seen = thread[t].seen /\ Lower(z.seen, z.prev)
                             /\ next[z.prev][z.level] = z.next
  PROVE  IList'
<1>0. thread[t].pc \in Linking /\ z.pc \in Linking /\ z.pc \in Unlinked
  BY DEF Linking, Unlinked
<1>1. work \in Works /\ thread[t].rec \in DOMAIN work[t] /\ thread[t].level \in Levels
  BY <1>0, Linker
<1>2. IType' /\ thread'[t] = z /\ \A u \in Threads \ {t} : thread'[u] = thread[u]
  BY <1>1, TypeStep DEF IList, IType
<1>3. Nodes' = Nodes /\ Above' = Above
  BY OrderKept
<1>4. Node(t)' = Node(t)
  BY <1>2 DEF Node
<1>5. LevelSets' = LevelSets
  <2>1. \A n, i : Marked(t, n, i)' <=> Marked(t, n, i)
    BY <1>0, <1>2, <1>4 DEF Marked
  <2> QED BY <1>2, <2>1, LevelsKept
<1>6. Higher /\ Grown
  BY <1>5, LevelRange DEF Higher, Grown, IList, IType
<1>7. NodesOK(t)'
  <2>1. NodesOK(t)
    BY DEF IList, IWorld, INodes
  <2>2. \A r, i : Untouched(z, r, i) => Untouched(thread[t], r, i)
    BY <1>0 DEF Untouched, Searching, Linking, Unlinked
  <2>3. \A r, i : Touched(z, r, i) => Touched(thread[t], r, i)
    BY <1>0 DEF Touched, Searching, Linking, Unlinked, Adding, Over
  <2> QED BY <1>2, <2>1, <2>2, <2>3 DEF NodesOK
<1>8. SplicesOK(t)'
  BY <1>0, <1>2, <1>3, <1>6, LinkerSplices DEF IList, ILocal, ISplices
<1>9. PlaceOK(t) /\ HelperOK(t)
  BY DEF IList, ILocal, IPlaces, IHelpers
<1>10. PlaceOK(t)'
  BY <1>2, <1>3, <1>4, <1>5, <1>9 DEF PlaceOK, Linking, Unlinked, In, Present, Lower
<1>11. HelperOK(t)'
  BY <1>2, <1>3, <1>9 DEF HelperOK, LE, Lower
<1> QED BY <1>2, <1>5, <1>6, <1>7, <1>8, <1>10, <1>11, QuietStep DEF Unlinked

LEMMA HelpStep ==
  ASSUME IList, NEW t \in Threads, Help(t)
  PROVE  IList'
<1> PICK s : s = thread[t]
  OBVIOUS
<1> PICK i : i = s.level
  OBVIOUS
<1> PICK p : p = s.prev
  OBVIOUS
<1> PICK q : q = s.next
  OBVIOUS
<1> PICK x : x = Node(t)
  OBVIOUS
<1>1. s.pc = "help" /\ thread[t].pc \in Unlinked /\ thread[t].pc \in Linking
  BY DEF Help, At, Linking, Unlinked
<1>2. /\ work \in Works /\ thread[t] \in ThreadType /\ i \in Levels /\ In(p, i) /\ p \in Nodes /\ Lower(p, x)
      /\ Present(q, i) /\ q \in Nodes /\ Lower(x, q) /\ Lower(p, q)
  BY <1>1, Linker
<1>3. work' = work /\ next' = next /\ prev' = prev /\ height' = height
  BY DEF Help
<1>4. In(s.seen, i) /\ Lower(s.seen, q) /\ s.seen # p
  BY <1>1 DEF IList, ILocal, IPlaces, PlaceOK
<1>5. ASSUME NEW pc \in {"helpCas", "cas"}, thread' = [thread EXCEPT ![t] = [s EXCEPT !.pc = pc]],
             pc = "helpCas" <=> next[p][i] = q
      PROVE  IList'
  <2>1. PICK z : z = [s EXCEPT !.pc = pc]
    OBVIOUS
  <2>2. /\ z \in ThreadType /\ z.pc = pc /\ z.rec = s.rec /\ z.ins = s.ins /\ z.top = s.top /\ z.tall = s.tall
        /\ z.level = i /\ z.prev = p /\ z.next = q /\ z.seen = s.seen
    <3>1. pc \in PCs
      BY DEF PCs, Adding, Linking, Unlinked
    <3> QED BY <1>2, <2>1, <3>1 DEF ThreadType
  <2>3. pc = "helpCas" => Lower(s.seen, p)
    <3> SUFFICES ASSUME next[p][i] = q PROVE Lower(s.seen, p)
      BY <1>5
    <3>1. s.seen \in Nodes
      BY <1>2, <1>4, LowerFacts
    <3>2. ~Lower(p, s.seen)
      BY <1>2, <1>4, <3>1, Adjacent DEF IList, IWorld
    <3> QED BY <1>2, <1>4, <3>2, LowerFacts
  <2>4. thread' = [thread EXCEPT ![t] = z]
    BY <1>5, <2>1
  <2>5. In(z.prev, z.level) /\ Lower(z.prev, Node(t)) /\ Present(z.next, z.level) /\ Lower(Node(t), z.next)
    BY <1>2, <2>2
  <2>6. z.pc \in {"link", "helpCas", "cas", "refind"} /\ thread[t].pc \in {"help", "helpCas", "cas"}
    BY <1>1, <2>2
  <2>7. z.pc = "cas" => ~(next[z.prev][z.level] = z.next)
    BY <1>5, <2>2
  <2>8. z.pc = "helpCas" => next[z.prev][z.level] = z.next /\ Lower(z.seen, z.prev)
    BY <1>5, <2>2, <2>3
  <2> QED BY <1>1, <1>3, <2>2, <2>4, <2>5, <2>6, <2>7, <2>8, LinkQuiet
<1> QED BY <1>5 DEF Help, Go

LEMMA RefindStep ==
  ASSUME IList, NEW t \in Threads, Refind(t)
  PROVE  IList' /\ thread'[t].pc \notin {"exists", "panic"}
<1> PICK s : s = thread[t]
  OBVIOUS
<1> PICK i : i = s.level
  OBVIOUS
<1> PICK p : p = s.prev
  OBVIOUS
<1> PICK n : n = next[p][i]
  OBVIOUS
<1> PICK x : x = Node(t)
  OBVIOUS
<1>1. s.pc = "refind" /\ thread[t].pc \in Unlinked /\ thread[t].pc \in Linking /\ thread[t].pc \in Adding
  BY DEF Refind, At, Linking, Unlinked, Adding
<1>2. work \in Works /\ thread[t] \in ThreadType /\ i \in Levels /\ In(p, i) /\ p \in Nodes /\ Lower(p, x) /\ ~In(x, i)
  BY <1>1, Linker
<1>3. work' = work /\ next' = next /\ prev' = prev /\ height' = height
  BY DEF Refind
<1>4. /\ Present(n, i) /\ n \in Nodes /\ ~Found(t, n)
      /\ Before(t, n) => Lower(n, x) /\ In(n, i)
      /\ ~Before(t, n) => Lower(x, n)
  BY <1>1, <1>2, NextOf
<1>5. CASE Before(t, n)
  <2>1. PICK z : z = [s EXCEPT !.prev = n]
    OBVIOUS
  <2>2. /\ z \in ThreadType /\ z.pc = "refind" /\ z.rec = s.rec /\ z.ins = s.ins /\ z.top = s.top /\ z.tall = s.tall
        /\ z.level = i /\ z.prev = n
    BY <1>1, <1>2, <1>4, <2>1 DEF ThreadType, Pointer
  <2>3. thread' = [thread EXCEPT ![t] = z] /\ thread'[t] = z
    BY <1>5, <2>1 DEF Refind, Go, IList, IType
  <2> QED BY <1>1, <1>3, <1>4, <1>5, <2>2, <2>3, LinkQuiet
<1>6. CASE ~Before(t, n)
  <2>1. PICK z : z = [s EXCEPT !.pc = "link", !.next = n, !.moved = TRUE]
    OBVIOUS
  <2>2. /\ z \in ThreadType /\ z.pc = "link" /\ z.rec = s.rec /\ z.ins = s.ins /\ z.top = s.top /\ z.tall = s.tall
        /\ z.level = i /\ z.prev = p /\ z.next = n
    <3>1. "link" \in PCs
      BY DEF PCs, Adding, Linking, Unlinked
    <3> QED BY <1>1, <1>2, <1>4, <2>1, <3>1 DEF ThreadType, Pointer
  <2>3. thread' = [thread EXCEPT ![t] = z] /\ thread'[t] = z
    BY <1>4, <1>6, <2>1 DEF Refind, Go, IList, IType
  <2> QED BY <1>1, <1>2, <1>3, <1>4, <1>6, <2>2, <2>3, LinkQuiet
<1> QED BY <1>5, <1>6

LEMMA Update ==
  ASSUME NEW g \in [Nodes -> [Levels -> Pointer]], NEW n \in Nodes, NEW i \in Levels, NEW v \in Pointer,
         NEW h, h = [g EXCEPT ![n][i] = v]
  PROVE  /\ h \in [Nodes -> [Levels -> Pointer]] /\ h[n][i] = v
         /\ \A m \in Nodes : \A j \in Levels : m # n \/ j # i => h[m][j] = g[m][j]
<1>1. g[n] \in [Levels -> Pointer] /\ h = [g EXCEPT ![n] = [g[n] EXCEPT ![i] = v]]
  OBVIOUS
<1>2. [g[n] EXCEPT ![i] = v] \in [Levels -> Pointer]
  BY <1>1
<1>3. h \in [Nodes -> [Levels -> Pointer]]
  BY <1>1, <1>2
<1>4. h[n] = [g[n] EXCEPT ![i] = v] /\ \A m \in Nodes : m # n => h[m] = g[m]
  BY <1>1
<1>5. h[n][i] = v /\ \A j \in Levels : j # i => h[n][j] = g[n][j]
  BY <1>1, <1>4
<1> QED BY <1>3, <1>4, <1>5

LEMMA LinkStep ==
  ASSUME IList, NEW t \in Threads, Link(t)
  PROVE  IList'
<1> PICK s : s = thread[t]
  OBVIOUS
<1> PICK i : i = s.level
  OBVIOUS
<1> PICK p : p = s.prev
  OBVIOUS
<1> PICK q : q = s.next
  OBVIOUS
<1> PICK x : x = Node(t)
  OBVIOUS
<1> PICK w : w = prev[q][i]
  OBVIOUS
<1>1. s.pc = "link" /\ thread[t].pc \in Unlinked /\ thread[t].pc \in Linking
  BY DEF Link, At, Linking, Unlinked
<1>2. /\ work \in Works /\ thread[t] \in ThreadType /\ thread[t].rec \in DOMAIN work[t] /\ i \in Levels
      /\ x \in Nodes \ (Heads \cup Tails) /\ In(p, i) /\ p \in Nodes /\ Lower(p, x)
      /\ Present(q, i) /\ q \in Nodes \ Heads /\ Lower(x, q) /\ Lower(p, q) /\ ~In(x, i) /\ ~Present(x, i)
  BY <1>1, Linker
<1>3. work' = work /\ height' = height
  BY DEF Link
<1>4. In(w, i) /\ Lower(w, q) /\ w \in Nodes
  <2>1. In(w, i) /\ Lower(w, q)
    BY <1>2 DEF IList, IWorld, IPrev
  <2> QED BY <1>2, <2>1, LowerFacts
<1>5. next \in [Nodes -> [Levels -> Pointer]] /\ prev \in [Nodes -> [Levels -> Pointer]]
  BY DEF IList, IType
<1>6. /\ next' \in [Nodes -> [Levels -> Pointer]] /\ next'[x][i] = q
      /\ \A m \in Nodes : \A j \in Levels : m # x \/ j # i => next'[m][j] = next[m][j]
  <2>1. next' = [next EXCEPT ![x][i] = q]
    BY DEF Link
  <2>2. q \in Pointer
    BY <1>2 DEF Pointer
  <2> QED BY <1>2, <1>5, <2>1, <2>2, Update
<1>7. /\ prev' \in [Nodes -> [Levels -> Pointer]] /\ prev'[x][i] = p
      /\ \A m \in Nodes : \A j \in Levels : m # x \/ j # i => prev'[m][j] = prev[m][j]
  <2>1. prev' = [prev EXCEPT ![x][i] = p]
    BY DEF Link
  <2>2. p \in Pointer
    BY <1>2 DEF Pointer
  <2> QED BY <1>2, <1>5, <2>1, <2>2, Update
<1>8. PICK z : z = [s EXCEPT !.seen = w, !.pc = IF w = p THEN "cas" ELSE "help"]
  OBVIOUS
<1>9. /\ z \in ThreadType /\ z.pc = (IF w = p THEN "cas" ELSE "help") /\ z.seen = w /\ z.prev = p /\ z.next = q
      /\ z.level = i /\ z.rec = s.rec /\ z.ins = s.ins /\ z.top = s.top /\ z.tall = s.tall
  <2>1. (IF w = p THEN "cas" ELSE "help") \in PCs
    BY DEF PCs, Adding, Linking, Unlinked
  <2> QED BY <1>2, <1>4, <1>8, <2>1 DEF ThreadType, Pointer
<1>10. IType' /\ thread'[t] = z /\ \A u \in Threads \ {t} : thread'[u] = thread[u]
  <2>1. thread' = [thread EXCEPT ![t] = z]
    BY <1>8 DEF Link, Go
  <2> QED BY <1>2, <1>3, <1>6, <1>7, <1>9, <2>1, TypeStep DEF IList, IType
<1>11. Nodes' = Nodes /\ Above' = Above
  BY <1>3, OrderKept
<1>12. Node(t)' = x /\ z.pc \in Unlinked /\ z.pc \in Linking
  BY <1>9, <1>10 DEF Node, Unlinked, Linking
<1>13. LevelSets' = LevelSets
  <2>1. \A n, j : Marked(t, n, j) <=> n = x /\ j = i
    BY <1>1 DEF Marked
  <2>2. \A n, j : Marked(t, n, j)' <=> n = x /\ j = i
    BY <1>9, <1>10, <1>12 DEF Marked
  <2> QED BY <1>3, <1>6, <1>10, <2>1, <2>2, LevelsKept
<1>14. Higher /\ Grown
  BY <1>3, <1>13, LevelRange DEF Higher, Grown, IList, IType
<1>15. \A j \in Levels : \A n \in Nodes : In(n, j) => next'[n][j] = next[n][j]
  BY <1>2, <1>6
<1>16. \A j \in Levels : \A n \in Nodes : Present(n, j) => prev'[n][j] = prev[n][j]
  BY <1>2, <1>7
<1>17. INodes'
  <2>1. IEnds'
    <3>1. \A l \in Lists : HeadNode(l) \in Nodes \ {x} /\ TailNode(l) \in Nodes \ {x}
      BY <1>2, NodeFacts DEF Heads, Tails
    <3> QED BY <1>6, <3>1 DEF IList, IWorld, INodes, IEnds
  <2>2. ASSUME NEW u \in Threads, u # t PROVE NodesOK(u)'
    <3>1. NodesOK(u) /\ thread'[u] = thread[u]
      BY <1>10, <2>2 DEF IList, IWorld, INodes
    <3>2. \A r \in DOMAIN work[u] : NodeOf(u, r) \in Nodes /\ NodeOf(u, r) # x
      BY <1>2, <2>2, NodeFacts DEF Node, NodeOf
    <3> QED BY <1>3, <1>6, <3>1, <3>2 DEF NodesOK
  <2>3. NodesOK(t)'
    <3>0. NodesOK(t)
      BY DEF IList, IWorld, INodes
    <3> SUFFICES ASSUME NEW r \in DOMAIN work[t], NEW j \in Levels
                 PROVE  /\ Untouched(z, r, j) => next'[NodeOf(t, r)][j] = Nil
                        /\ Touched(z, r, j) => next'[NodeOf(t, r)][j] # Nil
      BY <1>3, <1>10 DEF NodesOK
    <3>1. NodeOf(t, r) \in Nodes /\ (NodeOf(t, r) = x <=> r = s.rec)
      BY <1>2, NodeFacts DEF Node, NodeOf
    <3>2. CASE r = s.rec /\ j = i
      <4>1. next'[NodeOf(t, r)][j] # Nil
        BY <1>2, <1>6, <3>1, <3>2, NodeFacts
      <4>2. ~Untouched(z, r, j)
        BY <1>2, <1>9, <1>12, <3>2, LevelRange DEF Untouched, Linking, Unlinked, Searching, ThreadType
      <4> QED BY <4>1, <4>2
    <3>3. CASE r # s.rec \/ j # i
      <4>1. next'[NodeOf(t, r)][j] = next[NodeOf(t, r)][j]
        BY <1>6, <3>1, <3>3
      <4>2. Untouched(z, r, j) => Untouched(s, r, j)
        BY <1>1, <1>9, <1>12 DEF Untouched, Linking, Unlinked, Searching
      <4>3. Touched(z, r, j) => Touched(s, r, j)
        BY <1>1, <1>9, <1>12, <3>3 DEF Touched, Linking, Unlinked, Over, Adding
      <4> QED BY <3>0, <4>1, <4>2, <4>3 DEF NodesOK
    <3> QED BY <3>2, <3>3
  <2> QED BY <2>1, <2>2, <2>3 DEF INodes
<1>18. ITower'
  BY <1>11, <1>13 DEF ITower, In, IList, IWorld
<1>19. ISorted'
  <2>1. ISorted
    BY DEF IList, IWorld
  <2> QED BY <1>11, <1>13, <1>15, <2>1 DEF ISorted, In, Lower, Present
<1>20. IPrev'
  <2>1. IPrev
    BY DEF IList, IWorld
  <2> QED BY <1>11, <1>13, <1>16, <2>1 DEF IPrev, In, Lower, Present
<1>21. IAdjacent'
  <2> SUFFICES ASSUME NEW j \in Levels, NEW n \in Nodes, In(n, j)
               PROVE  (prev[next[n][j]][j] = n \/ \E u \in Threads : Owes(u, n, next[n][j], j))'
    BY <1>11, <1>13 DEF IAdjacent, In
  <2> PICK m : m = next[n][j]
    OBVIOUS
  <2>1. next'[n][j] = m /\ prev'[m][j] = prev[m][j]
    <3>1. Present(m, j)
      BY DEF IList, IWorld, ISorted
    <3>2. m \in Nodes
      BY <3>1, LevelFacts DEF IList, IWorld
    <3> QED BY <1>15, <1>16, <3>1, <3>2
  <2>2. CASE prev[m][j] = n
    BY <2>1, <2>2
  <2>3. CASE \E u \in Threads : Owes(u, n, m, j)
    <3>1. PICK u \in Threads : Owes(u, n, m, j)
      BY <2>3
    <3>2. u # t
      BY <1>1, <3>1 DEF Owes
    <3>3. Owes(u, n, m, j)'
      BY <1>10, <2>1, <3>1, <3>2 DEF Owes, Node
    <3> QED BY <2>1, <3>3 DEF Owes
  <2> QED BY <2>2, <2>3 DEF IList, IWorld, IAdjacent
<1>22. IPlaces'
  <2>1. ASSUME NEW u \in Threads, u # t PROVE PlaceOK(u)'
    <3>1. PlaceOK(u) /\ thread'[u] = thread[u]
      BY <1>10, <2>1 DEF IList, ILocal, IPlaces
    <3>2. ASSUME thread[u].pc \in {"help", "helpCas", "cas"}
          PROVE  /\ next'[Node(u)][thread[u].level] = next[Node(u)][thread[u].level]
                 /\ prev'[Node(u)][thread[u].level] = prev[Node(u)][thread[u].level]
      <4>1. thread[u].pc \in Linking
        BY <3>2 DEF Linking, Unlinked
      <4>2. Node(u) \in Nodes /\ thread[u].level \in Levels
        BY <4>1, Linker
      <4>3. Node(u) # x
        BY <2>1 DEF Node, NodeOf
      <4> QED BY <1>6, <1>7, <4>2, <4>3
    <3>3. Node(u)' = Node(u)
      BY <3>1 DEF Node
    <3> QED BY <1>11, <1>13, <3>1, <3>2, <3>3 DEF PlaceOK, In, Present, Lower
  <2>2. PlaceOK(t)'
    <3>1. thread'[t] = z /\ next'[x][i] = q /\ prev'[x][i] = p
      BY <1>6, <1>7, <1>10
    <3>2. In(p, i)' /\ Lower(p, x)' /\ Present(q, i)' /\ Lower(x, q)' /\ In(w, i)' /\ Lower(w, q)'
      BY <1>2, <1>4, <1>11, <1>13 DEF In, Lower, Present
    <3> QED BY <1>9, <1>12, <3>1, <3>2 DEF PlaceOK, In, Lower, Present
  <2> QED BY <2>1, <2>2 DEF IPlaces
<1>23. ISplices'
  <2>1. ASSUME NEW u \in Threads, u # t PROVE SplicesOK(u)'
    BY <1>3, <1>10, <1>11, <1>14, <2>1, SplicesKept DEF IList, ILocal, ISplices
  <2>2. SplicesOK(t)'
    BY <1>1, <1>3, <1>9, <1>10, <1>11, <1>12, <1>14, LinkerSplices DEF IList, ILocal, ISplices
  <2> QED BY <2>1, <2>2 DEF ISplices
<1>24. IHelpers'
  <2>1. ASSUME NEW u \in Threads, u # t PROVE HelperOK(u)'
    <3>1. HelperOK(u) /\ thread'[u] = thread[u]
      BY <1>10, <2>1 DEF IList, ILocal, IHelpers
    <3>2. ASSUME thread[u].pc \in {"help", "helpCas", "cas", "back"}
          PROVE  /\ next'[thread[u].prev][thread[u].level] = next[thread[u].prev][thread[u].level]
                 /\ prev'[thread[u].next][thread[u].level] = prev[thread[u].next][thread[u].level]
      <4>1. thread[u].pc \in Linking /\ thread[u].pc # "refind"
        BY <3>2 DEF Linking, Unlinked
      <4>2. /\ In(thread[u].prev, thread[u].level) /\ Present(thread[u].next, thread[u].level)
            /\ thread[u].prev \in Nodes /\ thread[u].next \in Nodes /\ thread[u].level \in Levels
        BY <4>1, Linker
      <4> QED BY <1>15, <1>16, <4>2
    <3> QED BY <1>11, <3>1, <3>2 DEF HelperOK, Lower, LE
  <2>2. HelperOK(t)'
    <3>1. prev'[q][i] = w
      BY <1>2, <1>16
    <3> QED BY <1>9, <1>10, <3>1 DEF HelperOK, LE
  <2> QED BY <2>1, <2>2 DEF IHelpers
<1>25. IPairs'
  <2> SUFFICES ASSUME NEW a \in Threads, NEW b \in Threads PROVE PairOK(a, b)'
    BY DEF IPairs
  <2>1. PairOK(a, b)
    BY DEF IList, ILocal, IPairs
  <2>2. CASE b = t
    BY <1>9, <1>10, <2>2 DEF PairOK
  <2>3. CASE b # t /\ a # t
    <3>1. thread'[a] = thread[a] /\ thread'[b] = thread[b]
      BY <1>10, <2>3
    <3> QED BY <1>11, <2>1, <3>1 DEF PairOK, Node, LE, Lower
  <2>4. CASE b # t /\ a = t
    <3>1. thread'[b] = thread[b]
      BY <1>10, <2>4
    <3>2. HelperOK(b)
      BY DEF IList, ILocal, IHelpers
    <3> QED BY <1>9, <1>10, <1>11, <2>4, <3>1, <3>2 DEF PairOK, HelperOK, Node, LE, Lower
  <2> QED BY <2>2, <2>3, <2>4
<1> QED BY <1>10, <1>17, <1>18, <1>19, <1>20, <1>21, <1>22, <1>23, <1>24, <1>25 DEF IList, IWorld, ILocal

(* Writer t, at level i before q, moves the link back of q from v to w: links back only go up, nobody that is *)
(* about to put a node before q is misled, and the node before q is linked back to, or owed it.               *)
MovesBack(t, i, q, w, v) ==
  /\ t \in Threads /\ i \in Levels /\ q \in Nodes
  /\ work' = work /\ next' = next /\ height' = height /\ LevelSets' = LevelSets
  /\ \A u \in Threads \ {t} : thread'[u] = thread[u]
  /\ thread[t].level = i /\ thread[t].next = q /\ Present(q, i) /\ In(w, i) /\ Lower(w, q)
  /\ prev[q][i] = v /\ LE(v, w) /\ prev'[q][i] = w
  /\ \A m \in Nodes : \A j \in Levels : m # q \/ j # i => prev'[m][j] = prev[m][j]
  /\ \A n \in Nodes : In(n, i) /\ next[n][i] = q => w = n \/ (w = v /\ \E u \in Threads \ {t} : Owes(u, n, q, i))
  /\ \A u \in Threads \ {t} : thread[u].pc = "cas" /\ thread[u].level = i /\ thread[u].next = q
                              /\ next[thread[u].prev][i] = q => w = thread[u].prev
  /\ thread'[t].pc \notin {"help", "helpCas", "back"}

LEMMA BackStep ==
  ASSUME IList, IType', NEW t, NEW i, NEW q, NEW w, NEW v, MovesBack(t, i, q, w, v),
         NodesOK(t)', PlaceOK(t)', SplicesOK(t)', HelperOK(t)'
  PROVE  IList'
<1> USE DEF MovesBack
<1>0. work \in Works /\ Higher /\ Grown
  BY LevelRange DEF IList, IType, Higher, Grown
<1>1. Nodes' = Nodes /\ Above' = Above
  BY OrderKept
<1>2. INodes'
  <2>1. IEnds'
    BY DEF IList, IWorld, INodes, IEnds
  <2>2. ASSUME NEW u \in Threads, u # t PROVE NodesOK(u)'
    <3>1. NodesOK(u) /\ thread'[u] = thread[u]
      BY <2>2 DEF IList, IWorld, INodes
    <3> QED BY <3>1 DEF NodesOK
  <2> QED BY <2>1, <2>2 DEF INodes
<1>3. ITower' /\ ISorted'
  <2>1. ITower /\ ISorted
    BY DEF IList, IWorld
  <2>2. ITower'
    BY <1>1, <2>1 DEF ITower, In
  <2>3. ISorted'
    BY <1>1, <2>1 DEF ISorted, In, Lower, Present
  <2> QED BY <2>2, <2>3
<1>4. IPrev'
  <2> SUFFICES ASSUME NEW j \in Levels, NEW n \in Nodes, Present(n, j), n \notin Heads
               PROVE  (In(prev[n][j], j) /\ Lower(prev[n][j], n))'
    BY <1>1 DEF IPrev, Present, In
  <2> PICK m : m = prev'[n][j]
    OBVIOUS
  <2>1. In(m, j) /\ Lower(m, n)
    <3>1. CASE n = q /\ j = i
      BY <3>1
    <3>2. CASE n # q \/ j # i
      BY <3>2 DEF IList, IWorld, IPrev
    <3> QED BY <3>1, <3>2
  <2> QED BY <1>1, <2>1 DEF In, Lower
<1>5. IAdjacent'
  <2> SUFFICES ASSUME NEW j \in Levels, NEW n \in Nodes, In(n, j)
               PROVE  (prev[next[n][j]][j] = n \/ \E u \in Threads : Owes(u, n, next[n][j], j))'
    BY <1>1 DEF IAdjacent, In
  <2> PICK m : m = next[n][j]
    OBVIOUS
  <2>0. m \in Nodes
    <3>1. Present(m, j)
      BY DEF IList, IWorld, ISorted
    <3> QED BY <3>1, LevelFacts DEF IList, IWorld
  <2>1. CASE m = q /\ j = i
    <3>1. CASE w = n
      BY <2>1, <3>1
    <3>2. CASE w = v /\ \E u \in Threads \ {t} : Owes(u, n, q, i)
      <4>1. PICK u \in Threads \ {t} : Owes(u, n, q, i)
        BY <3>2
      <4>2. Owes(u, n, m, j)'
        BY <2>1, <3>2, <4>1 DEF Owes, Node
      <4> QED BY <4>2 DEF Owes
    <3> QED BY <2>1, <3>1, <3>2
  <2>2. CASE m # q \/ j # i
    <3>0. prev'[m][j] = prev[m][j]
      BY <2>0, <2>2
    <3>1. CASE prev[m][j] = n
      BY <3>0, <3>1
    <3>2. CASE \E u \in Threads : Owes(u, n, m, j)
      <4>1. PICK u \in Threads : Owes(u, n, m, j)
        BY <3>2
      <4>2. u # t
        BY <2>2, <4>1 DEF Owes
      <4>3. Owes(u, n, m, j)'
        BY <3>0, <4>1, <4>2 DEF Owes, Node
      <4> QED BY <4>3 DEF Owes
    <3> QED BY <3>1, <3>2 DEF IList, IWorld, IAdjacent
  <2> QED BY <2>1, <2>2
<1>6. IPlaces'
  <2>1. ASSUME NEW u \in Threads, u # t PROVE PlaceOK(u)'
    <3>1. PlaceOK(u) /\ thread'[u] = thread[u]
      BY <2>1 DEF IList, ILocal, IPlaces
    <3>2. ASSUME thread[u].pc \in {"help", "helpCas", "cas"}
          PROVE  prev'[Node(u)][thread[u].level] = prev[Node(u)][thread[u].level]
      <4>1. thread[u].pc \in Linking /\ thread[u].pc \in Unlinked
        BY <3>2 DEF Linking, Unlinked
      <4>2. Node(u) \in Nodes /\ thread[u].level \in Levels /\ ~Present(Node(u), thread[u].level)
        BY <4>1, Linker
      <4> QED BY <4>2
    <3>3. Node(u)' = Node(u)
      BY <3>1 DEF Node
    <3> QED BY <1>1, <3>1, <3>2, <3>3 DEF PlaceOK, In, Present, Lower
  <2> QED BY <2>1 DEF IPlaces
<1>7. ISplices'
  <2>1. ASSUME NEW u \in Threads, u # t PROVE SplicesOK(u)'
    BY <1>0, <1>1, <2>1, SplicesKept DEF IList, ILocal, ISplices
  <2> QED BY <2>1 DEF ISplices
<1>8. IHelpers'
  <2>1. ASSUME NEW u \in Threads, u # t PROVE HelperOK(u)'
    <3> PICK s : s = thread[u]
      OBVIOUS
    <3>1. HelperOK(u) /\ thread'[u] = s
      BY <2>1 DEF IList, ILocal, IHelpers
    <3>2. CASE s.pc \notin {"help", "helpCas", "cas", "back"}
      BY <3>1, <3>2 DEF HelperOK
    <3>3. CASE s.pc \in {"help", "helpCas", "cas", "back"} /\ s.next = q /\ s.level = i
      <4>1. /\ s.pc = "cas" /\ next[s.prev][i] = q => v = s.prev
            /\ s.pc = "helpCas" => Lower(s.seen, s.prev)
            /\ s.pc = "helpCas" /\ v = s.seen => next[s.prev][i] = q
            /\ s.pc \in {"help", "helpCas"} => LE(s.seen, v)
            /\ s.pc = "back" => LE(s.prev, v)
        BY <3>1, <3>3 DEF HelperOK
      <4>2. s.pc = "cas" /\ next[s.prev][i] = q => w = s.prev
        BY <2>1, <3>3
      <4>3. s.pc = "helpCas" /\ w = s.seen => w = v
        BY <1>0, <4>1, LowerFacts DEF LE
      <4>4. (s.pc \in {"help", "helpCas"} => LE(s.seen, w)) /\ (s.pc = "back" => LE(s.prev, w))
        BY <1>0, <4>1, LowerLE
      <4>5. prev'[s.next][s.level] = w
        BY <3>3
      <4> QED BY <1>1, <3>1, <3>3, <4>1, <4>2, <4>3, <4>4, <4>5 DEF HelperOK, LE, Lower
    <3>4. CASE s.pc \in {"help", "helpCas", "cas", "back"} /\ (s.next # q \/ s.level # i)
      <4>1. thread[u].pc \in Linking /\ thread[u].pc # "refind"
        BY <3>4 DEF Linking, Unlinked
      <4>2. s.next \in Nodes /\ s.level \in Levels
        BY <4>1, Linker
      <4>3. prev'[s.next][s.level] = prev[s.next][s.level]
        BY <3>4, <4>2
      <4> QED BY <1>1, <3>1, <4>3 DEF HelperOK, LE, Lower
    <3> QED BY <3>2, <3>3, <3>4
  <2> QED BY <2>1 DEF IHelpers
<1>9. IPairs'
  <2> SUFFICES ASSUME NEW a \in Threads, NEW b \in Threads PROVE PairOK(a, b)'
    BY DEF IPairs
  <2>1. PairOK(a, b)
    BY DEF IList, ILocal, IPairs
  <2>2. CASE b = t \/ a = t
    BY <2>2 DEF PairOK
  <2>3. CASE b # t /\ a # t
    <3>1. thread'[a] = thread[a] /\ thread'[b] = thread[b]
      BY <2>3
    <3> QED BY <1>1, <2>1, <3>1 DEF PairOK, Node, LE, Lower
  <2> QED BY <2>2, <2>3
<1> QED BY <1>2, <1>3, <1>4, <1>5, <1>6, <1>7, <1>8, <1>9 DEF IList, IWorld, ILocal

(* Only one node comes right before another. *)
LEMMA OneBefore ==
  ASSUME work \in Works, ISorted, NEW i \in Levels, NEW m \in Nodes, NEW n \in Nodes,
         In(m, i), In(n, i), next[m][i] = next[n][i]
  PROVE  m = n
<1>1. Lower(m, next[m][i]) /\ Lower(n, next[m][i]) /\ ~Lower(m, n) /\ ~Lower(n, m)
  BY DEF ISorted
<1> QED BY <1>1, LowerFacts

LEMMA HelpCasStep ==
  ASSUME IList, NEW t \in Threads, HelpCas(t)
  PROVE  IList'
<1> PICK s : s = thread[t]
  OBVIOUS
<1> PICK i : i = s.level
  OBVIOUS
<1> PICK p : p = s.prev
  OBVIOUS
<1> PICK q : q = s.next
  OBVIOUS
<1> PICK x : x = Node(t)
  OBVIOUS
<1> PICK v : v = prev[q][i]
  OBVIOUS
<1> PICK w : w = IF v = s.seen THEN p ELSE v
  OBVIOUS
<1>1. s.pc = "helpCas" /\ thread[t].pc \in Unlinked /\ thread[t].pc \in Linking
  BY DEF HelpCas, At, Linking, Unlinked
<1>2. /\ work \in Works /\ thread[t] \in ThreadType /\ thread[t].rec \in DOMAIN work[t] /\ i \in Levels
      /\ x \in Nodes \ (Heads \cup Tails) /\ In(p, i) /\ p \in Nodes /\ Lower(p, x)
      /\ Present(q, i) /\ q \in Nodes \ Heads /\ Lower(x, q) /\ Lower(p, q) /\ ~In(x, i) /\ ~Present(x, i)
  BY <1>1, Linker
<1>3. work' = work /\ height' = height /\ next' = next
  BY DEF HelpCas
<1>4. /\ Lower(s.seen, p) /\ (v = s.seen => next[p][i] = q) /\ LE(s.seen, v)
      /\ next[x][i] = q /\ prev[x][i] = p
  BY <1>1 DEF IList, ILocal, IHelpers, HelperOK, IPlaces, PlaceOK
<1>5. In(v, i) /\ Lower(v, q) /\ v \in Nodes
  <2>1. In(v, i) /\ Lower(v, q)
    BY <1>2 DEF IList, IWorld, IPrev
  <2> QED BY <1>2, <2>1, LowerFacts
<1>6. In(w, i) /\ Lower(w, q) /\ LE(v, w) /\ w \in Pointer
  BY <1>2, <1>4, <1>5 DEF LE, Pointer
<1>7. /\ prev' \in [Nodes -> [Levels -> Pointer]] /\ prev'[q][i] = w
      /\ \A m \in Nodes : \A j \in Levels : m # q \/ j # i => prev'[m][j] = prev[m][j]
  <2>1. prev \in [Nodes -> [Levels -> Pointer]]
    BY DEF IList, IType
  <2>2. prev' = [prev EXCEPT ![q][i] = w]
    BY <1>2, <2>1 DEF HelpCas, CasPrev
  <2>3. q \in Nodes /\ w \in Pointer /\ i \in Levels
    BY <1>2, <1>6
  <2> QED BY <2>1, <2>2, <2>3, Update
<1>8. PICK z : z = [s EXCEPT !.pc = "cas"]
  OBVIOUS
<1>9. /\ z \in ThreadType /\ z.pc = "cas" /\ z.prev = p /\ z.next = q
      /\ z.level = i /\ z.rec = s.rec /\ z.ins = s.ins /\ z.top = s.top /\ z.tall = s.tall
  <2>1. "cas" \in PCs
    BY DEF PCs, Adding, Linking, Unlinked
  <2> QED BY <1>2, <1>8, <2>1 DEF ThreadType
<1>10. IType' /\ thread'[t] = z /\ \A u \in Threads \ {t} : thread'[u] = thread[u]
  <2>1. thread' = [thread EXCEPT ![t] = z]
    BY <1>8 DEF HelpCas, Go
  <2> QED BY <1>2, <1>3, <1>7, <1>9, <2>1, TypeStep DEF IList, IType
<1>11. Nodes' = Nodes /\ Above' = Above
  BY <1>3, OrderKept
<1>12. Node(t)' = x /\ z.pc \in Unlinked /\ z.pc \in Linking
  BY <1>9, <1>10 DEF Node, Unlinked, Linking
<1>13. LevelSets' = LevelSets
  <2>1. \A n, j : Marked(t, n, j) <=> n = x /\ j = i
    BY <1>1 DEF Marked
  <2>2. \A n, j : Marked(t, n, j)' <=> n = x /\ j = i
    BY <1>9, <1>10, <1>12 DEF Marked
  <2> QED BY <1>3, <1>10, <2>1, <2>2, LevelsKept
<1>14. NodesOK(t)'
  <2>1. NodesOK(t)
    BY DEF IList, IWorld, INodes
  <2>2. \A r, j : Untouched(z, r, j) => Untouched(s, r, j)
    BY <1>1, <1>9, <1>12 DEF Untouched, Searching, Linking, Unlinked
  <2>3. \A r, j : Touched(z, r, j) => Touched(s, r, j)
    BY <1>1, <1>9, <1>12 DEF Touched, Searching, Linking, Unlinked, Adding, Over
  <2> QED BY <1>3, <1>10, <2>1, <2>2, <2>3 DEF NodesOK
<1>15. SplicesOK(t)'
  <2>1. Grown
    BY <1>13 DEF Grown
  <2> QED BY <1>1, <1>3, <1>9, <1>10, <1>11, <1>12, <2>1, LinkerSplices DEF IList, ILocal, ISplices
<1>16. PlaceOK(t)'
  <2>1. prev'[x][i] = p /\ next'[x][i] = q
    BY <1>2, <1>3, <1>4, <1>7
  <2>2. In(p, i)' /\ Lower(p, x)' /\ Present(q, i)' /\ Lower(x, q)'
    BY <1>2, <1>11, <1>13 DEF In, Lower, Present
  <2> QED BY <1>9, <1>10, <1>12, <2>1, <2>2 DEF PlaceOK, In, Lower, Present
<1>17. ASSUME v # s.seen, next[p][i] = q PROVE v = p
  <2> SUFFICES ASSUME NEW u \in Threads, Owes(u, p, q, i) PROVE FALSE
    BY <1>2, <1>17 DEF IList, IWorld, IAdjacent
  <2>1. thread[u].pc = "back" /\ p = Node(u) /\ thread[u].level = i /\ thread[u].next = q /\ v = thread[u].prev
    BY DEF Owes
  <2>2. PairOK(t, u)
    BY DEF IList, ILocal, IPairs
  <2>3. LE(v, s.seen)
    BY <1>1, <2>1, <2>2 DEF PairOK
  <2> QED BY <1>2, <1>4, <1>17, <2>3, LowerFacts DEF LE
<1>18. next[p][i] = q => w = p
  BY <1>17
<1>19. HelperOK(t)'
  BY <1>3, <1>7, <1>9, <1>10, <1>18 DEF HelperOK
<1>20. ASSUME NEW n \in Nodes, In(n, i), next[n][i] = q
       PROVE  w = n \/ (w = v /\ \E u \in Threads \ {t} : Owes(u, n, q, i))
  <2>1. CASE v = s.seen
    BY <1>2, <1>4, <1>20, <2>1, OneBefore DEF IList, IWorld
  <2>2. CASE v # s.seen
    <3>1. w = v
      BY <2>2
    <3>2. v = n \/ \E u \in Threads : Owes(u, n, q, i)
      BY <1>2, <1>20 DEF IList, IWorld, IAdjacent
    <3>3. ~Owes(t, n, q, i)
      BY <1>1 DEF Owes
    <3> QED BY <3>1, <3>2, <3>3
  <2> QED BY <2>1, <2>2
<1>21. ASSUME NEW u \in Threads \ {t}, thread[u].pc = "cas", thread[u].level = i, thread[u].next = q,
              next[thread[u].prev][i] = q
       PROVE  w = thread[u].prev
  <2>1. v = thread[u].prev
    BY <1>21 DEF IList, ILocal, IHelpers, HelperOK
  <2>2. CASE v = s.seen
    <3>1. thread[u].pc \in Linking
      BY <1>21 DEF Linking, Unlinked
    <3>2. In(v, i)
      BY <1>5
    <3>3. v = p
      BY <1>2, <1>4, <1>5, <1>21, <2>1, <2>2, OneBefore DEF IList, IWorld
    <3> QED BY <2>1, <2>2, <3>3
  <2>3. CASE v # s.seen
    BY <2>1, <2>3
  <2> QED BY <2>2, <2>3
<1>22. /\ thread[t].level = i /\ thread[t].next = q /\ Present(q, i) /\ q \in Nodes /\ i \in Levels
       /\ prev[q][i] = v /\ thread'[t].pc \notin {"help", "helpCas", "back"}
  BY <1>2, <1>9, <1>10
<1>23. \A n \in Nodes : In(n, i) /\ next[n][i] = q => w = n \/ (w = v /\ \E u \in Threads \ {t} : Owes(u, n, q, i))
  BY <1>20
<1>24. \A u \in Threads \ {t} : thread[u].pc = "cas" /\ thread[u].level = i /\ thread[u].next = q
                                 /\ next[thread[u].prev][i] = q => w = thread[u].prev
  BY <1>21
<1>25. /\ prev'[q][i] = w /\ \A m \in Nodes : \A j \in Levels : m # q \/ j # i => prev'[m][j] = prev[m][j]
  BY <1>7
<1>26. IType' /\ \A u \in Threads \ {t} : thread'[u] = thread[u]
  BY <1>10
<1>27. MovesBack(t, i, q, w, v)
  BY <1>3, <1>6, <1>13, <1>22, <1>23, <1>24, <1>25, <1>26 DEF MovesBack
<1> QED BY <1>14, <1>15, <1>16, <1>19, <1>26, <1>27, BackStep

(* The inserter that a writer keeps for its next record. *)
LEMMA KeptSplice ==
  ASSUME IList, NEW t \in Threads, thread[t].pc = "back", thread[t].level = thread[t].tall,
         NEW k, k = List(t), NEW y, y = KeepSplice(t, thread[t])
  PROVE  /\ y.ins \in [Lists -> InserterType] /\ y.rec = thread[t].rec
         /\ Idling(y.ins[k], k) /\ \A l \in Lists : l # k => y.ins[l] = thread[t].ins[l]
<1> PICK s : s = thread[t]
  OBVIOUS
<1> PICK x : x = Node(t)
  OBVIOUS
<1> PICK f : f = s.ins[k].spl
  OBVIOUS
<1>1. thread[t].pc \in Linking /\ thread[t].pc \in Adding
  BY DEF Linking, Adding
<1>2. work \in Works /\ s \in ThreadType /\ x \in Nodes /\ s.level \in Levels /\ In(x, s.level)
      /\ \A j \in Levels : j < s.level => In(x, j)
  BY <1>1, Linker
<1>3. k \in Lists
  BY <1>1, OwnNode DEF IList
<1>4. /\ s.ins \in [Lists -> InserterType] /\ s.ins[k] \in InserterType /\ f \in [Levels -> Place]
      /\ s.top \in Levels /\ s.tall \in Levels /\ s.moved \in BOOLEAN /\ s.ins[k].height \in 0 .. MaxHeight
  <2>1. s.ins \in [Lists -> InserterType] /\ s.top \in Levels /\ s.tall \in Levels /\ s.moved \in BOOLEAN
    BY <1>2 DEF ThreadType
  <2>2. s.ins[k] \in InserterType
    BY <1>3, <2>1
  <2> QED BY <2>1, <2>2 DEF InserterType
<1>5. /\ s.ins[k].height = s.top /\ s.top <= height[k] /\ Unset(f, s.top) /\ s.tall <= height[k]
      /\ Spliced(f, 0, s.top, k) /\ Brackets(f, 0, s.top, x)
  BY <1>1 DEF IList, ILocal, ISplices, SplicesOK, Working
<1>6. PICK g : g = IF s.moved THEN f ELSE [i \in Levels |-> IF i <= s.tall THEN [f[i] EXCEPT !.prev = x] ELSE f[i]]
  OBVIOUS
<1>7. PICK h : h = IF s.moved THEN 0 ELSE s.top
  OBVIOUS
<1>8. g \in [Levels -> Place]
  <2>1. \A i \in Levels : f[i] \in Place /\ [f[i] EXCEPT !.prev = x] \in Place
    BY <1>2, <1>4 DEF Place, Pointer
  <2> QED BY <1>4, <1>6, <2>1
<1>9. PICK I : I = [s.ins[k] EXCEPT !.height = h, !.spl = g]
  OBVIOUS
<1>10. I \in InserterType /\ I.height = h /\ I.spl = g
  <2>1. h \in 0 .. MaxHeight
    BY <1>4, <1>5, <1>7, LevelRange
  <2> QED BY <1>4, <1>8, <1>9, <2>1 DEF InserterType
<1>11. y = [s EXCEPT !.ins = [s.ins EXCEPT ![k] = I]]
  <2>1. y = [s EXCEPT !.ins[k].height = h, !.ins[k].spl = g]
    BY <1>5, <1>6, <1>7 DEF KeepSplice
  <2>2. [s EXCEPT !.ins[k].height = h, !.ins[k].spl = g] = [s EXCEPT !.ins = [s.ins EXCEPT ![k] = I]]
    BY <1>2, <1>3, <1>4, <1>9 DEF ThreadType, InserterType
  <2> QED BY <2>1, <2>2
<1>12. /\ y.ins = [s.ins EXCEPT ![k] = I] /\ y.rec = s.rec
  BY <1>2, <1>11 DEF ThreadType
<1>13. /\ y.ins \in [Lists -> InserterType] /\ y.ins[k] = I /\ \A l \in Lists : l # k => y.ins[l] = s.ins[l]
  BY <1>3, <1>4, <1>10, <1>12
<1>14. \A i \in Levels : i \in Int /\ 0 < i
  BY LevelRange
<1>15. height[k] \in Int /\ s.tall \in Int /\ s.top \in Int
  BY <1>3, <1>4, LevelRange DEF IList, IType
<1>16. Unset(g, height[k]) /\ h <= height[k]
  <2>1. Unset(g, height[k])
    BY <1>5, <1>6, <1>14, <1>15 DEF Unset
  <2>2. h <= height[k]
    BY <1>3, <1>5, <1>7, <1>15, LevelRange DEF IList, IType
  <2> QED BY <2>1, <2>2
<1>17. Spliced(g, 0, h, k)
  <2>1. CASE s.moved
    BY <1>7, <1>14, <2>1 DEF Spliced
  <2>2. CASE ~s.moved
    <3>1. \A i \in Levels : i <= s.tall => In(x, i)
      BY <1>2, <1>14, <1>15
    <3>2. ASSUME NEW i \in Levels
          PROVE g[i].next = f[i].next /\ g[i].prev = IF i <= s.tall THEN x ELSE f[i].prev
      <4>1. f[i] \in Place
        BY <1>4
      <4> QED BY <1>6, <2>2, <4>1 DEF Place
    <3>3. \A i \in Levels : i <= s.top =>
            In(f[i].prev, i) /\ Present(f[i].next, i) /\ Lower(f[i].prev, f[i].next) /\ Lower(HeadNode(k), f[i].next)
      BY <1>5, <1>14 DEF Spliced
    <3>4. \A i, j \in Levels : i < j /\ j <= s.top => LE(f[j].prev, f[i].prev) /\ LE(f[i].next, f[j].next)
      BY <1>5, <1>14 DEF Spliced
    <3>5. \A i \in Levels : i <= s.top => Lower(f[i].prev, x) /\ Lower(x, f[i].next)
      BY <1>5, <1>14 DEF Brackets
    <3>6. \A i \in Levels : i <= s.top =>
            In(g[i].prev, i) /\ Present(g[i].next, i) /\ Lower(g[i].prev, g[i].next) /\ Lower(HeadNode(k), g[i].next)
      BY <3>1, <3>2, <3>3, <3>5
    <3>7. ASSUME NEW i \in Levels, NEW j \in Levels, i < j, j <= s.top
          PROVE  LE(g[j].prev, g[i].prev) /\ LE(g[i].next, g[j].next)
      <4>1. CASE j <= s.tall
        <5>1. i <= s.tall
          BY <1>14, <1>15, <3>7, <4>1
        <5> QED BY <3>2, <3>4, <3>7, <4>1, <5>1 DEF LE
      <4>2. CASE ~(j <= s.tall)
        BY <3>2, <3>4, <3>5, <3>7, <4>2 DEF LE
      <4> QED BY <4>1, <4>2
    <3> QED BY <1>7, <2>2, <3>6, <3>7 DEF Spliced
  <2> QED BY <2>1, <2>2
<1>18. Idling(I, k)
  BY <1>10, <1>16, <1>17 DEF Idling
<1> QED BY <1>12, <1>13, <1>18

LEMMA FreshThread ==
  /\ NewThread.ins \in [Lists -> InserterType] /\ NewInserter \in InserterType
  /\ \A l \in Lists : height[l] \in Levels => Idling(NewInserter, l)
<1>1. NewInserter = [height |-> 0, spl |-> [i \in Levels |-> [prev |-> Nil, next |-> Nil]]]
  BY DEF NewInserter
<1>2. NewInserter \in InserterType
  <2>1. [prev |-> Nil, next |-> Nil] \in Place
    BY DEF Place, Pointer
  <2>2. [i \in Levels |-> [prev |-> Nil, next |-> Nil]] \in [Levels -> Place]
    BY <2>1
  <2>3. 0 \in 0 .. MaxHeight
    BY LevelRange
  <2> QED BY <1>1, <2>2, <2>3 DEF InserterType
<1>3. NewThread.ins \in [Lists -> InserterType]
  BY <1>2 DEF NewThread
<1>4. ASSUME NEW l \in Lists, height[l] \in Levels PROVE Idling(NewInserter, l)
  <2>1. NewInserter.height = 0 /\ \A i \in Levels : NewInserter.spl[i].prev = Nil
    BY <1>1
  <2>2. \A i \in Levels : i \in Int /\ 0 < i
    BY LevelRange
  <2> QED BY <1>4, <2>1, <2>2 DEF Idling, Spliced, Unset
<1> QED BY <1>2, <1>3, <1>4

LEMMA LinkBackStep ==
  ASSUME IList, NEW t \in Threads, LinkBack(t)
  PROVE  IList'
<1> PICK s : s = thread[t]
  OBVIOUS
<1> PICK i : i = s.level
  OBVIOUS
<1> PICK p : p = s.prev
  OBVIOUS
<1> PICK q : q = s.next
  OBVIOUS
<1> PICK x : x = Node(t)
  OBVIOUS
<1> PICK k : k = List(t)
  OBVIOUS
<1> PICK v : v = prev[q][i]
  OBVIOUS
<1>a. PICK w : w = IF v = p THEN x ELSE v
  OBVIOUS
<1>1. s.pc = "back" /\ thread[t].pc \in Linking /\ thread[t].pc \in Adding
  BY DEF LinkBack, At, Linking, Adding
<1>2. /\ work \in Works /\ thread[t] \in ThreadType /\ thread[t].rec \in DOMAIN work[t] /\ i \in Levels
      /\ x \in Nodes \ (Heads \cup Tails) /\ In(p, i) /\ p \in Nodes /\ Lower(p, x)
      /\ Present(q, i) /\ q \in Nodes \ Heads /\ Lower(x, q) /\ Lower(p, q) /\ In(x, i)
  BY <1>1, Linker
<1>3. work' = work /\ height' = height /\ next' = next
  BY DEF LinkBack
<1>4. k \in Lists /\ LE(p, v) /\ IType
  BY <1>1, OwnNode DEF IList, ILocal, IHelpers, HelperOK
<1>5. In(v, i) /\ Lower(v, q) /\ v \in Nodes
  <2>1. In(v, i) /\ Lower(v, q)
    BY <1>2 DEF IList, IWorld, IPrev
  <2> QED BY <1>2, <2>1, LowerFacts
<1>6. In(w, i) /\ Lower(w, q) /\ LE(v, w) /\ w \in Pointer
  BY <1>2, <1>5, <1>a DEF LE, Pointer
<1>7. /\ prev' \in [Nodes -> [Levels -> Pointer]] /\ prev'[q][i] = w
      /\ \A m \in Nodes : \A j \in Levels : m # q \/ j # i => prev'[m][j] = prev[m][j]
  <2>1. prev \in [Nodes -> [Levels -> Pointer]]
    BY DEF IList, IType
  <2>2. prev' = [prev EXCEPT ![q][i] = w]
    BY <1>2, <1>a, <2>1 DEF LinkBack, CasPrev
  <2>3. q \in Nodes /\ w \in Pointer /\ i \in Levels
    BY <1>2, <1>6
  <2> QED BY <2>1, <2>2, <2>3, Update
<1>8. Nodes' = Nodes /\ Above' = Above
  BY <1>3, OrderKept
<1>9. Higher
  BY <1>3, LevelRange DEF Higher, IList, IType
<1>10. SplicesOK(t) /\ NodesOK(t)
  BY DEF IList, ILocal, IWorld, ISplices, INodes
<1>11. next[p][i] # q
  <2>1. ISorted
    BY DEF IList, IWorld
  <2> QED BY <1>2, <2>1, Adjacent
<1>12. ASSUME NEW n \in Nodes, In(n, i), next[n][i] = q
       PROVE  w = n \/ (w = v /\ \E u \in Threads \ {t} : Owes(u, n, q, i))
  <2>1. v = n \/ \E u \in Threads : Owes(u, n, q, i)
    BY <1>2, <1>12 DEF IList, IWorld, IAdjacent
  <2>2. CASE v = p
    <3>1. v # n
      BY <1>11, <1>12, <2>2
    <3>2. PICK u \in Threads : Owes(u, n, q, i)
      BY <2>1, <3>1
    <3>3. PairOK(t, u)
      BY DEF IList, ILocal, IPairs
    <3>4. u = t
      BY <1>1, <2>2, <3>2, <3>3 DEF Owes, PairOK
    <3>5. n = x
      BY <3>2, <3>4 DEF Owes
    <3> QED BY <1>a, <2>2, <3>5
  <2>3. CASE v # p
    <3>1. ~Owes(t, n, q, i)
      BY <2>3 DEF Owes
    <3> QED BY <1>a, <2>1, <2>3, <3>1
  <2> QED BY <2>2, <2>3
<1>13. ASSUME NEW u \in Threads \ {t}, thread[u].pc = "cas", thread[u].level = i, thread[u].next = q,
              next[thread[u].prev][i] = q
       PROVE  w = thread[u].prev
  <2>1. v = thread[u].prev
    BY <1>13 DEF IList, ILocal, IHelpers, HelperOK
  <2>2. v # p
    BY <1>11, <1>13, <2>1
  <2> QED BY <1>a, <2>1, <2>2
<1>14. ASSUME NEW z, thread'[t] = z, \A u \in Threads \ {t} : thread'[u] = thread[u], LevelSets' = LevelSets,
              z.pc \in {"link", "applied", "splice"}
       PROVE  MovesBack(t, i, q, w, v)
  <2>1. /\ thread[t].level = i /\ thread[t].next = q /\ Present(q, i) /\ q \in Nodes /\ i \in Levels
        /\ prev[q][i] = v /\ thread'[t].pc \notin {"help", "helpCas", "back"}
    BY <1>2, <1>14
  <2>2. \A n \in Nodes : In(n, i) /\ next[n][i] = q => w = n \/ (w = v /\ \E u \in Threads \ {t} : Owes(u, n, q, i))
    BY <1>12
  <2>3. \A u \in Threads \ {t} : thread[u].pc = "cas" /\ thread[u].level = i /\ thread[u].next = q
                                 /\ next[thread[u].prev][i] = q => w = thread[u].prev
    BY <1>13
  <2>4. /\ prev'[q][i] = w /\ \A m \in Nodes : \A j \in Levels : m # q \/ j # i => prev'[m][j] = prev[m][j]
    BY <1>7
  <2> QED BY <1>3, <1>6, <1>14, <2>1, <2>2, <2>3, <2>4 DEF MovesBack
<1>15. CASE s.level < s.tall
  <2> PICK f : f = s.ins[k].spl
    OBVIOUS
  <2>0. i + 1 \in Levels /\ i + 1 <= s.tall /\ i \in Int
    <3>1. s.tall \in Levels
      BY <1>2 DEF ThreadType
    <3> QED BY <1>2, <1>15, <3>1, LevelRange
  <2>1. PICK j \in Levels : j = i + 1
    BY <2>0
  <2>2. PICK a : a = IF f[j].prev = Nil THEN HeadOf(t) ELSE f[j].prev
    OBVIOUS
  <2>3. PICK b : b = IF f[j].prev = Nil THEN TailOf(t) ELSE f[j].next
    OBVIOUS
  <2>4. PICK z : z = [s EXCEPT !.pc = "link", !.level = j, !.prev = a, !.next = b]
    OBVIOUS
  <2>5. Spliced(f, 0, s.top, k) /\ Brackets(f, 0, s.top, x) /\ Unset(f, s.top) /\ s.tall <= height[k]
    BY <1>1, <1>10 DEF SplicesOK, Working
  <2>6. In(a, j) /\ Lower(a, x) /\ Present(b, j) /\ Lower(x, b) /\ a \in Pointer /\ b \in Pointer
    <3>1. s.top \in Levels /\ thread[t].pc \in Adding
      BY <1>1, <1>2 DEF ThreadType
    <3> PICK top \in Levels : top = s.top
      BY <3>1
    <3>2. Spliced(f, 0, top, List(t)) /\ Brackets(f, 0, top, Node(t)) /\ Unset(f, top)
      BY <2>5
    <3>3. In(a, j) /\ Lower(a, Node(t)) /\ Present(b, j) /\ Lower(Node(t), b) /\ a \in Pointer /\ b \in Pointer
      BY <2>2, <2>3, <3>1, <3>2, LinkPlace, SMTT(30)
    <3> QED BY <3>3
  <2>7. /\ z \in ThreadType /\ z.pc = "link" /\ z.level = j /\ z.prev = a /\ z.next = b
        /\ z.rec = s.rec /\ z.ins = s.ins /\ z.top = s.top /\ z.tall = s.tall
    <3>1. "link" \in PCs
      BY DEF PCs, Adding, Linking, Unlinked
    <3> QED BY <1>2, <2>4, <2>6, <3>1 DEF ThreadType
  <2>8. thread' = [thread EXCEPT ![t] = z]
    <3>1. z = LinkLevel(t, s, i + 1)
      BY <2>1, <2>2, <2>3, <2>4 DEF LinkLevel
    <3> QED BY <1>15, <3>1 DEF LinkBack, Go
  <2>9. IType' /\ thread'[t] = z /\ \A u \in Threads \ {t} : thread'[u] = thread[u]
    BY <1>2, <1>3, <1>7, <2>7, <2>8, TypeStep DEF IList, IType
  <2>10. LevelSets' = LevelSets
    <3>1. \A n, m : ~Marked(t, n, m)
      BY <1>1 DEF Marked, Unlinked
    <3>2. \A n, m : Marked(t, n, m)' => n = x /\ m = j
      BY <2>7, <2>9 DEF Marked, Node
    <3>3. next[x][j] = Nil
      <4>1. Untouched(s, s.rec, j)
        BY <1>1, <2>0, <2>1 DEF Untouched
      <4> QED BY <1>2, <1>10, <4>1 DEF NodesOK, Node
    <3> QED BY <1>3, <2>9, <3>1, <3>2, <3>3, LevelsKept
  <2>11. Grown
    BY <2>10 DEF Grown
  <2>12. PlaceOK(t)' /\ SplicesOK(t)' /\ HelperOK(t)'
    <3>1. thread[t].pc \in Searching \cup Linking /\ thread'[t].level <= thread'[t].tall /\ thread'[t].tall <= height'[List(t)]
      BY <1>1, <1>3, <2>0, <2>1, <2>5, <2>7, <2>9
    <3>2. /\ thread'[t].pc = "link" /\ thread'[t].rec = thread[t].rec /\ thread'[t].ins = thread[t].ins
          /\ thread'[t].top = thread[t].top /\ a = thread'[t].prev /\ b = thread'[t].next /\ j = thread'[t].level
      BY <2>7, <2>9
    <3> QED BY <1>3, <1>4, <1>8, <1>9, <1>10, <2>5, <2>6, <2>9, <2>11, <3>1, <3>2, LinkStart
  <2>13. NodesOK(t)'
    <3>1. \A r : \A m \in Levels : Untouched(z, r, m) => Untouched(s, r, m)
      BY <1>1, <2>0, <2>1, <2>7, LevelRange DEF Untouched, Searching, Linking, Unlinked
    <3>2. \A r : \A m \in Levels : Touched(z, r, m) => Touched(s, r, m)
      BY <1>1, <2>0, <2>1, <2>7, LevelRange DEF Touched, Searching, Linking, Unlinked, Adding, Over
    <3> QED BY <1>3, <1>10, <2>9, <3>1, <3>2 DEF NodesOK
  <2>14. MovesBack(t, i, q, w, v)
    BY <1>14, <2>7, <2>9, <2>10
  <2> QED BY <2>9, <2>12, <2>13, <2>14, BackStep
<1>16. CASE ~(s.level < s.tall)
  <2>0. s.level = s.tall /\ s.rec \in Int /\ s.rec \in Nat \ {0}
    <3>1. s.level <= s.tall
      BY <1>1, <1>10 DEF SplicesOK, Working
    <3>2. s.level \in Levels /\ s.tall \in Levels /\ s.rec \in Nat \ {0}
      BY <1>2 DEF ThreadType
    <3> QED BY <1>16, <3>1, <3>2, LevelRange
  <2>1. PICK y : y = KeepSplice(t, s)
    OBVIOUS
  <2>2. /\ y.ins \in [Lists -> InserterType] /\ y.rec = s.rec /\ Idling(y.ins[k], k)
        /\ \A l \in Lists : l # k => y.ins[l] = s.ins[l]
    BY <1>1, <2>0, <2>1, KeptSplice
  <2>3. \A l \in Lists : Idling(y.ins[l], l) /\ Idling(NewInserter, l)
    <3>1. \A l \in Lists : l # k => Idling(s.ins[l], l)
      BY <1>10 DEF SplicesOK
    <3>2. \A l \in Lists : height[l] \in Levels
      BY DEF IList, IType
    <3> QED BY <2>2, <3>1, <3>2, FreshThread
  <2>4. PICK z : z = NextRecord(t, y)
    OBVIOUS
  <2>5. 1 \in Levels /\ Nil \in Pointer /\ {"splice", "applied"} \subseteq PCs
    BY LevelRange DEF Pointer, PCs, Adding, Over
  <2>6. /\ NewThread.pc = "idle" /\ NewThread.rec = 1 /\ NewThread.level = 1 /\ NewThread.top = 1
        /\ NewThread.prev = Nil /\ NewThread.next = Nil /\ NewThread.seen = Nil /\ NewThread.tall = 1
        /\ NewThread.moved = FALSE /\ NewThread.ins = [l \in Lists |-> NewInserter]
    BY DEF NewThread
  <2>7. \/ z = [NewThread EXCEPT !.pc = "applied", !.rec = s.rec]
        \/ /\ s.rec # Len(work[t])
           /\ z = [NewThread EXCEPT !.pc = "splice", !.rec = s.rec + 1,
                                    !.ins = [l \in Lists |-> IF l = 1 THEN y.ins[l] ELSE NewInserter]]
    BY <2>2, <2>4 DEF NextRecord
  <2>8. /\ z \in ThreadType /\ z.rec \in DOMAIN work[t] /\ \A l \in Lists : Idling(z.ins[l], l)
        /\ (z.pc = "applied" /\ z.rec = s.rec) \/ (z.pc = "splice" /\ z.rec = s.rec + 1)
    <3>1. CASE z = [NewThread EXCEPT !.pc = "applied", !.rec = s.rec]
      <4>1. z.ins = [l \in Lists |-> NewInserter] /\ z.pc = "applied" /\ z.rec = s.rec
        BY <3>1 DEF NewThread
      <4>2. z \in ThreadType
        BY <2>0, <2>5, <3>1, FreshThread DEF NewThread, ThreadType
      <4> QED BY <1>2, <2>3, <4>1, <4>2
    <3>2. CASE /\ s.rec # Len(work[t])
               /\ z = [NewThread EXCEPT !.pc = "splice", !.rec = s.rec + 1,
                                        !.ins = [l \in Lists |-> IF l = 1 THEN y.ins[l] ELSE NewInserter]]
      <4>1. z.ins = [l \in Lists |-> IF l = 1 THEN y.ins[l] ELSE NewInserter] /\ z.pc = "splice" /\ z.rec = s.rec + 1
        BY <3>2 DEF NewThread
      <4>2. [l \in Lists |-> IF l = 1 THEN y.ins[l] ELSE NewInserter] \in [Lists -> InserterType]
        BY <2>2, FreshThread
      <4>3. z \in ThreadType
        <5>1. PICK J \in [Lists -> InserterType] : J = [l \in Lists |-> IF l = 1 THEN y.ins[l] ELSE NewInserter]
          BY <4>2
        <5>2. z = [NewThread EXCEPT !.pc = "splice", !.rec = s.rec + 1, !.ins = J] /\ s.rec + 1 \in Nat \ {0}
          BY <2>0, <3>2, <5>1
        <5> QED BY <2>5, <5>2 DEF NewThread, ThreadType
      <4>4. s.rec + 1 \in DOMAIN work[t]
        <5>1. DOMAIN work[t] = 1 .. Len(work[t]) /\ Len(work[t]) \in Int
          BY <1>2, NodeFacts
        <5> QED BY <1>2, <2>0, <3>2, <5>1
      <4> QED BY <2>3, <4>1, <4>3, <4>4
    <3> QED BY <2>7, <3>1, <3>2
  <2>9. thread' = [thread EXCEPT ![t] = z]
    BY <1>16, <2>1, <2>4 DEF LinkBack, Go
  <2>10. IType' /\ thread'[t] = z /\ \A u \in Threads \ {t} : thread'[u] = thread[u]
    BY <1>2, <1>3, <1>7, <2>8, <2>9, TypeStep DEF IList, IType
  <2>11. LevelSets' = LevelSets
    <3>1. \A n, m : ~Marked(t, n, m)
      BY <1>1 DEF Marked, Unlinked
    <3>2. \A n, m : ~Marked(t, n, m)'
      BY <2>8, <2>10 DEF Marked, Unlinked
    <3> QED BY <1>3, <2>10, <3>1, <3>2, LevelsKept
  <2>12. z.pc \in {"applied", "splice"} /\ z.pc \notin Searching \cup Linking
    BY <2>8 DEF Searching, Linking, Unlinked
  <2>13. PlaceOK(t)' /\ HelperOK(t)'
    BY <2>10, <2>12 DEF PlaceOK, HelperOK, Linking, Unlinked
  <2>14. SplicesOK(t)'
    <3>1. \A f, lo, hi, l : Spliced(f, lo, hi, l) => Spliced(f, lo, hi, l)'
      BY <1>8, <2>11, SplicedKept DEF Grown
    <3>2. \A l \in Lists : Idling(z.ins[l], l)'
      BY <1>3, <2>8, <3>1 DEF Idling, Unset
    <3> QED BY <2>10, <2>12, <3>2 DEF SplicesOK
  <2>15. NodesOK(t)'
    <3>0. i \in Int /\ 1 <= i /\ \A m \in Levels : m \in Int
      BY <1>2, LevelRange
    <3>1. \A r \in Int : \A m \in Levels : Untouched(z, r, m) => Untouched(s, r, m)
      BY <2>0, <2>8, <2>12 DEF Untouched, Searching, Linking, Unlinked
    <3>2. \A r \in Int : \A m \in Levels : Touched(z, r, m) => Touched(s, r, m)
      BY <1>1, <2>0, <2>8, <2>12, <3>0 DEF Touched, Searching, Linking, Unlinked, Adding, Over
    <3>3. \A r \in DOMAIN work[t] : r \in Int
      BY <1>2, NodeFacts
    <3> QED BY <1>3, <1>10, <2>10, <3>1, <3>2, <3>3 DEF NodesOK
  <2>16. MovesBack(t, i, q, w, v)
    BY <1>14, <2>10, <2>11, <2>12
  <2> QED BY <2>10, <2>13, <2>14, <2>15, <2>16, BackStep
<1> QED BY <1>15, <1>16

LEMMA CasNextStep ==
  ASSUME IList, NEW t \in Threads, CasNext(t)
  PROVE  IList'
<1> PICK s : s = thread[t]
  OBVIOUS
<1> PICK i : i = s.level
  OBVIOUS
<1> PICK p : p = s.prev
  OBVIOUS
<1> PICK q : q = s.next
  OBVIOUS
<1> PICK x : x = Node(t)
  OBVIOUS
<1>1. s.pc = "cas" /\ thread[t].pc \in Unlinked /\ thread[t].pc \in Linking
  BY DEF CasNext, At, Linking, Unlinked
<1>2. /\ work \in Works /\ thread[t] \in ThreadType /\ thread[t].rec \in DOMAIN work[t] /\ i \in Levels
      /\ x \in Nodes \ (Heads \cup Tails) /\ In(p, i) /\ p \in Nodes /\ Lower(p, x)
      /\ Present(q, i) /\ q \in Nodes \ Heads /\ Lower(x, q) /\ Lower(p, q) /\ ~In(x, i) /\ ~Present(x, i)
      /\ \A j \in Levels : j < i => In(x, j)
  BY <1>1, Linker
<1>3. work' = work /\ height' = height /\ prev' = prev
  BY DEF CasNext
<1>4. next \in [Nodes -> [Levels -> Pointer]]
  BY DEF IList, IType
<1>5. next[x][i] = q /\ prev[x][i] = p /\ (next[p][i] = q => prev[q][i] = p)
  BY <1>1 DEF IList, ILocal, IPlaces, PlaceOK, IHelpers, HelperOK
<1>6. CASE next[p][i] # q
  <2>1. next' = next
    <3>1. next' = [next EXCEPT ![p][i] = next[p][i]]
      BY <1>4, <1>6 DEF CasNext
    <3> QED BY <1>2, <1>4, <3>1
  <2>2. PICK z : z = [s EXCEPT !.pc = "refind"]
    OBVIOUS
  <2>3. /\ z \in ThreadType /\ z.pc = "refind" /\ z.rec = s.rec /\ z.ins = s.ins /\ z.top = s.top /\ z.tall = s.tall
        /\ z.level = i /\ z.prev = p
    <3>1. "refind" \in PCs
      BY DEF PCs, Adding, Linking, Unlinked
    <3> QED BY <1>2, <2>2, <3>1 DEF ThreadType
  <2>4. thread' = [thread EXCEPT ![t] = z]
    BY <1>6, <2>2 DEF CasNext, Go
  <2> QED BY <1>1, <1>2, <1>3, <2>1, <2>3, <2>4, LinkQuiet
<1>7. CASE next[p][i] = q
  <2>1. PICK z : z = [s EXCEPT !.pc = "back"]
    OBVIOUS
  <2>2. /\ z \in ThreadType /\ z.pc = "back" /\ z.rec = s.rec /\ z.ins = s.ins /\ z.top = s.top /\ z.tall = s.tall
        /\ z.level = i /\ z.prev = p /\ z.next = q
    <3>1. "back" \in PCs
      BY DEF PCs, Adding, Linking, Unlinked
    <3> QED BY <1>2, <2>1, <3>1 DEF ThreadType
  <2>3. thread' = [thread EXCEPT ![t] = z]
    BY <1>7, <2>1 DEF CasNext, Go
  <2>4. /\ next' \in [Nodes -> [Levels -> Pointer]] /\ next'[p][i] = x
        /\ \A m \in Nodes : \A j \in Levels : m # p \/ j # i => next'[m][j] = next[m][j]
    <3>1. next' = [next EXCEPT ![p][i] = x]
      BY <1>7 DEF CasNext
    <3>2. x \in Pointer
      BY <1>2 DEF Pointer
    <3> QED BY <1>2, <1>4, <3>1, <3>2, Update
  <2>5. IType' /\ thread'[t] = z /\ \A u \in Threads \ {t} : thread'[u] = thread[u]
    <3>1. prev' \in [Nodes -> [Levels -> Pointer]] /\ height' \in [Lists -> Levels]
      BY <1>3 DEF IList, IType
    <3> QED BY <1>2, <1>3, <2>2, <2>3, <2>4, <3>1, TypeStep DEF IList
  <2>6. Nodes' = Nodes /\ Above' = Above
    BY <1>3, OrderKept
  <2>7. Node(t)' = x /\ z.pc \in Linking /\ prev[q][i] = p /\ x # p /\ x # q /\ p # q /\ Nil \notin Nodes
    <3>1. x # p /\ x # q /\ p # q
      BY <1>2, LowerFacts
    <3> QED BY <1>2, <1>5, <1>7, <2>2, <2>5, <3>1, NodeFacts DEF Node, Linking
  <2>8. \A j \in Levels : \A n : In(n, j)' <=> In(n, j) \/ (n = x /\ j = i)
    <3>1. \A j \in Levels : \A n : In(n, j) <=> n \in Nodes /\ next[n][j] # Nil /\ \A u \in Threads : ~Marked(u, n, j)
      BY DEF In, LevelSets, InLevel, Marked
    <3>2. \A j \in Levels : \A n : In(n, j)' <=> n \in Nodes' /\ next'[n][j] # Nil /\ \A u \in Threads : ~Marked(u, n, j)'
      BY DEF In, LevelSets, InLevel, Marked
    <3>3. \A n, j : \A u \in Threads \ {t} : Marked(u, n, j)' <=> Marked(u, n, j)
      BY <1>3, <2>5 DEF Marked, Node
    <3>4. \A n, j : ~Marked(t, n, j)'
      BY <2>2, <2>5 DEF Marked, Unlinked
    <3>5. \A n, j : Marked(t, n, j) <=> n = x /\ j = i
      BY <1>1 DEF Marked
    <3>6. \A j \in Levels : \A n \in Nodes : next'[n][j] # Nil <=> next[n][j] # Nil
      <4>1. next[p][i] # Nil
        BY <1>2, <1>7, <2>7
      <4> QED BY <1>2, <2>4, <2>7, <4>1
    <3>7. \A u \in Threads \ {t} : Node(u) # x
      BY DEF Node, NodeOf
    <3>8. \A j : \A u \in Threads \ {t} : ~Marked(u, x, j)
      BY <3>7 DEF Marked
    <3>9. next[x][i] # Nil /\ x \in Nodes
      BY <1>2, <1>5, <2>7
    <3> SUFFICES ASSUME NEW j \in Levels, NEW n PROVE In(n, j)' <=> In(n, j) \/ (n = x /\ j = i)
      OBVIOUS
    <3>10. CASE n = x /\ j = i
      <4>1. next'[n][j] # Nil /\ n \in Nodes'
        BY <2>6, <3>6, <3>9, <3>10
      <4>2. \A u \in Threads : ~Marked(u, n, j)'
        BY <3>3, <3>4, <3>8, <3>10
      <4> QED BY <3>2, <3>10, <4>1, <4>2
    <3>11. CASE ~(n = x /\ j = i)
      <4>1. \A u \in Threads : Marked(u, n, j)' <=> Marked(u, n, j)
        BY <3>3, <3>4, <3>5, <3>11
      <4> QED BY <2>6, <3>1, <3>2, <3>6, <3>11, <4>1
    <3> QED BY <3>10, <3>11
  <2>9. Grown /\ Higher
    <3>1. Grown
      BY <2>8 DEF Grown, In
    <3> QED BY <1>3, <3>1, LevelRange DEF Higher, IList, IType
  <2>10. INodes'
    <3>1. IEnds'
      <4>1. \A l \in Lists : HeadNode(l) \in Nodes /\ TailNode(l) \in Nodes \ {p}
        <5>1. p \notin Tails
          BY <1>2, LowerFacts
        <5> QED BY <1>2, <5>1, NodeFacts DEF Heads, Tails
      <4>2. \A l \in Lists : \A j \in Levels : next[HeadNode(l)][j] # Nil /\ next[TailNode(l)][j] = Nil
        BY DEF IList, IWorld, INodes, IEnds
      <4>3. x # Nil
        BY <1>2, <2>7
      <4> QED BY <2>4, <4>1, <4>2, <4>3 DEF IEnds
    <3>2. ASSUME NEW u \in Threads PROVE NodesOK(u)'
      <4> SUFFICES ASSUME NEW r \in DOMAIN work[u], NEW j \in Levels
                   PROVE  /\ Untouched(thread'[u], r, j) => next'[NodeOf(u, r)][j] = Nil
                          /\ Touched(thread'[u], r, j) => next'[NodeOf(u, r)][j] # Nil
        BY <1>3 DEF NodesOK, Untouched, Touched
      <4>1. NodesOK(u) /\ NodeOf(u, r) \in Nodes
        BY <1>2, NodeFacts DEF IList, IWorld, INodes
      <4>2. Untouched(thread'[u], r, j) => Untouched(thread[u], r, j)
        BY <1>1, <2>2, <2>5 DEF Untouched, Linking, Unlinked, Searching
      <4>3. Touched(thread'[u], r, j) => Touched(thread[u], r, j)
        BY <1>1, <2>2, <2>5 DEF Touched, Linking, Unlinked, Adding, Over
      <4>4. next'[NodeOf(u, r)][j] = Nil <=> next[NodeOf(u, r)][j] = Nil
        BY <1>2, <1>7, <2>4, <2>7, <4>1
      <4> QED BY <4>1, <4>2, <4>3, <4>4 DEF NodesOK
    <3> QED BY <3>1, <3>2 DEF INodes
  <2>11. ITower'
    <3> SUFFICES ASSUME NEW a \in Levels, NEW b \in Levels, b < a, NEW n \in Nodes, In(n, a)' PROVE In(n, b)'
      BY <2>6 DEF ITower
    <3>1. CASE n = x /\ a = i
      BY <1>2, <2>8, <3>1
    <3>2. CASE In(n, a)
      <4>1. In(n, b)
        BY <3>2 DEF IList, IWorld, ITower
      <4> QED BY <2>8, <4>1
    <3> QED BY <2>8, <3>1, <3>2
  <2>12. \A m, n : Lower(m, n)' <=> Lower(m, n)
    BY <2>6 DEF Lower
  <2>13. \A j \in Levels : \A n : Present(n, j)' <=> Present(n, j) \/ (n = x /\ j = i)
    BY <2>8 DEF Present
  <2>14. ISorted /\ \A m \in Nodes : In(m, i) => ~(Lower(p, m) /\ Lower(m, q))
    <3>1. ISorted
      BY DEF IList, IWorld
    <3> QED BY <1>2, <1>7, <3>1, Adjacent
  <2>15. ISorted'
    <3> SUFFICES ASSUME NEW j \in Levels, NEW n \in Nodes, In(n, j)', NEW c, c = next'[n][j]
                 PROVE  Lower(n, c) /\ Present(c, j)' /\ \A m \in Nodes : In(m, j)' => ~(Lower(n, m) /\ Lower(m, c))
      BY <2>6, <2>12 DEF ISorted, In, Present, Lower
    <3>1. CASE n = p /\ j = i
      <4>1. c = x
        BY <2>4, <3>1
      <4>2. ASSUME NEW m \in Nodes, In(m, j)', Lower(n, m), Lower(m, c) PROVE FALSE
        <5>1. m # x
          BY <1>2, <4>1, <4>2, LowerFacts
        <5>2. In(m, i)
          BY <2>8, <3>1, <4>2, <5>1
        <5>3. Lower(m, q)
          BY <1>2, <4>1, <4>2, LowerFacts
        <5> QED BY <2>14, <3>1, <4>2, <5>2, <5>3
      <4> QED BY <1>2, <2>13, <3>1, <4>1, <4>2
    <3>2. CASE n = x /\ j = i
      <4>1. c = q
        BY <1>2, <1>5, <2>4, <2>7, <3>2
      <4>2. ASSUME NEW m \in Nodes, In(m, j)', Lower(n, m), Lower(m, c) PROVE FALSE
        <5>1. m # x
          BY <1>2, <3>2, <4>2, LowerFacts
        <5>2. In(m, i)
          BY <2>8, <3>2, <4>2, <5>1
        <5>3. Lower(p, m)
          BY <1>2, <3>2, <4>2, LowerFacts
        <5> QED BY <2>14, <4>1, <4>2, <5>2, <5>3
      <4> QED BY <1>2, <2>13, <3>2, <4>1, <4>2
    <3>3. CASE ~(n = p /\ j = i) /\ ~(n = x /\ j = i)
      <4>1. In(n, j) /\ c = next[n][j]
        BY <2>4, <2>8, <3>3
      <4>2. Lower(n, c) /\ Present(c, j) /\ \A m \in Nodes : In(m, j) => ~(Lower(n, m) /\ Lower(m, c))
        BY <2>14, <4>1, Adjacent
      <4>3. ASSUME j = i, Lower(n, x), Lower(x, c) PROVE FALSE
        <5>1. Lower(n, p) \/ Lower(p, n)
          BY <1>2, <3>3, <4>3, LowerFacts
        <5>2. CASE Lower(n, p)
          <6>1. Lower(p, c)
            BY <1>2, <4>3, LowerFacts
          <6> QED BY <1>2, <4>2, <4>3, <5>2, <6>1
        <5>3. CASE Lower(p, n)
          <6>1. Lower(n, q)
            BY <1>2, <4>3, LowerFacts
          <6> QED BY <2>14, <4>1, <4>3, <5>3, <6>1
        <5> QED BY <5>1, <5>2, <5>3
      <4> QED BY <2>8, <2>13, <4>2, <4>3
    <3> QED BY <3>1, <3>2, <3>3
  <2>16. IPrev'
    <3> SUFFICES ASSUME NEW j \in Levels, NEW n \in Nodes, Present(n, j)', n \notin Heads, NEW c, c = prev[n][j]
                 PROVE  In(c, j)' /\ Lower(c, n)
      BY <1>3, <2>6, <2>12 DEF IPrev, Present, In, Lower
    <3>1. CASE n = x /\ j = i
      BY <1>2, <1>5, <2>8, <3>1
    <3>2. CASE Present(n, j)
      <4>1. In(c, j) /\ Lower(c, n)
        BY <3>2 DEF IList, IWorld, IPrev
      <4> QED BY <2>8, <4>1
    <3> QED BY <2>13, <3>1, <3>2
  <2>17. IAdjacent'
    <3> SUFFICES ASSUME NEW j \in Levels, NEW n \in Nodes, In(n, j)', NEW c, c = next'[n][j]
                 PROVE  prev[c][j] = n \/ \E u \in Threads : Owes(u, n, c, j)'
      BY <1>3, <2>6 DEF IAdjacent, In, Owes
    <3>1. CASE n = p /\ j = i
      BY <1>5, <2>4, <3>1
    <3>2. CASE n = x /\ j = i
      <4>1. c = q
        BY <1>2, <1>5, <2>4, <2>7, <3>2
      <4>2. Owes(t, n, c, j)'
        BY <1>3, <2>2, <2>5, <2>7, <3>2, <4>1 DEF Owes
      <4> QED BY <4>2
    <3>3. CASE ~(n = p /\ j = i) /\ ~(n = x /\ j = i)
      <4>1. In(n, j) /\ c = next[n][j]
        BY <2>4, <2>8, <3>3
      <4>2. CASE prev[c][j] = n
        BY <4>2
      <4>3. CASE \E u \in Threads : Owes(u, n, c, j)
        <5>1. PICK u \in Threads : Owes(u, n, c, j)
          BY <4>3
        <5>2. u # t
          BY <1>1, <5>1 DEF Owes
        <5>3. Owes(u, n, c, j)'
          BY <1>3, <2>5, <5>1, <5>2 DEF Owes, Node
        <5> QED BY <5>3
      <4> QED BY <4>1, <4>2, <4>3 DEF IList, IWorld, IAdjacent
    <3> QED BY <3>1, <3>2, <3>3
  <2>18. IPlaces'
    <3>1. ASSUME NEW u \in Threads, u # t PROVE PlaceOK(u)'
      <4>1. PlaceOK(u) /\ thread'[u] = thread[u]
        BY <2>5, <3>1 DEF IList, ILocal, IPlaces
      <4>2. ASSUME thread[u].pc \in {"help", "helpCas", "cas"}
            PROVE  next'[Node(u)][thread[u].level] = next[Node(u)][thread[u].level]
        <5>1. thread[u].pc \in Linking /\ thread[u].pc \in Unlinked
          BY <4>2 DEF Linking, Unlinked
        <5>2. Node(u) \in Nodes /\ thread[u].level \in Levels /\ ~In(Node(u), thread[u].level)
          BY <5>1, Linker
        <5> QED BY <1>2, <2>4, <5>2
      <4>3. Node(u)' = Node(u)
        BY <4>1 DEF Node
      <4> QED
        <5>1. thread[u].level \in Levels
          BY DEF IList, IType, ThreadType
        <5> QED BY <1>3, <2>6, <2>9, <4>1, <4>2, <4>3, <5>1 DEF PlaceOK, Lower, In, Present, Grown
    <3>2. PlaceOK(t)'
      <4>1. In(p, i)' /\ Lower(p, x)' /\ Present(q, i)' /\ Lower(x, q)'
        BY <1>2, <2>8, <2>12, <2>13
      <4> QED BY <2>2, <2>5, <2>7, <4>1 DEF PlaceOK, In, Lower, Present
    <3> QED BY <3>1, <3>2 DEF IPlaces
  <2>19. ISplices'
    <3>1. ASSUME NEW u \in Threads, u # t PROVE SplicesOK(u)'
      BY <1>3, <2>5, <2>6, <2>9, <3>1, SplicesKept DEF IList, ILocal, ISplices
    <3>2. SplicesOK(t)'
      BY <1>1, <1>3, <2>2, <2>5, <2>6, <2>7, <2>9, LinkerSplices DEF IList, ILocal, ISplices
    <3> QED BY <3>1, <3>2 DEF ISplices
  <2>20. IHelpers'
    <3>1. ASSUME NEW u \in Threads, u # t PROVE HelperOK(u)'
      <4> PICK v : v = thread[u]
        OBVIOUS
      <4>1. HelperOK(u) /\ PlaceOK(u) /\ thread'[u] = v
        BY <2>5, <3>1 DEF IList, ILocal, IHelpers, IPlaces
      <4>2. CASE v.pc \notin {"cas", "helpCas"}
        BY <1>3, <2>6, <4>1, <4>2 DEF HelperOK, LE, Lower
      <4>3. CASE v.pc \in {"cas", "helpCas"}
        <5>1. thread[u].pc \in Linking /\ thread[u].pc # "refind"
          BY <4>3 DEF Linking, Unlinked
        <5>2. v.level \in Levels /\ v.prev \in Nodes /\ Present(v.next, v.level)
          BY <5>1, Linker
        <5>3. CASE v.prev # p \/ v.level # i
          <6>1. next'[v.prev][v.level] = next[v.prev][v.level]
            BY <2>4, <5>2, <5>3
          <6> QED BY <1>3, <2>6, <4>1, <6>1 DEF HelperOK, LE, Lower
        <5>4. CASE v.prev = p /\ v.level = i
          <6>1. v.next # x
            BY <1>2, <5>2, <5>4
          <6>2. next'[v.prev][v.level] = x
            BY <2>4, <5>4
          <6>3. v.pc = "helpCas" => prev[v.next][v.level] # v.seen
            <7> SUFFICES ASSUME v.pc = "helpCas", prev[v.next][v.level] = v.seen PROVE FALSE
              OBVIOUS
            <7>1. next[p][i] = v.next
              BY <4>1, <5>4 DEF HelperOK
            <7>2. v.seen = p
              BY <1>7, <2>7, <5>4, <7>1
            <7> QED BY <4>1, <5>4, <7>2 DEF PlaceOK
          <6> QED BY <1>3, <2>6, <4>1, <6>1, <6>2, <6>3 DEF HelperOK, LE, Lower
        <5> QED BY <5>3, <5>4
      <4> QED BY <4>2, <4>3
    <3>2. HelperOK(t)'
      BY <1>3, <2>2, <2>5, <2>7 DEF HelperOK, LE
    <3> QED BY <3>1, <3>2 DEF IHelpers
  <2>21. IPairs'
    <3> SUFFICES ASSUME NEW a \in Threads, NEW b \in Threads PROVE PairOK(a, b)'
      BY DEF IPairs
    <3>1. PairOK(a, b)
      BY DEF IList, ILocal, IPairs
    <3>2. ASSUME NEW u \in Threads, u # t, thread[u].pc = "back", thread[u].level = i, thread[u].next = q
          PROVE  thread[u].prev # p
      <4> SUFFICES ASSUME thread[u].prev = p PROVE FALSE
        OBVIOUS
      <4>1. thread[u].pc \in Linking
        BY <3>2 DEF Linking
      <4>2. Node(u) \in Nodes /\ In(Node(u), i) /\ Lower(p, Node(u)) /\ Lower(Node(u), q)
        BY <3>2, <4>1, Linker
      <4> QED BY <2>14, <4>2
    <3>3. CASE a = t /\ b = t
      BY <2>2, <2>5, <3>3 DEF PairOK
    <3>4. CASE a = t /\ b # t
      <4>1. thread'[b] = thread[b] /\ thread'[a] = z
        BY <2>5, <3>4
      <4> QED BY <2>2, <3>2, <3>4, <4>1 DEF PairOK
    <3>5. CASE a # t /\ b = t
      <4>1. thread'[a] = thread[a] /\ thread'[b] = z
        BY <2>5, <3>5
      <4>2. ASSUME thread[a].pc \in {"help", "helpCas"}, thread[a].level = i PROVE thread[a].prev # x
        <5>1. thread[a].pc \in Linking
          BY <4>2 DEF Linking, Unlinked
        <5>2. In(thread[a].prev, i)
          BY <4>2, <5>1, Linker
        <5> QED BY <1>2, <5>2
      <4> QED BY <2>2, <2>7, <3>2, <3>5, <4>1, <4>2 DEF PairOK
    <3>6. CASE a # t /\ b # t
      <4>1. thread'[a] = thread[a] /\ thread'[b] = thread[b]
        BY <2>5, <3>6
      <4> QED BY <2>6, <3>1, <4>1 DEF PairOK, Node, LE, Lower
    <3> QED BY <3>3, <3>4, <3>5, <3>6
  <2> QED BY <2>5, <2>10, <2>11, <2>15, <2>16, <2>17, <2>18, <2>19, <2>20, <2>21 DEF IList, IWorld, ILocal
<1> QED BY <1>6, <1>7

-----------------------------------------------------------------------------
(* Steps beside the lists.                                                 *)

(* A batch that is about to be applied, or whose records are all added: the writer goes on and nothing else moves. *)
LEMMA OutsideStep ==
  ASSUME IList, work' = work, next' = next, prev' = prev, height' = height,
         NEW t \in Threads, NEW pc, thread' = [thread EXCEPT ![t] = [thread[t] EXCEPT !.pc = pc]],
         \/ thread[t].pc = "idle" /\ pc \in {"splice", "elsewhere"} /\ work[t] # <<>>
         \/ thread[t].pc \in Over /\ pc \in Over
  PROVE  IList' /\ LevelSets' = LevelSets
<1> PICK s : s = [thread[t] EXCEPT !.pc = pc]
  OBVIOUS
<1>0. thread[t] \in ThreadType /\ pc \in PCs
  BY DEF IList, IType, PCs, Adding
<1>1. s \in ThreadType /\ s.pc = pc /\ s.rec = thread[t].rec /\ s.ins = thread[t].ins
  BY <1>0 DEF ThreadType
<1>2. thread[t].pc \notin Searching \cup Linking /\ pc \notin Searching \cup Linking
  BY DEF Searching, Linking, Unlinked, Over
<1>3. s.pc \in Adding \cup Over => s.rec \in DOMAIN work[t]
  <2>1. CASE thread[t].pc = "idle"
    <3>1. work \in Works /\ s.rec = 1
      BY <1>1, <2>1 DEF IList, IType
    <3>2. work[t] \in Seq([list : Lists, key : Int])
      BY <3>1, NodeFacts
    <3>3. work[t] # <<>>
      BY <2>1 DEF Over
    <3> QED BY <3>1, <3>2, <3>3
  <2>2. CASE thread[t].pc \in Over
    BY <1>1, <2>2 DEF IList, IType
  <2> QED BY <2>1, <2>2
<1>4. s.pc \in {"idle", "elsewhere"} => s.rec = 1
  BY <1>1 DEF IList, IType, Over
<1>5. IType' /\ thread'[t] = s /\ \A u \in Threads \ {t} : thread'[u] = thread[u]
  <2>1. /\ next' \in [Nodes -> [Levels -> Pointer]] /\ prev' \in [Nodes -> [Levels -> Pointer]]
        /\ height' \in [Lists -> Levels] /\ IType
    BY DEF IList, IType
  <2> QED BY <1>1, <1>3, <1>4, <2>1, TypeStep
<1>6. LevelSets' = LevelSets
  <2>1. \A n, i : ~Marked(t, n, i) /\ ~Marked(t, n, i)'
    BY <1>1, <1>2, <1>5 DEF Marked, Linking, Searching
  <2> QED BY <1>5, <2>1, LevelsKept
<1>7. Higher
  BY DEF Higher, IList, IType, Levels
<1>8. NodesOK(t)'
  <2>1. NodesOK(t)
    BY DEF IList, IWorld, INodes
  <2>2. \A r, i : Untouched(s, r, i) => Untouched(thread[t], r, i)
    BY <1>1 DEF Untouched, Searching, Linking, Unlinked, Over
  <2>3. \A r \in DOMAIN work[t] : \A i : Touched(s, r, i) => Touched(thread[t], r, i)
    <3>1. CASE thread[t].pc = "idle"
      <4>1. s.rec = 1 /\ work \in Works /\ pc \notin Over /\ pc \notin Linking
        BY <1>1, <3>1 DEF IList, IType, Over, Linking, Unlinked
      <4>2. DOMAIN work[t] = 1 .. Len(work[t]) /\ Len(work[t]) \in Nat
        BY <4>1, NodeFacts
      <4>3. \A r \in DOMAIN work[t] : r # s.rec => ~(r < s.rec)
        BY <4>1, <4>2
      <4>4. \A r \in DOMAIN work[t] : ~(r < s.rec)
        BY <4>1, <4>2
      <4> QED BY <1>1, <4>1, <4>4 DEF Touched, Linking, Unlinked
    <3>2. CASE thread[t].pc \in Over
      <4>1. pc \in Over
        BY <3>2 DEF Over
      <4> QED BY <1>1, <3>2, <4>1 DEF Touched, Linking, Unlinked, Over, Adding
    <3> QED BY <3>1, <3>2
  <2> QED BY <1>5, <2>1, <2>2, <2>3 DEF NodesOK
<1>9. PlaceOK(t)' /\ HelperOK(t)'
  BY <1>1, <1>2, <1>5 DEF PlaceOK, HelperOK, Linking, Unlinked, Searching
<1>10. SplicesOK(t)'
  <2>1. Nodes' = Nodes /\ Above' = Above
    BY OrderKept
  <2>2. \A l \in Lists : Idling(s.ins[l], l)
    BY <1>1, <1>2 DEF IList, ILocal, ISplices, SplicesOK
  <2>3. \A f, lo, hi, l : Spliced(f, lo, hi, l) => Spliced(f, lo, hi, l)'
    BY <1>6, <2>1, SplicedKept DEF Grown
  <2>4. \A l \in Lists : Idling(s.ins[l], l)'
    BY <2>2, <2>3 DEF Idling, Unset
  <2> QED BY <1>1, <1>2, <1>5, <2>4 DEF SplicesOK
<1>11. thread[t].pc # "back" /\ thread'[t].pc # "back" /\ thread'[t].pc \notin {"help", "helpCas"}
  BY <1>1, <1>2, <1>5 DEF Linking, Unlinked
<1> QED BY <1>5, <1>6, <1>7, <1>8, <1>9, <1>10, <1>11, QuietStep

LEMMA ListUnchanged ==
  ASSUME IList, UNCHANGED listVars
  PROVE  IList' /\ LevelSets' = LevelSets /\ Above' = Above /\ Nodes' = Nodes
<1>0. work' = work /\ next' = next /\ prev' = prev /\ height' = height /\ thread' = thread
  BY DEF listVars
<1>1. Nodes' = Nodes /\ Above' = Above /\ Pointer' = Pointer
  BY <1>0, OrderKept
<1>2. LevelSets' = LevelSets
  <2>1. \A n, i : InLevel(n, i)' <=> InLevel(n, i)
    BY <1>0 DEF InLevel, Node
  <2> QED BY <1>1, <2>1 DEF LevelSets
<1>3. IType'
  <2>1. ThreadType' = ThreadType
    BY <1>1 DEF ThreadType, InserterType, Place
  <2> QED BY <1>0, <1>1, <2>1 DEF IList, IType
<1>4. /\ \A m, n : (Lower(m, n)' <=> Lower(m, n)) /\ (LE(m, n)' <=> LE(m, n))
      /\ \A n, i : (In(n, i)' <=> In(n, i)) /\ (Present(n, i)' <=> Present(n, i))
  BY <1>1, <1>2 DEF Lower, LE, In, Present
<1>5. INodes'
  BY <1>0 DEF IList, IWorld, INodes, IEnds, NodesOK
<1>6. ITower' /\ ISorted' /\ IPrev'
  BY <1>0, <1>1, <1>4 DEF IList, IWorld, ITower, ISorted, IPrev
<1>7. IAdjacent'
  <2>1. \A t, n, m, i : Owes(t, n, m, i)' <=> Owes(t, n, m, i)
    BY <1>0 DEF Owes, Node
  <2> QED BY <1>0, <1>1, <1>4, <2>1 DEF IList, IWorld, IAdjacent
<1>8. ASSUME NEW t \in Threads
      PROVE  PlaceOK(t)' /\ HelperOK(t)' /\ SplicesOK(t)' /\ \A u \in Threads : PairOK(t, u)'
  <2>1. PlaceOK(t) /\ HelperOK(t) /\ SplicesOK(t) /\ \A u \in Threads : PairOK(t, u)
    BY DEF IList, ILocal, IPlaces, IHelpers, ISplices, IPairs
  <2> PICK x : x = Node(t)
    OBVIOUS
  <2>2. Node(t)' = x
    BY <1>0 DEF Node
  <2>3. PlaceOK(t)'
    BY <1>0, <1>4, <2>1, <2>2 DEF PlaceOK
  <2>4. HelperOK(t)'
    BY <1>0, <1>4, <2>1 DEF HelperOK
  <2>5. Grown /\ Higher
    BY <1>0, <1>2 DEF Grown, Higher, IList, IType, Levels
  <2>6. SplicesOK(t)'
    BY <1>0, <1>1, <1>3, <2>1, <2>5, SplicesKept DEF IList
  <2>7. \A u \in Threads : PairOK(t, u)'
    BY <1>0, <1>4, <2>1 DEF PairOK, Node
  <2> QED BY <2>3, <2>4, <2>6, <2>7
<1>9. ILocal'
  BY <1>8 DEF ILocal, IPlaces, IHelpers, ISplices, IPairs
<1> QED BY <1>1, <1>2, <1>3, <1>5, <1>6, <1>7, <1>9 DEF IList, IWorld

LEMMA ListInitial ==
  ASSUME ListInit
  PROVE  IList
<1>0. work \in Works /\ thread = [t \in Threads |-> NewThread] /\ height = [l \in Lists |-> 1]
  BY DEF ListInit
<1>1. /\ \A t \in Threads : thread[t] = NewThread
      /\ NewThread.pc = "idle" /\ NewThread.rec = 1 /\ NewThread.ins = [l \in Lists |-> NewInserter]
  BY <1>0 DEF NewThread
<1>2. NewThread \in ThreadType
  <2>1. 1 \in Levels /\ NewThread.ins \in [Lists -> InserterType] /\ Nil \in Pointer /\ "idle" \in PCs
    BY LevelRange, FreshThread DEF Pointer, PCs
  <2> QED BY <2>1 DEF NewThread, ThreadType
<1>3. /\ next \in [Nodes -> [Levels -> Pointer]] /\ prev \in [Nodes -> [Levels -> Pointer]]
      /\ \A l \in Lists : \A i \in Levels : next[HeadNode(l)][i] = TailNode(l) /\ prev[TailNode(l)][i] = HeadNode(l)
      /\ \A n \in Nodes \ Heads : \A i \in Levels : next[n][i] = Nil
  <2>1. \A n \in Nodes : (IsHead(n) <=> n \in Heads) /\ (IsTail(n) <=> n \in Tails)
    <3> SUFFICES ASSUME NEW n \in Nodes PROVE (IsHead(n) <=> n \in Heads) /\ (IsTail(n) <=> n \in Tails)
      OBVIOUS
    <3>1. n \in Heads => n[1] = 0
      BY DEF Heads, HeadNode
    <3>2. n \in Tails => n[1] = -1
      BY DEF Tails, TailNode
    <3>3. n \in Heads \/ n \in Tails \/ (n[1] # 0 /\ n[1] # -1)
      BY <1>0, NodeFacts, SkipListAssumption DEF NodeOf
    <3> QED BY <3>1, <3>2, <3>3 DEF IsHead, IsTail
  <2>2. Heads \subseteq Nodes /\ Tails \subseteq Nodes /\ Heads \cap Tails = {}
    BY <1>0, NodeFacts
  <2>3. \A l \in Lists : /\ HeadNode(l) \in Heads /\ TailNode(l) \in Tails
                         /\ HeadNode(l)[2] = l /\ TailNode(l)[2] = l
    BY DEF Heads, Tails, HeadNode, TailNode
  <2>4. \A n \in Heads \cup Tails : n[2] \in Lists /\ TailNode(n[2]) \in Pointer /\ HeadNode(n[2]) \in Pointer
    BY <2>2, <2>3 DEF Heads, Tails, HeadNode, TailNode, Pointer
  <2>5. next \in [Nodes -> [Levels -> Pointer]]
    BY <2>1, <2>4 DEF ListInit, Pointer
  <2>6. prev \in [Nodes -> [Levels -> Pointer]]
    BY <2>1, <2>4 DEF ListInit, Pointer
  <2>7. \A l \in Lists : \A i \in Levels : next[HeadNode(l)][i] = TailNode(l) /\ prev[TailNode(l)][i] = HeadNode(l)
    BY <2>1, <2>2, <2>3 DEF ListInit
  <2>8. \A n \in Nodes \ Heads : \A i \in Levels : next[n][i] = Nil
    BY <2>1 DEF ListInit
  <2> QED BY <2>5, <2>6, <2>7, <2>8
<1>4. IType
  BY <1>0, <1>1, <1>2, <1>3, LevelRange DEF IType, Adding, Over, Searching, Linking, Unlinked
<1>5. \A i \in Levels : \A n : In(n, i) <=> n \in Heads
  <2>0. \A l \in Lists : TailNode(l) # Nil
    BY DEF Nil, TailNode
  <2>1. \A i \in Levels : \A n \in Heads : n \in Nodes /\ next[n][i] # Nil
    <3>1. \A n \in Heads : n \in Nodes
      BY <1>0, NodeFacts
    <3>2. \A n \in Heads : \E l \in Lists : n = HeadNode(l)
      BY DEF Heads
    <3> QED BY <1>3, <2>0, <3>1, <3>2
  <2>2. \A n, i : \A t \in Threads : ~(thread[t].pc \in Unlinked /\ Node(t) = n)
    BY <1>1 DEF Unlinked
  <2>3. \A n, i : In(n, i) /\ i \in Levels => n \in Nodes /\ InLevel(n, i)
    BY DEF In, LevelSets
  <2>4. \A n \in Nodes : \A i \in Levels : InLevel(n, i) => In(n, i)
    BY DEF In, LevelSets
  <2> QED BY <1>3, <2>1, <2>2, <2>3, <2>4 DEF InLevel
<1>6. \A l \in Lists : Lower(HeadNode(l), TailNode(l)) /\ HeadNode(l) \in Heads /\ TailNode(l) \in Tails
  <2> SUFFICES ASSUME NEW l \in Lists PROVE Lower(HeadNode(l), TailNode(l)) /\ HeadNode(l) \in Heads /\ TailNode(l) \in Tails
    OBVIOUS
  <2>1. HeadNode(l) \in Heads /\ TailNode(l) \in Tails
    BY DEF Heads, Tails
  <2>2. HeadNode(l) \in Nodes /\ TailNode(l) \in Nodes
    BY <1>0, <2>1, NodeFacts
  <2>3. Below(HeadNode(l), TailNode(l))
    BY DEF Below, HeadNode, TailNode, IsHead, IsTail
  <2>4. ListOf(HeadNode(l)) = l /\ ListOf(TailNode(l)) = l
    BY SkipListAssumption DEF ListOf, HeadNode, TailNode
  <2> QED BY <2>1, <2>2, <2>3, <2>4 DEF Lower, Above
<1>7. \A n \in Heads : \A i \in Levels : \E l \in Lists : n = HeadNode(l) /\ next[n][i] = TailNode(l) /\ prev[TailNode(l)][i] = n
  BY <1>3 DEF Heads
<1>8. \A n \in Tails : \A i \in Levels : \E l \in Lists : n = TailNode(l) /\ prev[n][i] = HeadNode(l)
  BY <1>3 DEF Tails
<1>9. INodes
  <2>1. IEnds
    <3>1. \A l \in Lists : TailNode(l) # Nil /\ TailNode(l) \in Nodes \ Heads
      BY <1>0, <1>6, NodeFacts
    <3> QED BY <1>3, <3>1 DEF IEnds
  <2>2. \A t \in Threads : NodesOK(t)
    BY <1>0, <1>1, <1>3, NodeFacts DEF NodesOK, Touched, Linking, Unlinked, Adding, Over, Searching
  <2> QED BY <2>1, <2>2 DEF INodes
<1>10. ITower
  BY <1>5 DEF ITower
<1>11. ISorted
  <2> SUFFICES ASSUME NEW i \in Levels, NEW n \in Nodes, In(n, i)
               PROVE /\ Lower(n, next[n][i]) /\ Present(next[n][i], i)
                     /\ \A m \in Nodes : In(m, i) => ~(Lower(n, m) /\ Lower(m, next[n][i]))
    BY DEF ISorted
  <2>1. PICK l \in Lists : n = HeadNode(l) /\ next[n][i] = TailNode(l)
    BY <1>5, <1>7
  <2>2. \A m : Lower(n, m) => m \notin Heads
    BY <1>0, LowerFacts
  <2> QED BY <1>5, <1>6, <2>1, <2>2 DEF Present
<1>12. IPrev
  <2> SUFFICES ASSUME NEW i \in Levels, NEW n \in Nodes, Present(n, i), n \notin Heads
               PROVE In(prev[n][i], i) /\ Lower(prev[n][i], n)
    BY DEF IPrev
  <2>1. n \in Tails
    BY <1>5 DEF Present
  <2>2. PICK l \in Lists : n = TailNode(l) /\ prev[n][i] = HeadNode(l)
    BY <1>8, <2>1
  <2> QED BY <1>5, <1>6, <2>2
<1>13. IAdjacent
  BY <1>5, <1>7 DEF IAdjacent
<1>14. ILocal
  <2>1. \A t \in Threads : PlaceOK(t) /\ HelperOK(t)
    BY <1>1 DEF PlaceOK, HelperOK, Linking, Unlinked
  <2>2. \A t \in Threads : SplicesOK(t)
    BY <1>0, <1>1, LevelRange, FreshThread DEF SplicesOK, Linking, Unlinked, Searching
  <2>3. \A t, u \in Threads : PairOK(t, u)
    BY <1>1 DEF PairOK
  <2> QED BY <2>1, <2>2, <2>3 DEF ILocal, IPlaces, IHelpers, ISplices, IPairs
<1> QED BY <1>4, <1>9, <1>10, <1>11, <1>12, <1>13, <1>14 DEF IList, IWorld

-----------------------------------------------------------------------------
(* The lists as a reader of MemTable sees them.                            *)

LEMMA RecordsAre ==
  ASSUME work \in Works, NEW t \in Threads, NEW l
  PROVE  Records(t, l) \subseteq DOMAIN work[t] /\ \A i \in Records(t, l) : work[t][i].list = l
BY DEF Records

(* The nodes of a list's level are those that are in it, and of that list. *)
LEMMA LevelNodesAre ==
  ASSUME IType, NEW l \in Lists, NEW i \in Levels, NEW n
  PROVE  /\ n \in ListNodes(l) <=> n \in Nodes /\ ListOf(n) = l
         /\ n \in LevelNodes(l, i) <=> In(n, i) /\ ListOf(n) = l
<1>0. work \in Works
  BY DEF IType
<1>1. n \in ListNodes(l) <=> n \in Nodes /\ ListOf(n) = l
  <2>1. HeadNode(l) \in Nodes /\ TailNode(l) \in Nodes /\ ListOf(HeadNode(l)) = l /\ ListOf(TailNode(l)) = l
    BY <1>0, NodeFacts, SkipListAssumption DEF Heads, Tails, ListOf, HeadNode, TailNode
  <2>2. \A t \in Threads : \A j \in DOMAIN work[t] : NodeOf(t, j) \in Nodes /\ ListOf(NodeOf(t, j)) = work[t][j].list
    BY <1>0, NodeFacts DEF ListOf, NodeOf
  <2>3. n \in Heads => n = HeadNode(ListOf(n))
    BY SkipListAssumption DEF Heads, ListOf, HeadNode
  <2>4. n \in Tails => n = TailNode(ListOf(n))
    BY SkipListAssumption DEF Tails, ListOf, TailNode
  <2>5. n \in ListNodes(l) => n \in Nodes /\ ListOf(n) = l
    BY <2>1, <2>2 DEF ListNodes, Records
  <2>6. ASSUME n \in Nodes, ListOf(n) = l PROVE n \in ListNodes(l)
    <3>1. CASE n \in Heads \cup Tails
      BY <2>3, <2>4, <2>6, <3>1 DEF ListNodes
    <3>2. CASE n \notin Heads \cup Tails
      <4>0. PICK t \in Threads : \E j \in DOMAIN work[t] : n = NodeOf(t, j)
        BY <1>0, <2>6, <3>2, NodeFacts
      <4>1. PICK j \in DOMAIN work[t] : n = NodeOf(t, j)
        BY <4>0
      <4>2. j \in Records(t, l)
        BY <2>2, <2>6, <4>1 DEF Records
      <4> QED BY <4>1, <4>2 DEF ListNodes
    <3> QED BY <3>1, <3>2
  <2> QED BY <2>5, <2>6
<1>2. n \in LevelNodes(l, i) <=> In(n, i) /\ ListOf(n) = l
  BY <1>1 DEF LevelNodes, In, LevelSets
<1> QED BY <1>1, <1>2

LEMMA ListsFollow ==
  ASSUME IList
  PROVE  ListsWellFormed
<1>0. work \in Works /\ IType /\ INodes /\ ITower /\ ISorted /\ IAdjacent
  BY DEF IList, IType, IWorld
<1> SUFFICES ASSUME NEW l \in Lists, NEW i \in Levels
             PROVE  LET nodes == LevelNodes(l, i)
                    IN  /\ HeadNode(l) \in nodes
                        /\ \A n \in nodes :
                               /\ next[n][i] \in nodes \cup {TailNode(l)} /\ Below(n, next[n][i])
                               /\ \A m \in nodes : ~(Below(n, m) /\ Below(m, next[n][i]))
                        /\ i > 1 => nodes \subseteq LevelNodes(l, i - 1)
                        /\ i = 1 => \A t \in Threads : \A j \in Records(t, l) :
                                        At(t, "elsewhere") \/ ~Linked(t, j) \/ NodeOf(t, j) \in nodes
                        /\ (\A t \in Threads : thread[t].pc \in {"idle", "done", "elsewhere"}) =>
                               \A n \in nodes : prev[next[n][i]][i] = n
  BY DEF ListsWellFormed
<1> PICK nodes : nodes = LevelNodes(l, i)
  OBVIOUS
<1>1. \A n : n \in nodes <=> In(n, i) /\ ListOf(n) = l
  BY <1>0, LevelNodesAre
<1>2. HeadNode(l) \in nodes
  <2>1. HeadNode(l) \in Heads /\ ListOf(HeadNode(l)) = l
    BY SkipListAssumption DEF Heads, ListOf, HeadNode
  <2> QED BY <1>0, <1>1, <2>1, LevelFacts
<1>3. \A n : In(n, i) => n \in Nodes
  BY DEF In, LevelSets
<1>4. \A m, n : Lower(m, n) <=> m \in Nodes /\ n \in Nodes /\ ListOf(m) = ListOf(n) /\ Below(m, n)
  BY DEF Lower, Above
<1>5. ASSUME NEW n \in nodes
      PROVE  /\ next[n][i] \in nodes \cup {TailNode(l)} /\ Below(n, next[n][i])
             /\ \A m \in nodes : ~(Below(n, m) /\ Below(m, next[n][i]))
  <2> PICK q : q = next[n][i]
    OBVIOUS
  <2>1. n \in Nodes /\ In(n, i) /\ ListOf(n) = l
    BY <1>1, <1>3
  <2>2. Lower(n, q) /\ Present(q, i) /\ \A m \in Nodes : In(m, i) => ~(Lower(n, m) /\ Lower(m, q))
    BY <1>0, <2>1, Adjacent
  <2>3. q \in Nodes /\ ListOf(q) = l /\ Below(n, q)
    BY <1>4, <2>1, <2>2
  <2>4. q \in Tails => q = TailNode(l)
    BY <2>3, SkipListAssumption DEF Tails, ListOf, TailNode
  <2>5. q \in nodes \cup {TailNode(l)}
    BY <1>1, <2>2, <2>3, <2>4 DEF Present
  <2>6. \A m \in nodes : ~(Below(n, m) /\ Below(m, q))
    BY <1>1, <1>3, <1>4, <2>1, <2>2, <2>3
  <2> QED BY <2>3, <2>5, <2>6
<1>6. ASSUME i > 1 PROVE nodes \subseteq LevelNodes(l, i - 1)
  <2>1. i - 1 \in Levels /\ i - 1 < i
    BY <1>6, LevelRange
  <2> PICK k \in Levels : k = i - 1
    BY <2>1
  <2>2. \A n : n \in LevelNodes(l, k) <=> In(n, k) /\ ListOf(n) = l
    BY <1>0, LevelNodesAre
  <2> QED BY <1>0, <1>1, <1>3, <2>1, <2>2 DEF ITower
<1>7. ASSUME i = 1, NEW t \in Threads, NEW j \in Records(t, l), ~At(t, "elsewhere"), Linked(t, j)
      PROVE NodeOf(t, j) \in nodes
  <2> PICK s : s = thread[t]
    OBVIOUS
  <2>1. j \in DOMAIN work[t] /\ work[t][j].list = l /\ s \in ThreadType /\ j \in Int /\ 1 <= j
    BY <1>0, RecordsAre, NodeFacts DEF IType
  <2>2. ListOf(NodeOf(t, j)) = l /\ NodeOf(t, j) \in Nodes
    BY <1>0, <2>1, NodeFacts DEF ListOf, NodeOf
  <2>3. s.pc \in Adding \cup Over /\ (s.rec > j \/ (s.rec = j /\ s.pc \in Over))
    <3>1. s.pc # "idle" /\ s.pc # "elsewhere"
      BY <1>0, <1>7, <2>1 DEF IType, Linked, At
    <3> QED BY <1>7, <2>1, <3>1 DEF Linked, ThreadType, PCs, Over
  <2>4. Touched(s, j, i)
    BY <1>7, <2>1, <2>3 DEF Touched, ThreadType
  <2>5. next[NodeOf(t, j)][i] # Nil
    BY <1>0, <2>1, <2>4 DEF INodes, NodesOK
  <2>6. \A u \in Threads : thread[u].pc \in Unlinked /\ Node(u) = NodeOf(t, j) => thread[u].level # i
    BY <2>1, <2>3 DEF Node, NodeOf, Unlinked, Over, ThreadType
  <2>7. In(NodeOf(t, j), i)
    BY <2>2, <2>5, <2>6 DEF In, LevelSets, InLevel
  <2> QED BY <1>1, <2>2, <2>7
<1>8. ASSUME \A t \in Threads : thread[t].pc \in {"idle", "done", "elsewhere"}, NEW n \in nodes
      PROVE  prev[next[n][i]][i] = n
  BY <1>0, <1>1, <1>3, <1>8 DEF IAdjacent, Owes
<1> QED BY <1>2, <1>5, <1>6, <1>7, <1>8

(* What is added is in the lowest level. *)
LEMMA AddedIn ==
  ASSUME IList, NEW t \in Threads, NEW j \in DOMAIN work[t], thread[t].pc \in Over, j <= thread[t].rec
  PROVE  In(NodeOf(t, j), 1)
<1>1. work[t][j].list \in Lists /\ j \in Records(t, work[t][j].list) /\ j \in Int
  BY NodeFacts DEF Records, IList, IType
<1> PICK l \in Lists : l = work[t][j].list
  BY <1>1
<1>2. Linked(t, j) /\ ~At(t, "elsewhere")
  <2>1. thread[t] \in ThreadType
    BY DEF IList, IType
  <2>2. thread[t].rec \in Int
    BY <2>1 DEF ThreadType
  <2> QED BY <1>1, <2>2 DEF Linked, At, Over
<1>3. NodeOf(t, j) \in LevelNodes(l, 1)
  BY <1>1, <1>2, ListsFollow, LevelRange DEF ListsWellFormed
<1> QED BY <1>3, LevelNodesAre, LevelRange DEF IList

-----------------------------------------------------------------------------
(* The arena: what the batches under way may still allocate is reserved.   *)

Active == {t \in Threads : thread[t].pc \in Adding \cup (Over \ {"done"})}
Pending(s, i) == /\ s.pc \in Adding
                 /\ i > s.rec \/ (i = s.rec /\ s.pc \in {"splice"} \cup Searching)
Todo == UNION {{NodeOf(t, i) : i \in {j \in DOMAIN work[t] : Pending(thread[t], j)}} : t \in Threads}

IArena ==
  /\ arenaSize \in Nat /\ reserved \in Nat
  /\ IsFiniteSet(Todo)
  /\ writerRefs = 1 + Cardinality(Active)
  /\ arenaSize + Cardinality(Todo) * (MaxHeight + 1) <= ReservedBytes /\ ReservedBytes <= Capacity

-----------------------------------------------------------------------------
(* The cache of tombstones: a value made for a count stands for the        *)
(* tombstones of the batches that were counted up to it.                   *)

AllTombs == UNION {{<<t, i>> : i \in Records(t, Tombstones)} : t \in Threads}
Counted  == {n \in AllTombs : newCount[n[1]] # 0}
TombSets == [c \in Counts \cup {0} |-> {n \in Counted : newCount[n[1]] <= c}]

CountOK(t) ==
  LET s == thread[t]
  IN /\ s.pc \in Over => s.rec = Len(work[t])
     /\ newCount[t] <= count
     /\ newCount[t] # 0 => s.pc \in {"load", "swap", "unref", "done"}
     /\ s.pc \in {"load", "swap", "unref"} => newCount[t] # 0
     /\ s.pc = "done" /\ Records(t, Tombstones) # {} => newCount[t] # 0
     /\ s.pc = "swap" => old[t] < newCount[t]
     /\ s.pc \in {"unref", "done"} => newCount[t] <= frags
     /\ t \in applied => s.pc = "done"
ICount ==
  /\ frags \in Nat /\ newCount \in [Threads -> Nat] /\ old \in [Threads -> Nat]
  /\ order \in Seq(Threads) /\ applied \subseteq Threads
  /\ count = Cardinality(Counted)
  /\ frags <= count
  /\ \A t \in Threads : CountOK(t)
IOnce ==
  /\ once \in [Counts -> {"new", "busy", "done"}] /\ built \in [Counts -> SUBSET Nodes]
  /\ \A c \in Counts : once[c] = "done" => c <= count /\ TombSets[c] \subseteq built[c]

-----------------------------------------------------------------------------
(* Readers.                                                                *)

Inner == Nodes \ (Heads \cup Tails)
ReaderType == [pc : {"idle", "step", "seek", "once", "build", "done"},
               mode : {"none", "forward", "backward", "tombstones"}, at : Pointer, level : Levels, seek : Int,
               frags : Nat, got : Seq(Inner), must : SUBSET Inner]
Got(s) == {s.got[i] : i \in DOMAIN s.got}

(* What was returned is in order. *)
GotOK(s) ==
  /\ s.got # <<>> => s.mode \in {"forward", "backward"}
  /\ \A i \in 1 .. (Len(s.got) - 1) : /\ s.mode = "forward" => Lower(s.got[i], s.got[i + 1])
                                      /\ s.mode # "forward" => Lower(s.got[i + 1], s.got[i])
  /\ s.pc = "step" /\ s.got # <<>> => s.got[Len(s.got)] = s.at
(* A scan is at a node of the points, and what it has to return and is not above that node is returned. *)
ScanOK(s) ==
  /\ s.pc \in {"step", "seek"} => s.mode \in {"forward", "backward"}
  /\ s.mode = "forward" => \A m \in s.must : In(m, 1) /\ ListOf(m) = Points
  /\ s.pc = "step" => ListOf(s.at) = Points
  /\ s.pc = "step" /\ s.mode = "forward" => In(s.at, 1) /\ \A m \in s.must : LE(m, s.at) => m \in Got(s)
  /\ s.pc = "step" /\ s.mode = "backward" => Present(s.at, 1) /\ s.at \notin Heads
  /\ s.pc = "seek" => /\ In(s.at, s.level) /\ ListOf(s.at) = Points /\ s.got = <<>>
                      /\ s.at \in Heads \/ KeyOf(s.at) < s.seek
  /\ s.pc = "seek" /\ s.mode = "forward" => \A m \in s.must : KeyOf(m) > s.seek
  /\ s.pc = "done" /\ s.mode = "forward" => s.must \subseteq Got(s)
(* The reader that builds a value has put what is not above its node there. *)
TombsOK(s) ==
  /\ s.pc \in {"once", "build"} => s.mode = "tombstones" /\ s.frags # 0
  /\ s.mode = "tombstones" => s.frags <= count /\ s.must \subseteq TombSets[s.frags]
  /\ s.pc = "build" => /\ In(s.at, 1) /\ ListOf(s.at) = Tombstones
                       /\ \A m \in TombSets[s.frags] : LE(m, s.at) => m \in built[s.frags]
  /\ s.pc = "done" /\ s.mode = "tombstones" /\ s.frags # 0 => TombSets[s.frags] \subseteq built[s.frags]
ReaderOK(r) == GotOK(reader[r]) /\ ScanOK(reader[r]) /\ TombsOK(reader[r])
IReaders == reader \in [Readers -> ReaderType] /\ \A r \in Readers : ReaderOK(r)

IMem == IList /\ IArena /\ ICount /\ IOnce /\ IReaders

-----------------------------------------------------------------------------
(* How a step of an insert moves its writer on.                            *)

(* A step of an insert that allocates nothing, from s to z. *)
Moves(t, s, z) ==
  \/ s.pc \in {"splice"} \cup Searching /\ z.pc \in Searching /\ z.rec = s.rec
  \/ /\ s.pc \in Unlinked /\ z.pc \in Linking /\ z.rec = s.rec /\ z.level = s.level
  \/ s.pc = "back" /\ z.pc = "link" /\ z.rec = s.rec /\ z.level = s.level + 1
  \/ s.pc = "back" /\ z.pc = "splice" /\ z.rec = s.rec + 1 /\ s.rec # Len(work[t])
  \/ s.pc = "back" /\ z.pc = "applied" /\ z.rec = s.rec /\ s.rec = Len(work[t])
NextKept == \A n \in Nodes : \A i \in Levels : next[n][i] # Nil => next'[n][i] # Nil
InsertStep(t) ==
    \/ FindSplice(t) \/ CheckSplice(t) \/ Find(t)
    \/ Link(t) \/ Help(t) \/ HelpCas(t) \/ CasNext(t) \/ Refind(t) \/ LinkBack(t)

LEMMA NextRecordMoves ==
  ASSUME NEW t \in Threads, NEW s, s \in ThreadType, s.pc = "back", NEW z, z = NextRecord(t, KeepSplice(t, s))
  PROVE  Moves(t, s, z)
<1>1. KeepSplice(t, s).rec = s.rec
  BY DEF KeepSplice, ThreadType
<1>2. CASE s.rec = Len(work[t])
  BY <1>1, <1>2 DEF NextRecord, Moves, NewThread
<1>3. CASE s.rec # Len(work[t])
  BY <1>1, <1>3 DEF NextRecord, Moves, NewThread
<1> QED BY <1>2, <1>3

LEMMA InsertMoves ==
  ASSUME IList, IType', NEW t \in Threads, InsertStep(t)
  PROVE  /\ work' = work /\ arenaSize' = arenaSize /\ \A u \in Threads \ {t} : thread'[u] = thread[u]
         /\ NextKept /\ Moves(t, thread[t], thread'[t])
<1> PICK s : s = thread[t]
  OBVIOUS
<1> PICK z : z = thread'[t]
  OBVIOUS
<1>0. /\ s \in ThreadType /\ z \in ThreadType' /\ thread \in [Threads -> ThreadType] /\ IType
      /\ next \in [Nodes -> [Levels -> Pointer]]
  BY DEF IList, IType
<1>1. z.pc \in PCs
  BY <1>0 DEF ThreadType
<1>2. z.pc \notin {"exists", "panic"}
  BY <1>1 DEF PCs, Adding, Searching, Linking, Unlinked, Over
<1>3. work' = work /\ arenaSize' = arenaSize
  BY DEF InsertStep, FindSplice, CheckSplice, Find, Link, Help, HelpCas, CasNext, Refind, LinkBack
<1>4. \A u \in Threads \ {t} : thread'[u] = thread[u]
  BY <1>0 DEF InsertStep, FindSplice, CheckSplice, Find, Link, Help, HelpCas, CasNext, Refind, LinkBack, Go
<1>5. NextKept /\ Moves(t, s, z)
  <2>1. CASE FindSplice(t)
    <3>1. s.pc = "splice" /\ z.pc \in {"find", "check"} /\ z.rec = s.rec
      BY <1>0, <2>1 DEF FindSplice, At, Go, FromTop, ThreadType
    <3>2. next' = next
      BY <2>1 DEF FindSplice
    <3> QED BY <3>1, <3>2 DEF Moves, NextKept, Searching
  <2>2. CASE CheckSplice(t)
    <3>1. s.pc = "check" /\ z.pc \in {"find", "check", "alloc"} /\ z.rec = s.rec
      BY <1>0, <2>2 DEF CheckSplice, At, Go, FromTop, ThreadType
    <3>2. next' = next
      BY <2>2 DEF CheckSplice
    <3> QED BY <3>1, <3>2 DEF Moves, NextKept, Searching
  <2>3. CASE Find(t)
    <3>1. s.pc = "find" /\ z.pc \in {"find", "exists", "alloc"} /\ z.rec = s.rec
      BY <1>0, <2>3 DEF Find, At, Go, Failed, ThreadType
    <3>2. next' = next
      BY <2>3 DEF Find
    <3> QED BY <1>2, <3>1, <3>2 DEF Moves, NextKept, Searching
  <2>4. CASE Link(t)
    <3>1. s.pc = "link" /\ z.pc \in {"cas", "help"} /\ z.rec = s.rec /\ z.level = s.level
      BY <1>0, <2>4 DEF Link, At, Go, ThreadType
    <3> PICK q : q = s.next
      OBVIOUS
    <3> PICK i : i = s.level
      OBVIOUS
    <3> PICK x : x = Node(t)
      OBVIOUS
    <3>2. s.pc \in Linking /\ s.pc # "refind"
      BY <3>1 DEF Linking, Unlinked
    <3>3. work \in Works /\ q \in Nodes /\ i \in Levels /\ x \in Nodes
      BY <3>2, Linker
    <3>4. q # Nil /\ q \in Pointer
      BY <3>3, NodeFacts DEF Pointer
    <3>5. next' = [next EXCEPT ![x][i] = q]
      BY <2>4 DEF Link
    <3>6. NextKept
      BY <1>0, <3>3, <3>4, <3>5, Update DEF NextKept
    <3> QED BY <3>1, <3>6 DEF Moves, Unlinked, Linking
  <2>5. CASE Help(t) \/ HelpCas(t)
    <3>1. s.pc \in {"help", "helpCas"} /\ z.pc \in {"helpCas", "cas"} /\ z.rec = s.rec /\ z.level = s.level
      BY <1>0, <2>5 DEF Help, HelpCas, At, Go, ThreadType
    <3>2. next' = next
      BY <2>5 DEF Help, HelpCas
    <3> QED BY <3>1, <3>2 DEF Moves, NextKept, Unlinked, Linking
  <2>6. CASE CasNext(t)
    <3>1. s.pc = "cas" /\ z.pc \in {"back", "refind"} /\ z.rec = s.rec /\ z.level = s.level
      BY <1>0, <2>6 DEF CasNext, At, Go, ThreadType
    <3> PICK p : p = s.prev
      OBVIOUS
    <3> PICK i : i = s.level
      OBVIOUS
    <3> PICK x : x = Node(t)
      OBVIOUS
    <3> PICK v : v = IF next[p][i] = s.next THEN x ELSE next[p][i]
      OBVIOUS
    <3>2. s.pc \in Linking
      BY <3>1 DEF Linking, Unlinked
    <3>3. work \in Works /\ p \in Nodes /\ i \in Levels /\ x \in Nodes /\ In(p, i)
      BY <3>2, Linker
    <3>4. next[p][i] # Nil /\ x # Nil /\ next[p][i] \in Pointer /\ x \in Pointer
      BY <1>0, <3>3, NodeFacts, LevelFacts DEF Pointer, IList, IWorld
    <3>5. next' = [next EXCEPT ![p][i] = v]
      BY <1>0, <2>6, <3>3 DEF CasNext
    <3>6. NextKept
      BY <1>0, <3>3, <3>4, <3>5, Update DEF NextKept
    <3> QED BY <3>1, <3>6 DEF Moves, Unlinked, Linking
  <2>7. CASE Refind(t)
    <3>1. s.pc = "refind" /\ z.pc \in {"refind", "link", "exists", "panic"} /\ z.rec = s.rec /\ z.level = s.level
      BY <1>0, <2>7 DEF Refind, At, Go, Failed, ThreadType
    <3>2. next' = next
      BY <2>7 DEF Refind
    <3> QED BY <1>2, <3>1, <3>2 DEF Moves, NextKept, Unlinked, Linking
  <2>8. CASE LinkBack(t)
    <3>1. s.pc = "back"
      BY <2>8 DEF LinkBack, At
    <3>2. next' = next
      BY <2>8 DEF LinkBack
    <3>3. z = IF s.level < s.tall THEN LinkLevel(t, s, s.level + 1) ELSE NextRecord(t, KeepSplice(t, s))
      BY <1>0, <2>8 DEF LinkBack, Go
    <3>4. CASE s.level < s.tall
      <4>1. z.pc = "link" /\ z.rec = s.rec /\ z.level = s.level + 1
        BY <1>0, <3>3, <3>4 DEF LinkLevel, ThreadType
      <4> QED BY <3>1, <3>2, <4>1 DEF Moves, NextKept
    <3>5. CASE ~(s.level < s.tall)
      BY <1>0, <3>1, <3>2, <3>3, <3>5, NextRecordMoves DEF NextKept
    <3> QED BY <3>4, <3>5
  <2> QED BY <2>1, <2>2, <2>3, <2>4, <2>5, <2>6, <2>7, <2>8 DEF InsertStep
<1> QED BY <1>3, <1>4, <1>5

(* Nodes stay in the levels where they are. *)
LEMMA LevelsGrow ==
  ASSUME IList, work' = work, NEW t \in Threads, \A u \in Threads \ {t} : thread'[u] = thread[u], NextKept,
         NEW s, s = thread[t], NEW z, z = thread'[t],
         z.pc \in Unlinked => \/ s.pc \in Unlinked /\ z.rec = s.rec /\ z.level = s.level
                              \/ z.rec \in DOMAIN work[t] /\ z.level \in Levels /\ Untouched(s, z.rec, z.level)
  PROVE  Grown
<1>0. Nodes' = Nodes
  BY OrderKept
<1>1. \A n, j : j \in Levels => (In(n, j) <=> n \in Nodes /\ next[n][j] # Nil /\ \A u \in Threads : ~Marked(u, n, j))
  BY DEF In, LevelSets, InLevel, Marked
<1>2. \A n, j : j \in Levels => (In(n, j)' <=> n \in Nodes /\ next'[n][j] # Nil /\ \A u \in Threads : ~Marked(u, n, j)')
  BY <1>0 DEF In, LevelSets, InLevel, Marked
<1>3. \A u \in Threads \ {t} : \A n, j : Marked(u, n, j)' <=> Marked(u, n, j)
  BY DEF Marked, Node
<1>4. ASSUME NEW n \in Nodes, NEW j \in Levels, In(n, j) PROVE ~Marked(t, n, j)'
  <2> SUFFICES ASSUME Marked(t, n, j)' PROVE FALSE
    OBVIOUS
  <2>1. z.pc \in Unlinked /\ n = NodeOf(t, z.rec) /\ z.level = j
    BY DEF Marked, Node
  <2>2. CASE s.pc \in Unlinked /\ z.rec = s.rec /\ z.level = s.level
    BY <1>1, <1>4, <2>1, <2>2 DEF Marked, Node
  <2>3. CASE z.rec \in DOMAIN work[t] /\ z.level \in Levels /\ Untouched(s, z.rec, z.level)
    BY <1>1, <1>4, <2>1, <2>3 DEF IList, IWorld, INodes, NodesOK
  <2> QED BY <2>1, <2>2, <2>3
<1>5. \A n \in Nodes : \A j \in Levels : In(n, j) => In(n, j)'
  BY <1>1, <1>2, <1>3, <1>4 DEF NextKept
<1>6. \A n : \A j \in Levels : In(n, j) => n \in Nodes
  BY <1>1
<1> QED BY <1>5, <1>6 DEF Grown, In

LEMMA InsertGrows ==
  ASSUME IList, IType', NEW t \in Threads, InsertStep(t)
  PROVE  Grown
<1> PICK s : s = thread[t]
  OBVIOUS
<1> PICK z : z = thread'[t]
  OBVIOUS
<1>1. /\ work' = work /\ \A u \in Threads \ {t} : thread'[u] = thread[u]
      /\ NextKept /\ Moves(t, s, z)
  BY InsertMoves
<1>2. z.level \in Levels /\ z.pc \in PCs /\ s.level \in Levels
  BY DEF IList, IType, ThreadType
<1>3. z.pc \in Adding \cup Over => z.rec \in DOMAIN work[t]
  BY <1>1 DEF IType
<1>4. ASSUME z.pc \in Unlinked
      PROVE  \/ s.pc \in Unlinked /\ z.rec = s.rec /\ z.level = s.level
             \/ z.rec \in DOMAIN work[t] /\ z.level \in Levels /\ Untouched(s, z.rec, z.level)
  <2>1. CASE s.pc \in Unlinked /\ z.rec = s.rec /\ z.level = s.level
    BY <2>1
  <2>2. CASE s.pc = "back" /\ z.rec = s.rec /\ z.level = s.level + 1
    <3>1. z.level > s.level
      BY <1>2, <2>2, LevelRange
    <3>2. z.rec \in DOMAIN work[t]
      BY <1>3, <1>4 DEF Adding, Linking
    <3> QED BY <1>2, <2>2, <3>1, <3>2 DEF Untouched, Linking
  <2> QED BY <1>1, <1>4, <2>1, <2>2 DEF Moves, Unlinked, Searching
<1> QED BY <1>1, <1>4, LevelsGrow

LEMMA NewNodeMoves ==
  ASSUME IList, NEW t \in Threads, NewNode(t), thread'[t].pc # "arenaFull"
  PROVE  /\ work' = work /\ \A u \in Threads \ {t} : thread'[u] = thread[u]
         /\ thread[t].pc = "alloc" /\ thread'[t].pc = "link" /\ thread'[t].rec = thread[t].rec
         /\ Grown
<1> PICK s : s = thread[t]
  OBVIOUS
<1> PICK z : z = thread'[t]
  OBVIOUS
<1>0. s \in ThreadType /\ thread \in [Threads -> ThreadType]
  BY DEF IList, IType
<1>1. PICK tall \in Levels :
        LET a == Alloc(arenaSize, tall)
        IN  /\ At(t, "alloc")
            /\ Go(t, IF a.ok THEN LinkLevel(t, [thread[t] EXCEPT !.tall = tall, !.moved = FALSE], 1)
                     ELSE Failed(thread[t], "arenaFull"))
            /\ UNCHANGED <<work, next, prev>>
  BY DEF NewNode
<1>2. work' = work /\ next' = next /\ s.pc = "alloc" /\ \A u \in Threads \ {t} : thread'[u] = thread[u]
  BY <1>0, <1>1 DEF Go, At
<1>3. z = LinkLevel(t, [s EXCEPT !.tall = tall, !.moved = FALSE], 1)
  <2>1. Failed(s, "arenaFull").pc = "arenaFull"
    BY <1>0 DEF Failed, ThreadType
  <2> QED BY <1>0, <1>1, <2>1 DEF Go
<1>4. z.pc = "link" /\ z.rec = s.rec /\ z.level = 1
  BY <1>0, <1>3 DEF LinkLevel, ThreadType
<1>5. s.rec \in DOMAIN work[t]
  BY <1>2 DEF IList, IType, Adding, Searching
<1>6. Grown
  <2>1. Untouched(s, z.rec, z.level) /\ z.level \in Levels /\ z.rec \in DOMAIN work[t]
    BY <1>2, <1>4, <1>5, LevelRange DEF Untouched, Searching
  <2>2. NextKept
    BY <1>2 DEF NextKept
  <2> QED BY <1>2, <2>1, <2>2, LevelsGrow
<1> QED BY <1>2, <1>4, <1>6

-----------------------------------------------------------------------------
(* The arena does not fill up.                                             *)

LEMMA TodoIs ==
  ASSUME NEW t \in Threads, NEW j
  PROVE  NodeOf(t, j) \in Todo <=> j \in DOMAIN work[t] /\ Pending(thread[t], j)
<1>1. \A u, i : NodeOf(u, i) = NodeOf(t, j) <=> u = t /\ i = j
  BY DEF NodeOf
<1>2. NodeOf(t, j) \in Todo => j \in DOMAIN work[t] /\ Pending(thread[t], j)
  BY <1>1 DEF Todo
<1>3. j \in DOMAIN work[t] /\ Pending(thread[t], j) => NodeOf(t, j) \in Todo
  BY DEF Todo
<1> QED BY <1>2, <1>3

LEMMA TodoNodes ==
  ASSUME NEW n
  PROVE  /\ n \in Todo => \E t \in Threads : \E j \in DOMAIN work[t] : n = NodeOf(t, j)
         /\ n \in Todo' => \E t \in Threads : \E j \in DOMAIN work'[t] : n = NodeOf(t, j)
BY DEF Todo

LEMMA TodoKept ==
  ASSUME work' = work, NEW t \in Threads, \A u \in Threads \ {t} : thread'[u] = thread[u],
         \A j \in DOMAIN work[t] : Pending(thread'[t], j) <=> Pending(thread[t], j)
  PROVE  Todo' = Todo
<1>1. \A u \in Threads : \A j \in DOMAIN work[u] : Pending(thread'[u], j) <=> Pending(thread[u], j)
  OBVIOUS
<1> QED BY <1>1 DEF Todo

LEMMA ActiveFacts ==
  /\ IsFiniteSet(Active) /\ Cardinality(Active) \in Nat
  /\ \A t \in Active : Cardinality(Active) # 0
<1>1. IsFiniteSet(Active)
  BY SkipListAssumption, FS_Subset DEF Active
<1> QED BY <1>1, FS_CardinalityType, FS_EmptySet

LEMMA Multiples ==
  ASSUME NEW c \in Nat, NEW k \in Nat, NEW b \in Nat
  PROVE  /\ c * k \in Nat /\ 0 * k = 0
         /\ c # 0 => c * k >= k /\ (c - 1) * k = c * k - k
         /\ (c + b) * k = c * k + b * k
<1>1. c * k \in Nat /\ 0 * k = 0
  OBVIOUS
<1>2. (c + b) * k = c * k + b * k
  OBVIOUS
<1>3. (c - 1) * k = c * k - k
  OBVIOUS
<1>4. c # 0 => c * k >= k
  <2>1. c # 0 => (c - 1) \in Nat
    OBVIOUS
  <2>2. c # 0 => (c - 1) * k >= 0
    BY <2>1
  <2>3. c * k \in Int /\ (c - 1) * k \in Int
    OBVIOUS
  <2> QED BY <1>3, <2>2, <2>3
<1> QED BY <1>1, <1>2, <1>3, <1>4

LEMMA MultiplesOrdered ==
  ASSUME NEW c \in Nat, NEW n \in Nat, NEW d \in Nat, NEW k \in Nat, d <= c + n
  PROVE  d * k <= c * k + n * k /\ d * k \in Nat /\ c * k \in Nat /\ n * k \in Nat
<1>1. (c + n) - d \in Nat /\ c + n = d + ((c + n) - d)
  OBVIOUS
<1> PICK b \in Nat : c + n = d + b
  BY <1>1
<1>2. (c + n) * k = c * k + n * k
  BY Multiples
<1>3. (d + b) * k = d * k + b * k
  BY Multiples
<1>4. d * k \in Nat /\ b * k \in Nat /\ c * k \in Nat /\ n * k \in Nat
  BY Multiples
<1>5. d * k + b * k = c * k + n * k
  BY <1>2, <1>3
<1>6. \A v, w, y, z \in Nat : v + w = y + z => v <= y + z
  OBVIOUS
<1> QED BY <1>4, <1>5, <1>6

(* Who is about to allocate has room for the tallest node. *)
LEMMA ArenaRoom ==
  ASSUME IList, IArena, NEW t \in Threads, thread[t].pc = "alloc"
  PROVE  /\ writerRefs # 1 /\ Node(t) \in Todo /\ Cardinality(Todo) \in Nat \ {0}
         /\ arenaSize + Cardinality(Todo) * (MaxHeight + 1) <= reserved /\ reserved <= Capacity
         /\ arenaSize + MaxHeight + 1 <= Capacity
<1> PICK c : c = Cardinality(Todo)
  OBVIOUS
<1>1. writerRefs # 1
  <2>1. t \in Active
    BY DEF Active, Adding, Searching
  <2>2. writerRefs = 1 + Cardinality(Active)
    BY DEF IArena
  <2> QED BY <2>1, <2>2, ActiveFacts
<1>2. Node(t) \in Todo
  BY TodoIs DEF Node, Pending, Adding, Searching, IList, IType
<1>3. c \in Nat \ {0}
  <2>1. IsFiniteSet(Todo)
    BY DEF IArena
  <2>2. Todo # {}
    BY <1>2
  <2> QED BY <2>1, <2>2, FS_CardinalityType, FS_EmptySet
<1>4. arenaSize \in Nat /\ arenaSize + c * (MaxHeight + 1) <= reserved /\ reserved <= Capacity /\ reserved \in Nat
  BY <1>1 DEF IArena, ReservedBytes
<1>5. MaxHeight + 1 \in Nat /\ Capacity \in Nat /\ MaxHeight \in Nat
  BY SkipListAssumption
<1>6. c * (MaxHeight + 1) >= MaxHeight + 1 /\ c * (MaxHeight + 1) \in Nat
  BY <1>3, <1>5, Multiples
<1>7. arenaSize + MaxHeight + 1 <= Capacity
  BY <1>4, <1>5, <1>6
<1> QED BY <1>1, <1>2, <1>3, <1>4, <1>7

LEMMA NewNodeArena ==
  ASSUME IList, IArena, NEW t \in Threads, NewNode(t), reserved' = reserved, writerRefs' = writerRefs
  PROVE  IArena' /\ thread'[t].pc # "arenaFull"
<1> PICK s : s = thread[t]
  OBVIOUS
<1> PICK c : c = Cardinality(Todo)
  OBVIOUS
<1>0. s \in ThreadType /\ thread \in [Threads -> ThreadType] /\ arenaSize \in Nat /\ reserved \in Nat
  BY DEF IList, IType, IArena
<1>1. PICK tall \in Levels :
        LET a == Alloc(arenaSize, tall)
        IN  /\ At(t, "alloc")
            /\ arenaSize' = a.size
            /\ Go(t, IF a.ok THEN LinkLevel(t, [thread[t] EXCEPT !.tall = tall, !.moved = FALSE], 1)
                     ELSE Failed(thread[t], "arenaFull"))
  BY DEF NewNode
<1>2. /\ writerRefs # 1 /\ Node(t) \in Todo /\ c \in Nat \ {0}
      /\ arenaSize + c * (MaxHeight + 1) <= reserved /\ reserved <= Capacity
      /\ arenaSize + MaxHeight + 1 <= Capacity
  BY <1>1, ArenaRoom DEF At
<1>3. MaxHeight \in Nat /\ Capacity \in Nat /\ tall \in Int /\ 0 < tall /\ tall <= MaxHeight
  BY SkipListAssumption, LevelRange
<1>4. Alloc(arenaSize, tall).ok /\ Alloc(arenaSize, tall).size = arenaSize + tall + 1
  <2>1. arenaSize + MaxHeight + 1 <= Capacity
    BY <1>2
  <2>2. arenaSize <= Capacity /\ arenaSize + tall + 1 + (MaxHeight - tall) <= Capacity /\ ~(arenaSize > Capacity)
    BY <1>0, <1>3, <2>1
  <2> QED BY <2>2 DEF Alloc
<1>5. thread'[t].pc # "arenaFull"
  <2>1. thread'[t] = LinkLevel(t, [s EXCEPT !.tall = tall, !.moved = FALSE], 1)
    BY <1>0, <1>1, <1>4 DEF Go
  <2> QED BY <1>0, <2>1 DEF LinkLevel, ThreadType
<1>6. /\ work' = work /\ \A u \in Threads \ {t} : thread'[u] = thread[u]
      /\ s.pc = "alloc" /\ thread'[t].pc = "link" /\ thread'[t].rec = s.rec
  BY <1>5, NewNodeMoves
<1>7. Active' = Active
  BY <1>6 DEF Active, Adding, Linking, Unlinked, Searching
<1>8. Todo' = Todo \ {Node(t)}
  <2>1. \A u \in Threads : \A j \in DOMAIN work[u] : NodeOf(u, j) \in Todo' <=> Pending(thread'[u], j)
    BY <1>6 DEF Todo, NodeOf
  <2>2. \A u \in Threads : \A j \in DOMAIN work[u] : NodeOf(u, j) \in Todo <=> Pending(thread[u], j)
    BY TodoIs
  <2>3. \A u, j : NodeOf(u, j) = Node(t) <=> u = t /\ j = s.rec
    BY DEF Node, NodeOf
  <2>4. \A j : Pending(thread'[t], j) <=> Pending(s, j) /\ j # s.rec
    <3>1. s.rec \in Int
      BY <1>0 DEF ThreadType
    <3> QED BY <1>6, <3>1 DEF Pending, Adding, Linking, Unlinked, Searching
  <2>5. \A u \in Threads : \A j \in DOMAIN work[u] : NodeOf(u, j) \in Todo' <=> NodeOf(u, j) \in Todo /\ NodeOf(u, j) # Node(t)
    BY <1>6, <2>1, <2>2, <2>3, <2>4
  <2> QED BY <1>6, <2>5, TodoNodes
<1>9. IsFiniteSet(Todo') /\ Cardinality(Todo') = c - 1
  BY <1>2, <1>8, FS_RemoveElement DEF IArena
<1>10. /\ (c - 1) * (MaxHeight + 1) = c * (MaxHeight + 1) - (MaxHeight + 1) /\ c * (MaxHeight + 1) \in Nat
  BY <1>2, <1>3, Multiples
<1>11. arenaSize' + (c - 1) * (MaxHeight + 1) <= reserved
  BY <1>0, <1>1, <1>2, <1>3, <1>4, <1>10
<1>12. ReservedBytes' = reserved
  BY <1>2 DEF ReservedBytes
<1>13. writerRefs' = 1 + Cardinality(Active')
  BY <1>7 DEF IArena
<1>14. arenaSize' \in Nat /\ reserved' \in Nat
  BY <1>0, <1>1, <1>3, <1>4
<1>15. arenaSize' + Cardinality(Todo') * (MaxHeight + 1) <= ReservedBytes' /\ ReservedBytes' <= Capacity
  BY <1>2, <1>9, <1>11, <1>12
<1> QED BY <1>5, <1>9, <1>13, <1>14, <1>15 DEF IArena

LEMMA ArenaKept ==
  ASSUME IArena, Todo' = Todo, Active' = Active, arenaSize' = arenaSize, reserved' = reserved,
         writerRefs' = writerRefs
  PROVE  IArena'
BY DEF IArena, ReservedBytes

LEMMA InsertArena ==
  ASSUME IList, IArena, NEW t \in Threads, InsertStep(t), IType', reserved' = reserved, writerRefs' = writerRefs
  PROVE  IArena'
<1> PICK s : s = thread[t]
  OBVIOUS
<1> PICK z : z = thread'[t]
  OBVIOUS
<1>1. /\ work' = work /\ arenaSize' = arenaSize /\ \A u \in Threads \ {t} : thread'[u] = thread[u]
      /\ Moves(t, s, z)
  BY InsertMoves
<1>2. Active' = Active
  <2>1. s.pc \in Adding /\ z.pc \in Adding \cup {"applied"}
    BY <1>1 DEF Moves, Adding, Linking, Unlinked, Searching
  <2> QED BY <1>1, <2>1 DEF Active, Over
<1>3. s.rec \in Int /\ z.rec \in Int
  BY DEF IList, IType, ThreadType
<1>4. \A j \in DOMAIN work[t] : j \in Int /\ j <= Len(work[t])
  BY NodeFacts DEF IList, IType
<1>5. \A j \in DOMAIN work[t] : Pending(z, j) <=> Pending(s, j)
  <2>1. CASE s.pc \in {"splice"} \cup Searching /\ z.pc \in Searching /\ z.rec = s.rec
    BY <2>1 DEF Pending, Adding
  <2>2. CASE s.pc \in Unlinked /\ z.pc \in Linking /\ z.rec = s.rec
    BY <1>3, <1>4, <2>2 DEF Pending, Adding, Linking, Unlinked, Searching
  <2>3. CASE s.pc = "back" /\ z.pc = "link" /\ z.rec = s.rec
    BY <1>3, <1>4, <2>3 DEF Pending, Adding, Linking, Unlinked, Searching
  <2>4. CASE s.pc = "back" /\ z.pc = "splice" /\ z.rec = s.rec + 1
    BY <1>3, <1>4, <2>4 DEF Pending, Adding, Linking, Unlinked, Searching
  <2>5. CASE s.pc = "back" /\ z.pc = "applied" /\ z.rec = s.rec /\ s.rec = Len(work[t])
    BY <1>3, <1>4, <2>5 DEF Pending, Adding, Linking, Unlinked, Searching
  <2> QED BY <1>1, <2>1, <2>2, <2>3, <2>4, <2>5 DEF Moves
<1> QED BY <1>1, <1>2, <1>5, TodoKept, ArenaKept

(* prepare reserves what the batch may need, or leaves the batch to another memtable. *)
LEMMA PrepareArena ==
  ASSUME IList, IArena, NEW t \in Threads, Prepare(t)
  PROVE  IArena'
<1> PICK k : k = MaxHeight + 1
  OBVIOUS
<1> PICK n : n = Len(work[t])
  OBVIOUS
<1> PICK rb : rb = ReservedBytes
  OBVIOUS
<1> PICK c : c = Cardinality(Todo)
  OBVIOUS
<1>0. /\ thread[t] \in ThreadType /\ thread \in [Threads -> ThreadType] /\ work \in Works
      /\ thread[t].pc = "idle" /\ thread[t].rec = 1
  BY DEF IList, IType, Prepare, At
<1>1. n \in Nat /\ DOMAIN work[t] = 1 .. n /\ k \in Nat /\ Capacity \in Nat
  <2>1. work[t] \in Seq([list : Lists, key : Int]) /\ DOMAIN work[t] = 1 .. Len(work[t])
    BY <1>0, NodeFacts
  <2> QED BY <2>1, SkipListAssumption, LenProperties
<1>2. /\ arenaSize \in Nat /\ reserved \in Nat /\ IsFiniteSet(Todo) /\ writerRefs = 1 + Cardinality(Active)
      /\ arenaSize + c * k <= rb /\ rb <= Capacity /\ rb \in Nat
  BY DEF IArena, ReservedBytes
<1>3. c \in Nat /\ Cardinality(Active) \in Nat /\ IsFiniteSet(Active)
  BY <1>2, FS_CardinalityType, ActiveFacts
<1>4. work' = work /\ arenaSize' = arenaSize
  BY DEF Prepare
<1>5. CASE n * k <= Capacity - rb
  <2>1. /\ reserved' = rb + n * k /\ writerRefs' = writerRefs + 1
        /\ thread' = [thread EXCEPT ![t] = [thread[t] EXCEPT !.pc = "splice"]]
    BY <1>5 DEF Prepare, BatchSize, Go
  <2>2. thread'[t].pc = "splice" /\ thread'[t].rec = 1 /\ \A u \in Threads \ {t} : thread'[u] = thread[u]
    BY <1>0, <2>1 DEF ThreadType
  <2>3. Active' = Active \cup {t} /\ t \notin Active
    BY <1>0, <2>2 DEF Active, Adding, Over, Searching, Linking, Unlinked
  <2>4. Cardinality(Active') = Cardinality(Active) + 1
    BY <1>3, <2>3, FS_AddElement
  <2>5. writerRefs' = 1 + Cardinality(Active') /\ writerRefs' # 1
    BY <1>2, <1>3, <2>1, <2>4
  <2> PICK New : New = {NodeOf(t, j) : j \in 1 .. n}
    OBVIOUS
  <2>6. IsFiniteSet(New) /\ Cardinality(New) \in Nat /\ Cardinality(New) <= n
    <3> PICK f : f = [j \in 1 .. n |-> NodeOf(t, j)]
      OBVIOUS
    <3>1. f \in Surjection(1 .. n, New)
      BY DEF Surjection
    <3>2. ExistsSurjection(1 .. n, New)
      BY <3>1 DEF ExistsSurjection
    <3> QED BY <1>1, <3>2, FS_SurjCardinalityBound, FS_NatSurjection, FS_CardinalityType
  <2>7. Todo' = Todo \cup New
    <3>1. \A u \in Threads : \A j \in DOMAIN work[u] : NodeOf(u, j) \in Todo' <=> Pending(thread'[u], j)
      BY <1>4 DEF Todo, NodeOf
    <3>2. \A u \in Threads : \A j \in DOMAIN work[u] : NodeOf(u, j) \in Todo <=> Pending(thread[u], j)
      BY TodoIs
    <3>3. \A u, j : NodeOf(u, j) \in New <=> u = t /\ j \in 1 .. n
      BY DEF NodeOf
    <3>4. \A j \in 1 .. n : Pending(thread'[t], j)
      BY <2>2 DEF Pending, Adding
    <3>5. \A u \in Threads : \A j \in DOMAIN work[u] : NodeOf(u, j) \in Todo' <=> NodeOf(u, j) \in Todo \/ NodeOf(u, j) \in New
      BY <1>1, <2>2, <3>1, <3>2, <3>3, <3>4
    <3>6. \A m \in New : \E j \in DOMAIN work[t] : m = NodeOf(t, j)
      BY <1>1
    <3> QED BY <1>4, <3>5, <3>6, TodoNodes
  <2> PICK d : d = Cardinality(Todo')
    OBVIOUS
  <2>8. IsFiniteSet(Todo') /\ d \in Nat /\ d <= c + n
    <3>1. IsFiniteSet(Todo \cup New) /\ Cardinality(Todo \cup New) = c + Cardinality(New) - Cardinality(Todo \cap New)
      BY <1>2, <2>6, FS_Union
    <3>2. IsFiniteSet(Todo \cap New)
      BY <1>2, FS_Intersection
    <3>3. Cardinality(Todo \cap New) \in Nat /\ Cardinality(Todo \cup New) \in Nat
      BY <3>1, <3>2, FS_CardinalityType
    <3> QED BY <1>1, <1>3, <2>6, <2>7, <3>1, <3>3
  <2>9. d * k <= c * k + n * k /\ d * k \in Nat /\ c * k \in Nat /\ n * k \in Nat
    <3>1. n \in Nat /\ c \in Nat /\ d \in Nat /\ k \in Nat /\ d <= c + n
      BY <1>1, <1>3, <2>8
    <3> QED BY <3>1, MultiplesOrdered
  <2>10. ReservedBytes' = rb + n * k
    BY <2>1, <2>5 DEF ReservedBytes
  <2>11. rb + n * k <= Capacity /\ reserved' \in Nat
    <3> PICK nk \in Nat : nk = n * k
      BY <2>9
    <3>1. Capacity \in Nat /\ rb \in Nat /\ nk <= Capacity - rb /\ reserved' = rb + nk
      BY <1>1, <1>2, <1>5, <2>1
    <3>2. rb + nk <= Capacity /\ rb + nk \in Nat
      BY <3>1
    <3> QED BY <3>1, <3>2
  <2>12. arenaSize' + d * k <= rb + n * k
    <3>1. \A v, w, y, z, m \in Nat : m + v <= y /\ w <= v + z => m + w <= y + z
      OBVIOUS
    <3> QED BY <1>2, <1>4, <2>9, <3>1
  <2>13. arenaSize' \in Nat
    BY <1>2, <1>4
  <2> QED BY <2>5, <2>8, <2>10, <2>11, <2>12, <2>13 DEF IArena
<1>6. CASE ~(n * k <= Capacity - rb)
  <2>1. /\ reserved' = rb /\ writerRefs' = writerRefs
        /\ thread' = [thread EXCEPT ![t] = [thread[t] EXCEPT !.pc = "elsewhere"]]
    BY <1>6 DEF Prepare, BatchSize, Go
  <2>2. thread'[t].pc = "elsewhere" /\ \A u \in Threads \ {t} : thread'[u] = thread[u]
    BY <1>0, <2>1 DEF ThreadType
  <2>3. Active' = Active
    BY <1>0, <2>2 DEF Active, Adding, Over, Searching, Linking, Unlinked
  <2>4. Todo' = Todo
    <3>1. \A j : ~Pending(thread'[t], j) /\ ~Pending(thread[t], j)
      BY <1>0, <2>2 DEF Pending, Adding, Searching, Linking, Unlinked
    <3> QED BY <1>4, <2>2, <3>1, TodoKept
  <2>5. ReservedBytes' = rb
    BY <1>4, <2>1 DEF ReservedBytes
  <2> QED BY <1>2, <1>4, <2>1, <2>3, <2>4, <2>5 DEF IArena
<1> QED BY <1>5, <1>6

(* A writer whose records are added goes on. *)
LEMMA OverArena ==
  ASSUME IList, IArena, NEW t \in Threads, thread[t].pc \in Over \ {"done"}, NEW pc \in Over,
         work' = work, arenaSize' = arenaSize, reserved' = reserved,
         thread' = [thread EXCEPT ![t] = [thread[t] EXCEPT !.pc = pc]],
         writerRefs' = IF pc = "done" THEN writerRefs - 1 ELSE writerRefs
  PROVE  IArena'
<1>0. thread[t] \in ThreadType /\ thread \in [Threads -> ThreadType]
  BY DEF IList, IType
<1>1. thread'[t].pc = pc /\ \A u \in Threads \ {t} : thread'[u] = thread[u]
  BY <1>0 DEF ThreadType
<1>2. Todo' = Todo
  <2>1. \A j : ~Pending(thread'[t], j) /\ ~Pending(thread[t], j)
    BY <1>1 DEF Pending, Adding, Searching, Linking, Unlinked, Over
  <2> QED BY <1>1, <2>1, TodoKept
<1>3. t \in Active
  BY DEF Active
<1>4. CASE pc # "done"
  <2>1. Active' = Active
    BY <1>1, <1>3, <1>4 DEF Active
  <2> QED BY <1>2, <1>4, <2>1, ArenaKept
<1>5. CASE pc = "done"
  <2>1. Active' = Active \ {t}
    BY <1>1, <1>3, <1>5 DEF Active, Adding, Searching, Linking, Unlinked
  <2>2. /\ Cardinality(Active') = Cardinality(Active) - 1 /\ IsFiniteSet(Active')
        /\ Cardinality(Active) \in Nat /\ Cardinality(Active') \in Nat
    BY <1>3, <2>1, ActiveFacts, FS_RemoveElement, FS_CardinalityType
  <2>3. writerRefs' = 1 + Cardinality(Active')
    BY <1>5, <2>2 DEF IArena
  <2>4. CASE writerRefs' = 1
    <3>1. Active' = {}
      BY <2>2, <2>3, <2>4, FS_EmptySet
    <3>2. Todo = {}
      <4>1. \A u \in Threads : thread'[u].pc \notin Adding
        BY <3>1 DEF Active
      <4>2. Todo' = {}
        BY <4>1 DEF Todo, Pending
      <4> QED BY <1>2, <4>2
    <3>3. Cardinality(Todo') = 0 /\ Cardinality(Todo) = 0
      BY <1>2, <3>2, FS_EmptySet
    <3>4. 0 * (MaxHeight + 1) = 0
      BY SkipListAssumption
    <3>5. arenaSize <= ReservedBytes /\ ReservedBytes <= Capacity /\ arenaSize \in Nat /\ reserved \in Nat
      BY <3>3, <3>4 DEF IArena
    <3>6. ReservedBytes' = arenaSize
      BY <2>4 DEF ReservedBytes
    <3>7. arenaSize <= Capacity
      BY <3>5, SkipListAssumption DEF ReservedBytes
    <3>8. IsFiniteSet(Todo')
      BY <1>2 DEF IArena
    <3> QED BY <2>3, <3>3, <3>4, <3>5, <3>6, <3>7, <3>8 DEF IArena
  <2>5. CASE writerRefs' # 1
    <3>1. writerRefs # 1
      BY <1>3, ActiveFacts DEF IArena
    <3>2. ReservedBytes' = reserved /\ ReservedBytes = reserved
      BY <2>5, <3>1 DEF ReservedBytes
    <3> QED BY <1>2, <2>3, <3>2 DEF IArena
  <2> QED BY <2>4, <2>5
<1> QED BY <1>4, <1>5

-----------------------------------------------------------------------------
(* Counting the tombstones.                                                *)

LEMMA TombsFinite ==
  ASSUME work \in Works
  PROVE  /\ IsFiniteSet(AllTombs) /\ Cardinality(AllTombs) \in Nat /\ Counts = 1 .. Cardinality(AllTombs)
         /\ \A t \in Threads : IsFiniteSet(Records(t, Tombstones)) /\ Cardinality(Records(t, Tombstones)) \in Nat
<1> DEFINE M(t) == {<<t, i>> : i \in Records(t, Tombstones)}
<1>1. ASSUME NEW t \in Threads PROVE IsFiniteSet(Records(t, Tombstones)) /\ IsFiniteSet(M(t))
  <2> PICK R : R = Records(t, Tombstones)
    OBVIOUS
  <2> PICK n : n = Len(work[t])
    OBVIOUS
  <2>1. n \in Nat /\ R \in SUBSET (1 .. n)
    <3>1. work[t] \in Seq([list : Lists, key : Int]) /\ DOMAIN work[t] = 1 .. n
      BY NodeFacts
    <3> QED BY <3>1, LenProperties DEF Records
  <2>2. IsFiniteSet(1 .. n)
    BY <2>1, FS_Interval
  <2>3. IsFiniteSet(R)
    BY <2>1, <2>2, FS_Subset
  <2> PICK T : T = {<<t, i>> : i \in R}
    OBVIOUS
  <2> PICK f : f = [i \in R |-> <<t, i>>]
    OBVIOUS
  <2>4. f \in Surjection(R, T)
    BY DEF Surjection
  <2>5. IsFiniteSet(T)
    BY <2>3, <2>4, FS_Surjection
  <2> QED BY <2>3, <2>5
<1> PICK S : S = {M(t) : t \in Threads}
  OBVIOUS
<1>2. IsFiniteSet(S)
  <2> PICK f : f = [t \in Threads |-> M(t)]
    OBVIOUS
  <2>1. f \in Surjection(Threads, S)
    BY DEF Surjection
  <2> QED BY <2>1, SkipListAssumption, FS_Surjection
<1>3. \A T \in S : IsFiniteSet(T)
  BY <1>1
<1>4. IsFiniteSet(UNION S)
  BY <1>2, <1>3, FS_UNION
<1>5. AllTombs = UNION S /\ Counts = 1 .. Cardinality(AllTombs)
  BY DEF AllTombs, Counts, NodeOf
<1> QED BY <1>1, <1>4, <1>5, FS_CardinalityType

LEMMA TombNodes ==
  ASSUME work \in Works, NEW n
  PROVE  n \in AllTombs <=> \E t \in Threads : \E i \in Records(t, Tombstones) : n = NodeOf(t, i)
BY DEF AllTombs, NodeOf

LEMMA CountRange ==
  ASSUME work \in Works, ICount
  PROVE  /\ count \in Nat /\ frags \in Nat /\ IsFiniteSet(Counted)
         /\ \A c \in Int : 0 < c /\ c <= count => c \in Counts
         /\ \A c \in Counts : c \in Int /\ 0 < c
         /\ frags # 0 => frags \in Counts
<1>1. Counted \in SUBSET AllTombs
  BY DEF Counted
<1>2. IsFiniteSet(Counted) /\ Cardinality(Counted) \in Nat /\ Cardinality(Counted) <= Cardinality(AllTombs)
  BY <1>1, TombsFinite, FS_Subset, FS_CardinalityType
<1>3. count = Cardinality(Counted) /\ frags \in Nat /\ frags <= count
  BY DEF ICount
<1> QED BY <1>2, <1>3, TombsFinite

(* The tombstones that a value stands for are in their list. *)
LEMMA TombFacts ==
  ASSUME IList, ICount, NEW c, c \in Counts \cup {0}, NEW n \in TombSets[c]
  PROVE  /\ In(n, 1) /\ ListOf(n) = Tombstones /\ n \in Inner /\ c # 0
         /\ Lower(n, TailNode(Tombstones))
<1>0. work \in Works
  BY DEF IList, IType
<1>1. n \in AllTombs /\ newCount[n[1]] # 0 /\ newCount[n[1]] <= c
  BY DEF TombSets, Counted
<1>2. PICK t \in Threads : \E i \in Records(t, Tombstones) : n = NodeOf(t, i)
  BY <1>0, <1>1, TombNodes
<1>3. PICK i \in Records(t, Tombstones) : n = NodeOf(t, i)
  BY <1>2
<1>4. i \in DOMAIN work[t] /\ work[t][i].list = Tombstones /\ n[1] = t /\ n[2] = i
  BY <1>0, <1>3, RecordsAre DEF NodeOf
<1>5. CountOK(t) /\ newCount[t] \in Nat
  BY DEF ICount
<1>6. thread[t].pc \in Over /\ thread[t].rec = Len(work[t])
  BY <1>1, <1>4, <1>5 DEF CountOK, Over
<1>7. i <= thread[t].rec
  BY <1>0, <1>4, <1>6, NodeFacts
<1>8. In(n, 1)
  BY <1>3, <1>4, <1>6, <1>7, AddedIn
<1>9. n \in Inner /\ ListOf(n) = Tombstones
  BY <1>0, <1>3, <1>4, NodeFacts DEF Inner, ListOf
<1>10. c # 0
  <2>1. newCount[t] \in Nat /\ newCount[t] # 0 /\ newCount[t] <= c
    BY <1>1, <1>4, <1>5
  <2> QED BY <2>1
<1>11. Lower(n, TailNode(Tombstones))
  <2>1. Tombstones \in Lists /\ TailNode(Tombstones) \in Tails
    BY MemTableAssumption DEF Tails
  <2>2. TailNode(Tombstones) \in Nodes /\ ListOf(TailNode(Tombstones)) = Tombstones
    BY <1>0, <2>1, NodeFacts, SkipListAssumption DEF ListOf, TailNode
  <2>3. Below(n, TailNode(Tombstones))
    <3>1. IsTail(TailNode(Tombstones)) /\ ~IsTail(n)
      BY <1>4, SkipListAssumption DEF IsTail, TailNode
    <3> QED BY <3>1 DEF Below
  <2> QED BY <1>9, <2>2, <2>3 DEF Lower, Above, Inner
<1> QED BY <1>8, <1>9, <1>10, <1>11

LEMMA TombsKept ==
  ASSUME work' = work, newCount' = newCount
  PROVE  Counted' = Counted /\ Counts' = Counts /\ TombSets' = TombSets
<1>1. AllTombs' = AllTombs /\ Counts' = Counts
  BY DEF AllTombs, Counts, Records
<1>2. Counted' = Counted
  BY <1>1 DEF Counted
<1> QED BY <1>1, <1>2 DEF TombSets

LEMMA CountKept ==
  ASSUME work' = work, NEW u \in Threads, CountOK(u), thread'[u] = thread[u],
         newCount'[u] = newCount[u], old'[u] = old[u], newCount[u] \in Nat,
         count \in Nat, count' \in Nat, count <= count', frags \in Nat, frags' \in Nat, frags <= frags',
         u \in applied' => u \in applied
  PROVE  CountOK(u)'
BY DEF CountOK, Records

(* A writer that has not added all its records yet goes on. *)
LEMMA EarlyCount ==
  ASSUME IList, ICount, NEW t \in Threads, work' = work,
         \A u \in Threads \ {t} : thread'[u] = thread[u],
         thread[t].pc \in Adding \cup {"idle"}, thread'[t].pc \in Adding \cup {"elsewhere", "applied"},
         thread'[t].pc = "applied" => thread'[t].rec = Len(work[t]),
         count' = count, frags' = frags, newCount' = newCount, old' = old, applied' = applied, order' \in Seq(Threads)
  PROVE  ICount'
<1>0. count \in Nat /\ frags \in Nat /\ newCount \in [Threads -> Nat]
  BY CountRange DEF IList, IType, ICount
<1>1. \A u \in Threads : CountOK(u)
  BY DEF ICount
<1>2. \A u \in Threads \ {t} : CountOK(u)'
  BY <1>0, <1>1, CountKept
<1>3. CountOK(t)'
  <2>1. newCount[t] = 0 /\ t \notin applied
    BY <1>1 DEF CountOK, Adding, Searching, Linking, Unlinked
  <2> QED BY <1>0, <2>1 DEF CountOK, Adding, Searching, Linking, Unlinked, Over
<1>4. Counted' = Counted
  BY TombsKept
<1> QED BY <1>2, <1>3, <1>4 DEF ICount

LEMMA AddCountCount ==
  ASSUME IList, ICount, NEW t \in Threads, AddCount(t)
  PROVE  /\ ICount' /\ count <= count' /\ Counts' = Counts
         /\ \A c \in Counts \cup {0} : c <= count => TombSets'[c] = TombSets[c]
<1> PICK R : R = Records(t, Tombstones)
  OBVIOUS
<1> PICK Mine : Mine = {<<t, i>> : i \in R}
  OBVIOUS
<1>0. /\ count \in Nat /\ frags \in Nat /\ newCount \in [Threads -> Nat] /\ frags <= count /\ IsFiniteSet(Counted)
      /\ thread \in [Threads -> ThreadType] /\ work \in Works /\ count = Cardinality(Counted)
  BY CountRange DEF IList, IType, ICount
<1>1. /\ thread[t].pc = "applied" /\ R # {} /\ count' = count + Cardinality(R) /\ work' = work /\ old' = old
      /\ newCount' = [newCount EXCEPT ![t] = count'] /\ frags' = frags /\ order' = order /\ applied' = applied
      /\ thread' = [thread EXCEPT ![t] = [thread[t] EXCEPT !.pc = "load"]]
  BY DEF AddCount, At, Go
<1>2. IsFiniteSet(R) /\ Cardinality(R) \in Nat \ {0}
  BY <1>0, <1>1, TombsFinite, FS_EmptySet
<1>3. count' \in Nat /\ count < count'
  BY <1>0, <1>1, <1>2
<1>4. thread'[t].pc = "load" /\ thread'[t].rec = thread[t].rec /\ \A u \in Threads \ {t} : thread'[u] = thread[u]
  BY <1>0, <1>1 DEF ThreadType
<1>5. newCount'[t] = count' /\ newCount' \in [Threads -> Nat] /\ \A u \in Threads \ {t} : newCount'[u] = newCount[u]
  BY <1>0, <1>1, <1>3
<1>6. \A u \in Threads : CountOK(u)
  BY DEF ICount
<1>7. newCount[t] = 0 /\ thread[t].rec = Len(work[t]) /\ t \notin applied
  BY <1>1, <1>6 DEF CountOK, Over
<1>8. \A u \in Threads \ {t} : CountOK(u)'
  BY <1>0, <1>1, <1>3, <1>4, <1>5, <1>6, CountKept
<1>9. CountOK(t)'
  <2>1. newCount'[t] # 0 /\ newCount'[t] <= count' /\ t \notin applied'
    BY <1>0, <1>1, <1>3, <1>5, <1>7
  <2> QED BY <1>1, <1>4, <1>7, <2>1 DEF CountOK, Over
<1>10. AllTombs' = AllTombs /\ Counts' = Counts
  BY <1>1 DEF AllTombs, Counts, Records
<1>11. Counted' = Counted \cup Mine /\ Counted \cap Mine = {}
  <2>1. \A n : n \in AllTombs <=> \E u \in Threads : \E i \in Records(u, Tombstones) : n = NodeOf(u, i)
    BY <1>0, TombNodes
  <2>2. \A n : n \in Mine <=> n \in AllTombs /\ n[1] = t
    BY <2>1 DEF NodeOf
  <2>3. \A n \in AllTombs : n[1] \in Threads
    BY <2>1 DEF NodeOf
  <2>4. \A n : n \in Counted' <=> n \in AllTombs /\ newCount'[n[1]] # 0
    BY <1>10 DEF Counted
  <2>5. \A n : n \in Counted <=> n \in AllTombs /\ newCount[n[1]] # 0
    BY DEF Counted
  <2>6. newCount'[t] # 0
    BY <1>0, <1>3, <1>5
  <2> QED BY <1>5, <1>7, <2>2, <2>3, <2>4, <2>5, <2>6
<1>12. IsFiniteSet(Mine) /\ Cardinality(Mine) = Cardinality(R)
  <2> PICK f : f = [i \in R |-> <<t, i>>]
    OBVIOUS
  <2>1. f \in Bijection(R, Mine)
    BY DEF Bijection, Injection, Surjection, IsInjective
  <2> QED BY <1>2, <2>1, FS_Bijection DEF ExistsBijection
<1>13. Cardinality(Counted') = count'
  <2>1. Cardinality(Counted \cup Mine) = Cardinality(Counted) + Cardinality(Mine) - Cardinality(Counted \cap Mine)
    BY <1>0, <1>12, FS_Union
  <2>2. Cardinality(Counted \cap Mine) = 0
    BY <1>11, FS_EmptySet
  <2> QED BY <1>0, <1>1, <1>2, <1>11, <1>12, <2>1, <2>2
<1>14. ICount'
  <2>1. frags' \in Nat /\ old' \in [Threads -> Nat] /\ order' \in Seq(Threads) /\ applied' \subseteq Threads /\ frags' <= count'
    BY <1>0, <1>1, <1>3 DEF ICount
  <2>2. \A u \in Threads : CountOK(u)'
    BY <1>8, <1>9
  <2> QED BY <1>5, <1>13, <2>1, <2>2 DEF ICount
<1>15. ASSUME NEW c \in Counts \cup {0}, c <= count PROVE TombSets'[c] = TombSets[c]
  <2>1. c \in Int
    BY <1>0, CountRange
  <2>2. TombSets'[c] = {n \in Counted' : newCount'[n[1]] <= c} /\ TombSets[c] = {n \in Counted : newCount[n[1]] <= c}
    BY <1>10 DEF TombSets
  <2>3. \A n \in Mine : ~(newCount'[n[1]] <= c)
    BY <1>0, <1>3, <1>5, <1>15, <2>1
  <2>4. \A n \in Counted : newCount'[n[1]] = newCount[n[1]]
    <3>1. \A n \in AllTombs : n[1] \in Threads
      BY <1>0, TombNodes DEF NodeOf
    <3> QED BY <1>5, <1>7, <3>1 DEF Counted
  <2> QED BY <1>11, <2>2, <2>3, <2>4
<1> QED BY <1>0, <1>3, <1>10, <1>14, <1>15

(* invalidate, and the end of apply. *)
LEMMA CacheCount ==
  ASSUME IList, ICount, NEW t \in Threads, LoadFrags(t) \/ SwapFrags(t) \/ WriterUnref(t)
  PROVE  ICount' /\ TombSets' = TombSets /\ Counts' = Counts /\ count' = count
<1>0. /\ count \in Nat /\ frags \in Nat /\ newCount \in [Threads -> Nat] /\ frags <= count /\ old \in [Threads -> Nat]
      /\ thread \in [Threads -> ThreadType] /\ order \in Seq(Threads) /\ applied \subseteq Threads
      /\ count = Cardinality(Counted)
  BY CountRange DEF IList, IType, ICount
<1>1. \A u \in Threads : CountOK(u)
  BY DEF ICount
<1>2. work' = work /\ newCount' = newCount /\ count' = count /\ order' = order
  BY DEF LoadFrags, SwapFrags, WriterUnref
<1>3. Counted' = Counted /\ TombSets' = TombSets /\ Counts' = Counts
  BY <1>2, TombsKept
<1>4. \A u \in Threads \ {t} : thread'[u] = thread[u] /\ old'[u] = old[u] /\ (u \in applied' => u \in applied)
  BY <1>0 DEF LoadFrags, SwapFrags, WriterUnref, Go
<1>5. frags' \in Nat /\ frags <= frags' /\ frags' <= count /\ old' \in [Threads -> Nat] /\ applied' \subseteq Threads
      /\ CountOK(t)'
  <2>0. CountOK(t) /\ newCount[t] \in Nat /\ old[t] \in Nat
    BY <1>0, <1>1
  <2>1. CASE LoadFrags(t)
    <3>1. /\ thread[t].pc = "load" /\ frags' = frags /\ old' = [old EXCEPT ![t] = frags] /\ applied' = applied
          /\ thread' = [thread EXCEPT ![t] = [thread[t] EXCEPT !.pc = IF Subsumed(t) THEN "unref" ELSE "swap"]]
      BY <2>1 DEF LoadFrags, At, Go
    <3>2. thread'[t].pc = (IF Subsumed(t) THEN "unref" ELSE "swap") /\ thread'[t].rec = thread[t].rec
      BY <1>0, <3>1 DEF ThreadType
    <3>3. old' \in [Threads -> Nat] /\ old'[t] = frags
      BY <1>0, <3>1
    <3>4. thread[t].rec = Len(work[t]) /\ newCount[t] <= count /\ newCount[t] # 0 /\ t \notin applied
      BY <2>0, <3>1 DEF CountOK, Over
    <3>5. Subsumed(t) => newCount[t] <= frags
      BY <1>0, <2>0 DEF Subsumed
    <3>6. ~Subsumed(t) => frags < newCount[t]
      BY <1>0, <2>0, <3>4 DEF Subsumed
    <3>7. CountOK(t)'
      BY <1>2, <3>1, <3>2, <3>3, <3>4, <3>5, <3>6 DEF CountOK, Over
    <3> QED BY <1>0, <3>1, <3>3, <3>7
  <2>2. CASE SwapFrags(t)
    <3>1. /\ thread[t].pc = "swap" /\ frags' = (IF frags = old[t] THEN newCount[t] ELSE frags) /\ old' = old
          /\ applied' = applied
          /\ thread' = [thread EXCEPT ![t] = [thread[t] EXCEPT !.pc = IF frags = old[t] THEN "unref" ELSE "load"]]
      BY <2>2 DEF SwapFrags, At, Go
    <3>2. thread'[t].pc = (IF frags = old[t] THEN "unref" ELSE "load") /\ thread'[t].rec = thread[t].rec
      BY <1>0, <3>1 DEF ThreadType
    <3>3. /\ thread[t].rec = Len(work[t]) /\ newCount[t] <= count /\ newCount[t] # 0 /\ t \notin applied
          /\ old[t] < newCount[t]
      BY <2>0, <3>1 DEF CountOK, Over
    <3>4. frags' \in Nat /\ frags <= frags' /\ frags' <= count
      BY <1>0, <2>0, <3>1, <3>3
    <3>5. CountOK(t)'
      BY <1>2, <2>0, <3>1, <3>2, <3>3 DEF CountOK, Over
    <3> QED BY <1>0, <3>1, <3>4, <3>5
  <2>3. CASE WriterUnref(t)
    <3>1. /\ thread[t].pc \in {"unref", "applied"} /\ frags' = frags /\ old' = old /\ applied' = applied \cup {t}
          /\ thread[t].pc = "applied" => Records(t, Tombstones) = {}
          /\ thread' = [thread EXCEPT ![t] = [thread[t] EXCEPT !.pc = "done"]]
      BY <2>3 DEF WriterUnref, At, Go
    <3>2. thread'[t].pc = "done" /\ thread'[t].rec = thread[t].rec
      BY <1>0, <3>1 DEF ThreadType
    <3>3. /\ thread[t].rec = Len(work[t]) /\ newCount[t] <= count
          /\ thread[t].pc = "unref" => newCount[t] # 0 /\ newCount[t] <= frags
          /\ thread[t].pc = "applied" => newCount[t] = 0
      BY <2>0, <3>1 DEF CountOK, Over
    <3>4. newCount[t] <= frags /\ (Records(t, Tombstones) # {} => newCount[t] # 0)
      BY <1>0, <2>0, <3>1, <3>3
    <3>5. Records(t, Tombstones)' = Records(t, Tombstones)
      BY <1>2 DEF Records
    <3>6. CountOK(t)'
      BY <1>2, <3>1, <3>2, <3>3, <3>4, <3>5 DEF CountOK
    <3> QED BY <1>0, <3>1, <3>6
  <2> QED BY <2>1, <2>2, <2>3
<1>6. \A u \in Threads \ {t} : CountOK(u)'
  BY <1>0, <1>1, <1>2, <1>4, <1>5, CountKept
<1>7. \A u \in Threads : CountOK(u)'
  BY <1>5, <1>6
<1> QED BY <1>0, <1>2, <1>3, <1>5, <1>7 DEF ICount

-----------------------------------------------------------------------------
(* Readers, and the values of the cache, while others step.                *)

LEMMA ReaderKept ==
  ASSUME work' = work, Above' = Above, Nodes' = Nodes, Grown, Counts' = Counts, count \in Nat, count' \in Nat,
         count <= count', \A c \in Counts \cup {0} : c <= count => TombSets'[c] = TombSets[c],
         \A c \in Int : 0 < c /\ c <= count => c \in Counts,
         \A c \in Counts : built[c] \subseteq built'[c],
         NEW s \in ReaderType, GotOK(s), ScanOK(s), TombsOK(s)
  PROVE  s \in ReaderType' /\ GotOK(s)' /\ ScanOK(s)' /\ TombsOK(s)'
<1>1. ReaderType' = ReaderType
  BY DEF ReaderType, Inner, Pointer
<1>2. /\ \A m, n : (Lower(m, n)' <=> Lower(m, n)) /\ (LE(m, n)' <=> LE(m, n))
      /\ \A i \in Levels : \A n : (In(n, i) => In(n, i)') /\ (Present(n, i) => Present(n, i)')
  BY DEF Lower, LE, In, Present, Grown
<1>3. \A n : ListOf(n)' = ListOf(n) /\ KeyOf(n)' = KeyOf(n)
  BY DEF ListOf, KeyOf
<1>4. GotOK(s)'
  BY <1>2 DEF GotOK
<1>5. s.level \in Levels /\ 1 \in Levels /\ s.frags \in Nat
  BY LevelRange DEF ReaderType
<1>6. ScanOK(s)'
  BY <1>2, <1>3, <1>5 DEF ScanOK
<1>7. TombsOK(s)'
  <2>1. s.frags <= count => s.frags <= count' /\ TombSets'[s.frags] = TombSets[s.frags]
    BY <1>5
  <2>2. s.frags <= count /\ s.frags # 0 => built[s.frags] \subseteq built'[s.frags]
    BY <1>5
  <2>3. s.pc \in {"once", "build"} => s.mode = "tombstones" /\ s.frags # 0 /\ s.frags <= count
    BY DEF TombsOK
  <2>4. s.mode = "tombstones" => s.frags <= count
    BY DEF TombsOK
  <2> QED BY <1>2, <1>3, <1>5, <2>1, <2>2, <2>3, <2>4 DEF TombsOK
<1> QED BY <1>1, <1>4, <1>6, <1>7

LEMMA WriterStepReaders ==
  ASSUME IOnce, IReaders, work' = work, Grown, Counts' = Counts, count \in Nat, count' \in Nat,
         count <= count', \A c \in Counts \cup {0} : c <= count => TombSets'[c] = TombSets[c],
         \A c \in Int : 0 < c /\ c <= count => c \in Counts, Counts \subseteq Int,
         once' = once, built' = built, reader' = reader
  PROVE  IOnce' /\ IReaders'
<1>1. Nodes' = Nodes /\ Above' = Above
  BY OrderKept
<1>2. IOnce'
  BY <1>1 DEF IOnce
<1>4. reader' \in [Readers -> ReaderType']
  <2>1. ReaderType' = ReaderType
    BY <1>1 DEF ReaderType, Inner, Pointer
  <2> QED BY <2>1 DEF IReaders
<1>5. \A r \in Readers : ReaderOK(r)'
  <2> SUFFICES ASSUME NEW r \in Readers PROVE ReaderOK(r)'
    OBVIOUS
  <2> PICK s : s = reader[r]
    OBVIOUS
  <2>1. s \in ReaderType /\ GotOK(s) /\ ScanOK(s) /\ TombsOK(s)
    BY DEF IReaders, ReaderOK
  <2>2. GotOK(s)' /\ ScanOK(s)' /\ TombsOK(s)'
    BY <1>1, <2>1, ReaderKept
  <2>3. s = reader'[r]
    OBVIOUS
  <2> QED BY <2>2, <2>3 DEF ReaderOK
<1> QED BY <1>2, <1>4, <1>5 DEF IReaders

(* A step of reader r: it goes on to z, and values are only filled. *)
LEMMA ReaderStep ==
  ASSUME IMem, UNCHANGED <<work, next, prev, height, arenaSize, thread, reserved, writerRefs, count, frags, newCount, old,
                           order, applied>>,
         NEW r \in Readers, NEW z \in ReaderType, reader' = [reader EXCEPT ![r] = z],
         \A c \in Counts : built[c] \subseteq built'[c],
         IOnce', GotOK(z)', ScanOK(z)', TombsOK(z)'
  PROVE  IMem'
<1>0. UNCHANGED listVars
  BY DEF listVars
<1>1. IList' /\ LevelSets' = LevelSets /\ Above' = Above /\ Nodes' = Nodes
  BY <1>0, ListUnchanged DEF IMem
<1>2. Grown /\ work' = work /\ count' = count /\ newCount' = newCount
  BY <1>1 DEF Grown
<1>3. Counted' = Counted /\ Counts' = Counts /\ TombSets' = TombSets
  BY <1>2, TombsKept
<1>4. ICount'
  <2>1. \A u \in Threads : CountOK(u)' <=> CountOK(u)
    BY DEF CountOK, Records
  <2> QED BY <1>3, <2>1 DEF IMem, ICount
<1>5. IArena'
  <2>1. Todo' = Todo /\ Active' = Active
    BY DEF Todo, Active
  <2> QED BY <2>1, ArenaKept DEF IMem
<1>6. count \in Nat /\ \A c \in Int : 0 < c /\ c <= count => c \in Counts
  BY CountRange DEF IMem, IList, IType
<1>7. ReaderType' = ReaderType
  BY <1>1 DEF ReaderType, Inner, Pointer
<1>8. reader' \in [Readers -> ReaderType'] /\ reader'[r] = z /\ \A q \in Readers \ {r} : reader'[q] = reader[q]
  BY <1>7 DEF IMem, IReaders
<1>9. ASSUME NEW q \in Readers \ {r} PROVE ReaderOK(q)'
  <2> PICK s : s = reader[q]
    OBVIOUS
  <2>1. s \in ReaderType /\ GotOK(s) /\ ScanOK(s) /\ TombsOK(s)
    BY DEF IMem, IReaders, ReaderOK
  <2>2. \A c \in Counts \cup {0} : c <= count => TombSets'[c] = TombSets[c]
    BY <1>3
  <2>3. count' \in Nat /\ count <= count'
    BY <1>2, <1>6
  <2>4. GotOK(s)' /\ ScanOK(s)' /\ TombsOK(s)'
    BY <1>1, <1>2, <1>3, <1>6, <2>1, <2>2, <2>3, ReaderKept
  <2>5. s = reader'[q]
    BY <1>8
  <2> QED BY <2>4, <2>5 DEF ReaderOK
<1>10. ReaderOK(r)'
  BY <1>8 DEF ReaderOK
<1>11. IReaders'
  BY <1>8, <1>9, <1>10 DEF IReaders
<1> QED BY <1>1, <1>4, <1>5, <1>11 DEF IMem

-----------------------------------------------------------------------------
(* What a reader meets on its way.                                         *)

LEMMA ListsAre == Points \in Lists /\ Tombstones \in Lists /\ Points \in Int /\ Tombstones \in Int
BY MemTableAssumption DEF Points, Tombstones

LEMMA BelowTail ==
  ASSUME work \in Works, NEW n \in Nodes, n \notin Tails, NEW l \in Lists, ListOf(n) = l
  PROVE  Lower(n, TailNode(l)) /\ TailNode(l) \in Tails
<1>1. TailNode(l) \in Tails
  BY DEF Tails
<1>2. TailNode(l) \in Nodes /\ ListOf(TailNode(l)) = l
  BY <1>1, NodeFacts, SkipListAssumption DEF ListOf, TailNode
<1>3. IsTail(TailNode(l)) /\ ~IsTail(n)
  <2>1. n \in Heads \/ \E t \in Threads : \E i \in DOMAIN work[t] : n = NodeOf(t, i)
    BY NodeFacts
  <2>2. n[1] # -1
    BY <2>1, SkipListAssumption DEF Heads, HeadNode, NodeOf
  <2> QED BY <2>2 DEF IsTail, TailNode
<1>4. Below(n, TailNode(l))
  BY <1>3 DEF Below
<1> QED BY <1>1, <1>2, <1>4 DEF Lower, Above

LEMMA EndsAre ==
  ASSUME work \in Works, NEW n \in Nodes, NEW l \in Lists, ListOf(n) = l
  PROVE  (n \in Heads => n = HeadNode(l)) /\ (n \in Tails => n = TailNode(l))
BY SkipListAssumption DEF Heads, Tails, ListOf, HeadNode, TailNode

LEMMA KeyOrder ==
  ASSUME work \in Works, NEW m \in Inner, NEW n \in Inner
  PROVE  KeyOf(m) \in Int /\ KeyOf(n) \in Int /\ (Lower(m, n) => KeyOf(m) < KeyOf(n))
<1>1. m \in Nodes /\ n \in Nodes /\ m \notin Heads /\ m \notin Tails /\ n \notin Heads /\ n \notin Tails
  BY DEF Inner
<1>2. Rank(m) = 1 /\ Rank(n) = 1
  BY <1>1, BelowFacts
<1> QED BY <1>1, <1>2, BelowFacts DEF Lower, Above

LEMMA SameList ==
  ASSUME NEW m, NEW n, Lower(m, n)
  PROVE  ListOf(m) = ListOf(n) /\ m \in Nodes /\ n \in Nodes
BY DEF Lower, Above

LEMMA NextUp ==
  ASSUME IList, NEW i \in Levels, NEW p, In(p, i), NEW n, n = next[p][i]
  PROVE  /\ Lower(p, n) /\ Present(n, i) /\ n \in Nodes /\ n \notin Heads /\ ListOf(n) = ListOf(p)
         /\ \A m : In(m, i) /\ LE(m, n) => m = n \/ LE(m, p)
<1>1. work \in Works /\ p \in Nodes /\ \A m : In(m, i) => m \in Nodes
  BY LevelFacts DEF IList, IType, IWorld
<1>2. Lower(p, n) /\ Present(n, i) /\ \A m \in Nodes : In(m, i) => ~(Lower(p, m) /\ Lower(m, n))
  BY <1>1, Adjacent DEF IList, IWorld
<1>3. n \in Nodes /\ n \notin Heads /\ ListOf(n) = ListOf(p)
  BY <1>1, <1>2, LowerFacts, SameList
<1>4. ASSUME NEW m, In(m, i), LE(m, n), m # n PROVE LE(m, p)
  BY <1>1, <1>2, <1>4, LowerFacts DEF LE
<1> QED BY <1>2, <1>3, <1>4

LEMMA VisibleFacts ==
  ASSUME IMem, NEW l \in Lists, NEW n \in Visible(l)
  PROVE  /\ In(n, 1) /\ ListOf(n) = l /\ n \in Inner
         /\ l = Tombstones => frags # 0 /\ n \in TombSets[frags]
<1>0. work \in Works /\ IList /\ ICount
  BY DEF IMem, IList, IType
<1>1. PICK t \in Published : \E i \in Records(t, l) : n = NodeOf(t, i)
  BY DEF Visible
<1>2. PICK i \in Records(t, l) : n = NodeOf(t, i)
  BY <1>1
<1>3. t \in applied /\ t \in Threads
  <2>1. order \in Seq(Threads) /\ applied \subseteq Threads
    BY <1>0 DEF ICount
  <2>2. PICK j \in DOMAIN order : t = order[j] /\ \A k \in 1 .. j : order[k] \in applied
    BY DEF Published
  <2>3. j \in 1 .. j
    BY <2>1, <2>2
  <2> QED BY <2>1, <2>2, <2>3
<1>4. CountOK(t) /\ newCount \in [Threads -> Nat] /\ frags \in Nat
  BY <1>0, <1>3 DEF ICount
<1>5. thread[t].pc = "done" /\ thread[t].rec = Len(work[t])
  BY <1>3, <1>4 DEF CountOK, Over
<1>6. i \in DOMAIN work[t] /\ work[t][i].list = l
  BY <1>0, <1>3, RecordsAre
<1>7. i <= thread[t].rec
  BY <1>0, <1>3, <1>5, <1>6, NodeFacts
<1>8. In(n, 1)
  BY <1>0, <1>2, <1>3, <1>5, <1>6, <1>7, AddedIn DEF Over
<1>9. ListOf(n) = l /\ n \in Inner
  BY <1>0, <1>2, <1>3, <1>6, NodeFacts DEF ListOf, NodeOf, Inner
<1>10. ASSUME l = Tombstones PROVE frags # 0 /\ n \in TombSets[frags]
  <2>1. newCount[t] \in Nat /\ newCount[t] # 0 /\ newCount[t] <= frags
    BY <1>2, <1>3, <1>4, <1>5, <1>10 DEF CountOK
  <2>2. frags # 0 /\ frags \in Counts
    BY <1>0, <1>4, <2>1, CountRange
  <2>3. n \in AllTombs /\ n[1] = t
    BY <1>0, <1>2, <1>3, <1>10, TombNodes DEF NodeOf
  <2> QED BY <2>1, <2>2, <2>3 DEF TombSets, Counted
<1> QED BY <1>8, <1>9, <1>10

ReaderOnly == UNCHANGED <<work, next, prev, height, arenaSize, thread, reserved, writerRefs, count, frags, newCount, old,
                          order, applied>>

LEMMA ReaderQuiet ==
  ASSUME IMem, ReaderOnly, NEW r \in Readers, NEW z \in ReaderType, reader' = [reader EXCEPT ![r] = z],
         built' = built, once' = once \/ \E c \in Counts : once' = [once EXCEPT ![c] = "busy"],
         GotOK(z), ScanOK(z), TombsOK(z)
  PROVE  IMem'
<1>0. UNCHANGED listVars /\ work' = work /\ newCount' = newCount /\ count' = count
  BY DEF listVars, ReaderOnly
<1>1. LevelSets' = LevelSets /\ Above' = Above /\ Nodes' = Nodes
  BY <1>0, ListUnchanged DEF IMem
<1>2. Counts' = Counts /\ TombSets' = TombSets
  BY <1>0, TombsKept
<1>3. count \in Nat /\ \A c \in Int : 0 < c /\ c <= count => c \in Counts
  BY CountRange DEF IMem, IList, IType
<1>4. Grown /\ count' \in Nat /\ count <= count'
  BY <1>0, <1>1, <1>3 DEF Grown
<1>5. GotOK(z)' /\ ScanOK(z)' /\ TombsOK(z)'
  <2>1. \A c \in Counts \cup {0} : c <= count => TombSets'[c] = TombSets[c]
    BY <1>2
  <2>2. \A c \in Counts : built[c] \subseteq built'[c]
    OBVIOUS
  <2> QED BY <1>0, <1>1, <1>2, <1>3, <1>4, <2>1, <2>2, ReaderKept
<1>6. IOnce'
  <2>1. \A c \in Counts : once'[c] = "done" => once[c] = "done"
    BY DEF IMem, IOnce
  <2>2. once' \in [Counts -> {"new", "busy", "done"}]
    BY DEF IMem, IOnce
  <2> QED BY <1>0, <1>1, <1>2, <2>1, <2>2 DEF IMem, IOnce
<1>7. \A c \in Counts : built[c] \subseteq built'[c]
  OBVIOUS
<1> QED BY <1>5, <1>6, <1>7, ReaderStep DEF ReaderOnly

-----------------------------------------------------------------------------
(* Scans of the points.                                                    *)

Longer(s, n) == [s EXCEPT !.at = n, !.got = Append(@, n)]

LEMMA GotAppend ==
  ASSUME NEW s \in ReaderType, NEW n \in Inner, GotOK(s), s.pc = "step", s.mode \in {"forward", "backward"},
         s.mode = "forward" => Lower(s.at, n), s.mode = "backward" => Lower(n, s.at),
         NEW z, z = Longer(s, n)
  PROVE  /\ z \in ReaderType /\ GotOK(z) /\ Got(z) = Got(s) \cup {n}
         /\ z.pc = s.pc /\ z.mode = s.mode /\ z.at = n /\ z.must = s.must
<1> PICK g : g = s.got
  OBVIOUS
<1> PICK h : h = Append(g, n)
  OBVIOUS
<1>1. g \in Seq(Inner)
  BY DEF ReaderType
<1>2. /\ h \in Seq(Inner) /\ h # <<>> /\ Len(h) = Len(g) + 1 /\ h[Len(g) + 1] = n
      /\ \A i \in 1 .. Len(g) : h[i] = g[i]
  BY <1>1, AppendProperties
<1>3. Len(g) \in Nat /\ DOMAIN g = 1 .. Len(g) /\ DOMAIN h = 1 .. (Len(g) + 1)
  BY <1>1, <1>2, LenProperties
<1>4. /\ z \in ReaderType /\ z.got = h /\ z.at = n /\ z.pc = s.pc /\ z.mode = s.mode /\ z.must = s.must
  <2>1. n \in Pointer
    BY DEF Inner, Pointer
  <2> QED BY <1>2, <2>1 DEF ReaderType, Longer
<1>5. Got(z) = Got(s) \cup {n}
  <2>1. \A x : x \in Got(z) <=> \E i \in 1 .. (Len(g) + 1) : x = h[i]
    BY <1>3, <1>4 DEF Got
  <2>2. \A x : x \in Got(s) <=> \E i \in 1 .. Len(g) : x = g[i]
    BY <1>3 DEF Got
  <2>3. Len(g) + 1 \in 1 .. (Len(g) + 1) /\ \A i \in 1 .. (Len(g) + 1) : i \in 1 .. Len(g) \/ i = Len(g) + 1
    BY <1>3
  <2>4. \A i \in 1 .. Len(g) : i \in 1 .. (Len(g) + 1)
    BY <1>3
  <2> QED BY <1>2, <2>1, <2>2, <2>3, <2>4
<1>6. ASSUME NEW i \in 1 .. (Len(h) - 1)
      PROVE  (s.mode = "forward" => Lower(h[i], h[i + 1])) /\ (s.mode # "forward" => Lower(h[i + 1], h[i]))
  <2>1. CASE i = Len(g)
    <3>1. g # <<>> /\ h[i] = g[Len(g)] /\ h[i + 1] = n /\ i \in 1 .. Len(g)
      BY <1>1, <1>2, <1>3, <2>1
    <3>2. g[Len(g)] = s.at
      BY <3>1 DEF GotOK
    <3> QED BY <3>1, <3>2
  <2>2. CASE i # Len(g)
    <3>1. i \in 1 .. (Len(g) - 1) /\ i \in 1 .. Len(g) /\ i + 1 \in 1 .. Len(g)
      BY <1>2, <1>3, <2>2
    <3>2. h[i] = g[i] /\ h[i + 1] = g[i + 1]
      BY <1>2, <3>1
    <3> QED BY <3>1, <3>2 DEF GotOK
  <2> QED BY <2>1, <2>2
<1>7. GotOK(z)
  <2>1. z.got[Len(z.got)] = z.at
    BY <1>2, <1>4
  <2> QED BY <1>4, <1>6, <2>1 DEF GotOK
<1> QED BY <1>4, <1>5, <1>7

LEMMA NothingGot ==
  ASSUME NEW z, z.got = <<>>, z.pc \notin {"once", "build"}, z.mode # "tombstones"
  PROVE  GotOK(z) /\ TombsOK(z)
BY DEF GotOK, TombsOK

LEMMA ReaderFacts ==
  ASSUME IMem, NEW r \in Readers
  PROVE  /\ work \in Works /\ IList /\ reader \in [Readers -> ReaderType]
         /\ reader[r] \in ReaderType /\ GotOK(reader[r]) /\ ScanOK(reader[r]) /\ TombsOK(reader[r])
BY DEF IMem, IList, IType, IReaders, ReaderOK

LEMMA StepKeeps ==
  ASSUME IMem, NEW r \in Readers, Step(r)
  PROVE  IMem'
<1> PICK s : s = reader[r]
  OBVIOUS
<1> PICK n : n = StepNode(s)
  OBVIOUS
<1>0. /\ work \in Works /\ IList /\ s \in ReaderType /\ GotOK(s) /\ ScanOK(s) /\ TombsOK(s)
  BY ReaderFacts
<1>1. s.pc = "step" /\ once' = once /\ built' = built /\ ReaderOnly
  BY DEF Step, ReaderAt, Move, ReaderOnly
<1>2. reader' = [reader EXCEPT ![r] = IF n \in {HeadNode(Points), TailNode(Points)} THEN [s EXCEPT !.pc = "done"]
                                      ELSE [s EXCEPT !.at = n, !.got = Append(@, n)]]
  BY DEF Step, Move
<1>3. s.mode \in {"forward", "backward"} /\ ListOf(s.at) = Points
  BY <1>0, <1>1 DEF ScanOK
<1>4. s.mode = "forward" => /\ In(s.at, 1) /\ Lower(s.at, n) /\ Present(n, 1) /\ n \notin Heads
                            /\ n \in Nodes /\ ListOf(n) = Points
                            /\ \A m : In(m, 1) /\ LE(m, n) => m = n \/ LE(m, s.at)
  <2> SUFFICES ASSUME s.mode = "forward" PROVE /\ In(s.at, 1) /\ Lower(s.at, n) /\ Present(n, 1) /\ n \notin Heads
                            /\ n \in Nodes /\ ListOf(n) = Points
                            /\ \A m : In(m, 1) /\ LE(m, n) => m = n \/ LE(m, s.at)
    OBVIOUS
  <2>1. In(s.at, 1) /\ n = next[s.at][1]
    BY <1>0, <1>1 DEF ScanOK, StepNode
  <2> QED BY <1>0, <1>3, <2>1, NextUp, LevelRange
<1>5. s.mode = "backward" => /\ In(n, 1) /\ Lower(n, s.at) /\ n \in Nodes /\ n \notin Tails /\ ListOf(n) = Points
  <2> SUFFICES ASSUME s.mode = "backward"
               PROVE In(n, 1) /\ Lower(n, s.at) /\ n \in Nodes /\ n \notin Tails /\ ListOf(n) = Points
    OBVIOUS
  <2>1. Present(s.at, 1) /\ s.at \notin Heads /\ n = prev[s.at][1]
    BY <1>0, <1>1 DEF ScanOK, StepNode
  <2>2. s.at \in Nodes /\ 1 \in Levels
    BY <1>0, <2>1, LevelFacts, LevelRange DEF IList, IWorld
  <2>3. In(n, 1) /\ Lower(n, s.at)
    BY <1>0, <2>1, <2>2 DEF IList, IWorld, IPrev
  <2> QED BY <1>0, <1>3, <2>2, <2>3, LevelFacts, SameList DEF IList, IWorld
<1>6. CASE n \in {HeadNode(Points), TailNode(Points)}
  <2> PICK z : z = [s EXCEPT !.pc = "done"]
    OBVIOUS
  <2>1. /\ z \in ReaderType /\ z.pc = "done" /\ z.mode = s.mode /\ z.must = s.must /\ z.got = s.got /\ z.frags = s.frags
    BY <1>0 DEF ReaderType
  <2>2. GotOK(z)
    BY <1>0, <2>1 DEF GotOK
  <2>3. Got(z) = Got(s)
    BY <2>1 DEF Got
  <2>4. ASSUME s.mode = "forward", NEW m \in s.must PROVE m \in Got(s)
    <3>1. In(m, 1) /\ ListOf(m) = Points /\ m \in Inner
      BY <1>0, <2>4 DEF ScanOK, ReaderType
    <3>2. n = TailNode(Points)
      <4>1. HeadNode(Points) \in Heads
        BY ListsAre DEF Heads
      <4> QED BY <1>4, <1>6, <2>4, <4>1
    <3>3. Lower(m, n) /\ m # n
      BY <1>0, <3>1, <3>2, BelowTail, ListsAre DEF Inner
    <3>4. LE(m, s.at)
      BY <1>4, <2>4, <3>1, <3>3 DEF LE
    <3> QED BY <1>0, <1>1, <2>4, <3>4 DEF ScanOK
  <2>5. ScanOK(z)
    BY <1>0, <2>1, <2>3, <2>4 DEF ScanOK
  <2>6. TombsOK(z)
    BY <1>3, <2>1 DEF TombsOK
  <2>7. reader' = [reader EXCEPT ![r] = z]
    BY <1>2, <1>6
  <2> QED BY <1>1, <2>1, <2>2, <2>5, <2>6, <2>7, ReaderQuiet
<1>7. CASE n \notin {HeadNode(Points), TailNode(Points)}
  <2> PICK z : z = [s EXCEPT !.at = n, !.got = Append(@, n)]
    OBVIOUS
  <2>1. n \in Inner /\ In(n, 1) /\ Present(n, 1) /\ ListOf(n) = Points
    <3>1. n \in Nodes /\ ListOf(n) = Points
      BY <1>3, <1>4, <1>5
    <3>2. n \notin Heads /\ n \notin Tails
      BY <1>0, <1>7, <3>1, EndsAre, ListsAre
    <3> QED BY <1>3, <1>4, <1>5, <3>1, <3>2 DEF Inner, Present
  <2>2. /\ z \in ReaderType /\ GotOK(z) /\ Got(z) = Got(s) \cup {n}
        /\ z.pc = s.pc /\ z.mode = s.mode /\ z.at = n /\ z.must = s.must
    <3>1. (s.mode = "forward" => Lower(s.at, n)) /\ (s.mode = "backward" => Lower(n, s.at))
      BY <1>4, <1>5
    <3>2. s.pc = "step" /\ s \in ReaderType /\ GotOK(s) /\ n \in Inner /\ s.mode \in {"forward", "backward"}
      BY <1>0, <1>1, <1>3, <2>1
    <3>3. z = Longer(s, n)
      BY DEF Longer
    <3> QED BY <3>1, <3>2, <3>3, GotAppend
  <2>3. ScanOK(z)
    <3>1. \A m \in z.must : z.mode = "forward" => In(m, 1) /\ ListOf(m) = Points
      BY <1>0, <2>2 DEF ScanOK
    <3>2. ASSUME z.mode = "forward", NEW m \in z.must, LE(m, n) PROVE m \in Got(z)
      <4>1. m = n \/ LE(m, s.at)
        BY <1>4, <2>2, <3>1, <3>2
      <4>2. LE(m, s.at) => m \in Got(s)
        BY <1>0, <1>1, <2>2, <3>2 DEF ScanOK
      <4> QED BY <2>2, <4>1, <4>2
    <3>3. n \notin Heads
      BY <2>1 DEF Inner
    <3> QED BY <1>1, <1>3, <2>1, <2>2, <3>1, <3>2, <3>3 DEF ScanOK
  <2>4. TombsOK(z)
    BY <1>1, <1>3, <2>2 DEF TombsOK
  <2>5. reader' = [reader EXCEPT ![r] = z]
    BY <1>2, <1>7
  <2> QED BY <1>1, <2>2, <2>3, <2>4, <2>5, ReaderQuiet
<1> QED BY <1>6, <1>7

(* A reader that begins, or is done with what it did. *)
LEMMA FreshReader ==
  ASSUME IMem, NEW mode, mode \in {"none", "forward", "backward", "tombstones"}, NEW must, must \in SUBSET Inner,
         NEW z, z = Fresh(mode, must)
  PROVE  /\ z \in ReaderType /\ z.pc = "idle" /\ z.mode = mode /\ z.must = must /\ z.got = <<>> /\ z.frags = 0
         /\ z.at = Nil /\ z.level = 1 /\ z.seek = NoKey
<1>1. <<>> \in Seq(Inner) /\ Nil \in Pointer /\ 1 \in Levels /\ NoKey \in Int
  BY LevelRange DEF Pointer, NoKey
<1> QED BY <1>1 DEF Fresh, NewReader, ReaderType

LEMMA FinishKeeps ==
  ASSUME IMem, NEW r \in Readers, Finish(r)
  PROVE  IMem'
<1> PICK z : z = Fresh("none", {})
  OBVIOUS
<1>0. z = NewReader
  BY DEF Fresh, NewReader
<1>1. z \in ReaderType /\ z.pc = "idle" /\ z.mode = "none" /\ z.must = {} /\ z.got = <<>>
  BY FreshReader
<1>2. GotOK(z) /\ ScanOK(z) /\ TombsOK(z)
  BY <1>1 DEF GotOK, ScanOK, TombsOK
<1>3. once' = once /\ built' = built /\ ReaderOnly /\ reader' = [reader EXCEPT ![r] = z]
  BY <1>0 DEF Finish, Move, ReaderOnly
<1> QED BY <1>1, <1>2, <1>3, ReaderQuiet

LEMMA StartScanKeeps ==
  ASSUME IMem, NEW r \in Readers, StartScan(r)
  PROVE  IMem'
<1>0. work \in Works /\ IList
  BY ReaderFacts
<1>1. PICK mode \in {s[1] : s \in {x \in Scans : x[2] = NoKey}} :
        /\ ReaderAt(r, "idle") /\ UNCHANGED <<once, built>>
        /\ Move(r, [Fresh(mode, Visible(Points)) EXCEPT !.pc = "step", !.at = End(mode)])
  BY DEF StartScan
<1>2. mode \in {"forward", "backward"}
  BY MemTableAssumption
<1>3. \A m \in Visible(Points) : In(m, 1) /\ ListOf(m) = Points /\ m \in Inner
  BY VisibleFacts, ListsAre
<1> PICK must : must = Visible(Points)
  OBVIOUS
<1> PICK f : f = Fresh(mode, must)
  OBVIOUS
<1> PICK e : e = End(mode)
  OBVIOUS
<1> PICK z : z = [f EXCEPT !.pc = "step", !.at = e]
  OBVIOUS
<1>4. f \in ReaderType /\ f.mode = mode /\ f.must = must /\ f.got = <<>> /\ f.frags = 0
  BY <1>2, <1>3, FreshReader
<1>5. e \in Nodes /\ ListOf(e) = Points /\ (mode = "forward" => e \in Heads) /\ (mode = "backward" => e \in Tails)
  <2>1. HeadNode(Points) \in Heads /\ TailNode(Points) \in Tails
    BY ListsAre DEF Heads, Tails
  <2>2. ListOf(HeadNode(Points)) = Points /\ ListOf(TailNode(Points)) = Points
    BY SkipListAssumption DEF ListOf, HeadNode, TailNode
  <2> QED BY <1>0, <1>2, <2>1, <2>2, NodeFacts DEF End
<1>6. z \in ReaderType /\ z.pc = "step" /\ z.at = e /\ z.mode = mode /\ z.must = must /\ z.got = <<>>
  BY <1>4, <1>5 DEF ReaderType, Pointer
<1>7. GotOK(z) /\ TombsOK(z)
  BY <1>2, <1>6 DEF GotOK, TombsOK
<1>8. ScanOK(z)
  <2>1. mode = "forward" => In(e, 1) /\ \A m : ~Lower(m, e)
    BY <1>0, <1>5, LevelFacts, LowerFacts, LevelRange DEF IList, IWorld
  <2>2. mode = "forward" => \A m \in must : ~LE(m, e)
    BY <1>3, <1>5, <2>1 DEF LE, Inner
  <2>3. mode = "backward" => Present(e, 1) /\ e \notin Heads
    BY <1>0, <1>5, NodeFacts DEF Present
  <2> QED BY <1>2, <1>3, <1>5, <1>6, <2>1, <2>2, <2>3 DEF ScanOK
<1>9. once' = once /\ built' = built /\ ReaderOnly /\ reader' = [reader EXCEPT ![r] = z]
  BY <1>1 DEF Move, ReaderOnly
<1> QED BY <1>6, <1>7, <1>8, <1>9, ReaderQuiet

LEMMA StartSeekKeeps ==
  ASSUME IMem, NEW r \in Readers, StartSeek(r)
  PROVE  IMem'
<1>0. work \in Works /\ IList
  BY ReaderFacts
<1>1. PICK x \in Scans : UNCHANGED <<once, built>> /\
        Move(r, [Fresh(x[1], {n \in Visible(Points) : (KeyOf(n) > x[2]) <=> (x[1] = "forward")})
                 EXCEPT !.pc = "seek", !.seek = x[2], !.at = HeadNode(Points), !.level = height[Points]])
  BY DEF StartSeek
<1> PICK mode : mode = x[1]
  OBVIOUS
<1> PICK k : k = x[2]
  OBVIOUS
<1>2. mode \in {"forward", "backward"} /\ k \in Int
  BY MemTableAssumption
<1> PICK must : must = {n \in Visible(Points) : (KeyOf(n) > k) <=> (mode = "forward")}
  OBVIOUS
<1>3. \A m \in must : In(m, 1) /\ ListOf(m) = Points /\ m \in Inner /\ (mode = "forward" => KeyOf(m) > k)
  BY VisibleFacts, ListsAre
<1> PICK f : f = Fresh(mode, must)
  OBVIOUS
<1> PICK e : e = HeadNode(Points)
  OBVIOUS
<1> PICK i : i = height[Points]
  OBVIOUS
<1> PICK z : z = [f EXCEPT !.pc = "seek", !.seek = k, !.at = e, !.level = i]
  OBVIOUS
<1>4. f \in ReaderType /\ f.mode = mode /\ f.must = must /\ f.got = <<>> /\ f.frags = 0
  BY <1>2, <1>3, FreshReader
<1>5. e \in Nodes /\ ListOf(e) = Points /\ e \in Heads
  <2>1. HeadNode(Points) \in Heads
    BY ListsAre DEF Heads
  <2>2. ListOf(HeadNode(Points)) = Points
    BY SkipListAssumption DEF ListOf, HeadNode
  <2> QED BY <1>0, <2>1, <2>2, NodeFacts
<1>6. i \in Levels /\ In(e, i)
  BY <1>0, <1>5, LevelFacts, ListsAre DEF IList, IWorld, IType
<1>7. /\ z \in ReaderType /\ z.pc = "seek" /\ z.at = e /\ z.mode = mode /\ z.must = must /\ z.got = <<>>
      /\ z.seek = k /\ z.level = i
  BY <1>2, <1>4, <1>5, <1>6 DEF ReaderType, Pointer
<1>8. GotOK(z) /\ TombsOK(z)
  BY <1>2, <1>7, NothingGot
<1>9. ScanOK(z)
  BY <1>2, <1>3, <1>5, <1>6, <1>7 DEF ScanOK
<1>10. once' = once /\ built' = built /\ ReaderOnly /\ reader' = [reader EXCEPT ![r] = z]
  BY <1>1 DEF Move, ReaderOnly
<1> QED BY <1>7, <1>8, <1>9, <1>10, ReaderQuiet

LEMMA SeekKeeps ==
  ASSUME IMem, NEW r \in Readers, Seek(r)
  PROVE  IMem'
<1> PICK s : s = reader[r]
  OBVIOUS
<1> PICK i : i = s.level
  OBVIOUS
<1> PICK p : p = s.at
  OBVIOUS
<1> PICK n : n = next[p][i]
  OBVIOUS
<1> PICK land : land = IF s.mode = "forward" THEN n ELSE p
  OBVIOUS
<1>0. /\ work \in Works /\ IList /\ s \in ReaderType /\ GotOK(s) /\ ScanOK(s) /\ TombsOK(s)
  BY ReaderFacts
<1>1. s.pc = "seek" /\ once' = once /\ built' = built /\ ReaderOnly
  BY DEF Seek, ReaderAt, Move, ReaderOnly
<1>2. reader' = [reader EXCEPT ![r] =
                   IF n # TailNode(Points) /\ KeyOf(n) < s.seek THEN [s EXCEPT !.at = n]
                   ELSE IF s.level > 1 THEN [s EXCEPT !.level = @ - 1]
                   ELSE IF land \in {HeadNode(Points), TailNode(Points)} THEN [s EXCEPT !.pc = "done"]
                   ELSE [s EXCEPT !.pc = "step", !.at = land, !.got = <<land>>]]
  BY DEF Seek, Move
<1>3. /\ s.mode \in {"forward", "backward"} /\ ListOf(p) = Points /\ In(p, i) /\ s.got = <<>>
      /\ p \in Heads \/ KeyOf(p) < s.seek
      /\ s.mode = "forward" => \A m \in s.must : In(m, 1) /\ ListOf(m) = Points /\ KeyOf(m) > s.seek
  BY <1>0, <1>1 DEF ScanOK
<1>4. i \in Levels /\ s.seek \in Int /\ s.must \subseteq Inner
  BY <1>0 DEF ReaderType
<1>5. /\ Lower(p, n) /\ Present(n, i) /\ n \notin Heads /\ n \in Nodes /\ ListOf(n) = Points
      /\ \A m : In(m, i) /\ LE(m, n) => m = n \/ LE(m, p)
  BY <1>0, <1>3, <1>4, NextUp
<1>6. n # TailNode(Points) => n \in Inner /\ In(n, i)
  BY <1>0, <1>5, EndsAre, ListsAre DEF Inner, Present
<1>7. p \in Nodes /\ p \notin Tails /\ (p \notin Heads => p \in Inner)
  BY <1>0, <1>3, <1>4, LevelFacts DEF Inner, IList, IWorld
<1>8. CASE n # TailNode(Points) /\ KeyOf(n) < s.seek
  <2> PICK z : z = [s EXCEPT !.at = n]
    OBVIOUS
  <2>1. /\ z \in ReaderType /\ z.pc = "seek" /\ z.mode = s.mode /\ z.must = s.must /\ z.got = <<>> /\ z.at = n
        /\ z.level = i /\ z.seek = s.seek
    BY <1>0, <1>1, <1>3, <1>5 DEF ReaderType, Pointer
  <2>2. GotOK(z) /\ TombsOK(z)
    BY <1>3, <2>1 DEF GotOK, TombsOK
  <2>3. ScanOK(z)
    BY <1>3, <1>5, <1>6, <1>8, <2>1 DEF ScanOK
  <2>4. reader' = [reader EXCEPT ![r] = z]
    BY <1>2, <1>8
  <2> QED BY <1>1, <2>1, <2>2, <2>3, <2>4, ReaderQuiet
<1>9. CASE ~(n # TailNode(Points) /\ KeyOf(n) < s.seek) /\ i > 1
  <2> PICK j : j = i - 1
    OBVIOUS
  <2> PICK z : z = [s EXCEPT !.level = j]
    OBVIOUS
  <2>0. j \in Levels /\ j < i
    BY <1>4, <1>9, LevelRange
  <2>1. /\ z \in ReaderType /\ z.pc = "seek" /\ z.mode = s.mode /\ z.must = s.must /\ z.got = <<>> /\ z.at = p
        /\ z.level = j /\ z.seek = s.seek
    BY <1>0, <1>1, <1>3, <2>0 DEF ReaderType
  <2>2. GotOK(z) /\ TombsOK(z)
    BY <1>3, <2>1 DEF GotOK, TombsOK
  <2>3. In(p, j)
    BY <1>0, <1>3, <1>4, <1>7, <2>0 DEF IList, IWorld, ITower
  <2>4. ScanOK(z)
    BY <1>3, <2>1, <2>3 DEF ScanOK
  <2>5. reader' = [reader EXCEPT ![r] = z]
    BY <1>2, <1>9
  <2> QED BY <1>1, <2>1, <2>2, <2>4, <2>5, ReaderQuiet
<1>10. CASE ~(n # TailNode(Points) /\ KeyOf(n) < s.seek) /\ ~(i > 1)
  <2>0. i = 1
    BY <1>4, <1>10, LevelRange
  (* What has to be returned is not at or below the place that was found. *)
  <2>1. ASSUME s.mode = "forward", NEW m \in s.must PROVE ~LE(m, p)
    <3> SUFFICES ASSUME LE(m, p) PROVE FALSE
      OBVIOUS
    <3>1. m \in Inner /\ KeyOf(m) > s.seek
      BY <1>3, <1>4, <2>1
    <3>2. p \notin Heads
      BY <1>0, <3>1, LowerFacts DEF LE, Inner
    <3>3. KeyOf(p) < s.seek /\ p \in Inner
      BY <1>3, <1>7, <3>2
    <3>4. KeyOf(m) \in Int /\ KeyOf(p) \in Int /\ (m = p \/ KeyOf(m) < KeyOf(p))
      BY <1>0, <3>1, <3>3, KeyOrder DEF LE
    <3> QED BY <1>4, <3>1, <3>3, <3>4
  <2>2. ASSUME s.mode = "forward", NEW m \in s.must, LE(m, n) PROVE m = n
    BY <1>3, <1>5, <2>0, <2>1, <2>2
  <2>3. CASE land \in {HeadNode(Points), TailNode(Points)}
    <3> PICK z : z = [s EXCEPT !.pc = "done"]
      OBVIOUS
    <3>1. z \in ReaderType /\ z.pc = "done" /\ z.mode = s.mode /\ z.must = s.must /\ z.got = <<>>
      BY <1>0, <1>3 DEF ReaderType
    <3>2. GotOK(z) /\ TombsOK(z)
      BY <1>3, <3>1 DEF GotOK, TombsOK
    <3>3. ASSUME s.mode = "forward", NEW m \in s.must PROVE FALSE
      <4>1. HeadNode(Points) \in Heads
        BY ListsAre DEF Heads
      <4>2. n = TailNode(Points)
        BY <1>5, <2>3, <3>3, <4>1
      <4>3. m \in Inner /\ ListOf(m) = Points
        BY <1>3, <1>4, <3>3
      <4>4. Lower(m, n) /\ n \in Tails
        BY <1>0, <4>2, <4>3, BelowTail, ListsAre DEF Inner
      <4>5. m # n
        BY <4>3, <4>4 DEF Inner
      <4> QED BY <2>2, <3>3, <4>4, <4>5 DEF LE
    <3>4. ScanOK(z)
      BY <1>3, <3>1, <3>3 DEF ScanOK
    <3>5. reader' = [reader EXCEPT ![r] = z]
      BY <1>2, <1>10, <2>3
    <3> QED BY <1>1, <3>1, <3>2, <3>4, <3>5, ReaderQuiet
  <2>4. CASE land \notin {HeadNode(Points), TailNode(Points)}
    <3> PICK z : z = [s EXCEPT !.pc = "step", !.at = land, !.got = <<land>>]
      OBVIOUS
    <3>1. land \in Inner /\ In(land, 1) /\ ListOf(land) = Points
      <4>1. CASE s.mode = "forward"
        BY <1>5, <1>6, <2>0, <2>4, <4>1
      <4>2. CASE s.mode # "forward"
        <5>1. p # HeadNode(Points)
          BY <2>4, <4>2
        <5>2. p \notin Heads
          BY <1>0, <1>3, <1>7, <5>1, EndsAre, ListsAre
        <5> QED BY <1>3, <1>7, <2>0, <4>2, <5>2
      <4> QED BY <4>1, <4>2
    <3>2. <<land>> \in Seq(Inner) /\ Len(<<land>>) = 1 /\ <<land>> # <<>> /\ <<land>>[1] = land
      BY <3>1
    <3>3. /\ z \in ReaderType /\ z.pc = "step" /\ z.mode = s.mode /\ z.must = s.must /\ z.got = <<land>> /\ z.at = land
      <4>1. land \in Pointer /\ <<land>> \in Seq(Inner)
        BY <3>1, <3>2 DEF Pointer, Inner
      <4> PICK w \in Seq(Inner) : w = <<land>>
        BY <4>1
      <4>2. z = [s EXCEPT !.pc = "step", !.at = land, !.got = w]
        OBVIOUS
      <4>3. z \in ReaderType /\ z.pc = "step" /\ z.mode = s.mode /\ z.must = s.must /\ z.got = w /\ z.at = land
        BY <1>0, <4>1, <4>2 DEF ReaderType
      <4> QED BY <4>3
    <3>4. GotOK(z) /\ TombsOK(z)
      BY <1>3, <3>2, <3>3 DEF GotOK, TombsOK
    <3>5. land \in Got(z)
      BY <3>2, <3>3 DEF Got
    <3>6. ASSUME s.mode = "forward", NEW m \in s.must, LE(m, land) PROVE m \in Got(z)
      BY <2>2, <3>5, <3>6
    <3>7. land \notin Heads /\ Present(land, 1)
      BY <3>1 DEF Inner, Present
    <3>8. ScanOK(z)
      BY <1>3, <3>1, <3>3, <3>6, <3>7 DEF ScanOK
    <3>9. reader' = [reader EXCEPT ![r] = z]
      BY <1>2, <1>10, <2>4
    <3> QED BY <1>1, <3>3, <3>4, <3>8, <3>9, ReaderQuiet
  <2> QED BY <2>3, <2>4
<1> QED BY <1>8, <1>9, <1>10

-----------------------------------------------------------------------------
(* The tombstones.                                                         *)

LEMMA LoadTombstonesKeeps ==
  ASSUME IMem, NEW r \in Readers, LoadTombstones(r)
  PROVE  IMem'
<1>0. work \in Works /\ IList /\ ICount
  BY ReaderFacts DEF IMem
<1> PICK must : must = Visible(Tombstones)
  OBVIOUS
<1>1. frags \in Nat /\ frags <= count
  BY <1>0 DEF ICount
<1>2. \A m \in must : m \in Inner /\ frags # 0 /\ m \in TombSets[frags]
  BY VisibleFacts, ListsAre
<1> PICK f : f = Fresh("tombstones", must)
  OBVIOUS
<1> PICK pc : pc = IF frags = 0 THEN "done" ELSE "once"
  OBVIOUS
<1> PICK z : z = [f EXCEPT !.pc = pc, !.frags = frags]
  OBVIOUS
<1>3. f \in ReaderType /\ f.mode = "tombstones" /\ f.must = must /\ f.got = <<>>
  BY <1>2, FreshReader
<1>4. z \in ReaderType /\ z.pc = pc /\ z.mode = "tombstones" /\ z.must = must /\ z.got = <<>> /\ z.frags = frags
  BY <1>1, <1>3 DEF ReaderType
<1>5. GotOK(z) /\ ScanOK(z)
  BY <1>4 DEF GotOK, ScanOK
<1>6. TombsOK(z)
  BY <1>1, <1>2, <1>4 DEF TombsOK
<1>7. once' = once /\ built' = built /\ ReaderOnly /\ reader' = [reader EXCEPT ![r] = z]
  BY DEF LoadTombstones, Move, ReaderOnly
<1> QED BY <1>4, <1>5, <1>6, <1>7, ReaderQuiet

LEMMA EnterOnceKeeps ==
  ASSUME IMem, NEW r \in Readers, EnterOnce(r)
  PROVE  IMem'
<1> PICK s : s = reader[r]
  OBVIOUS
<1> PICK c : c = s.frags
  OBVIOUS
<1> PICK e : e = HeadNode(Tombstones)
  OBVIOUS
<1> PICK z : z = [s EXCEPT !.pc = "build", !.at = e]
  OBVIOUS
<1>0. /\ work \in Works /\ IList /\ ICount /\ s \in ReaderType /\ GotOK(s) /\ ScanOK(s) /\ TombsOK(s)
  BY ReaderFacts DEF IMem
<1>1. /\ s.pc = "once" /\ once' = [once EXCEPT ![c] = "busy"] /\ built' = built /\ ReaderOnly
      /\ reader' = [reader EXCEPT ![r] = z]
  BY DEF EnterOnce, ReaderAt, Move, ReaderOnly
<1>2. c \in Nat /\ c # 0 /\ c <= count /\ s.mode = "tombstones" /\ s.must \subseteq TombSets[c]
  BY <1>0, <1>1 DEF TombsOK, ReaderType
<1>3. c \in Counts
  BY <1>0, <1>2, CountRange
<1>4. e \in Heads /\ e \in Nodes /\ ListOf(e) = Tombstones /\ In(e, 1)
  <2>1. e \in Heads
    BY ListsAre DEF Heads
  <2>2. ListOf(e) = Tombstones
    BY SkipListAssumption DEF ListOf, HeadNode
  <2> QED BY <1>0, <2>1, <2>2, NodeFacts, LevelFacts, LevelRange DEF IList, IWorld
<1>5. z \in ReaderType /\ z.pc = "build" /\ z.at = e /\ z.mode = s.mode /\ z.must = s.must /\ z.got = s.got /\ z.frags = c
  BY <1>0, <1>4 DEF ReaderType, Pointer
<1>6. GotOK(z) /\ ScanOK(z)
  BY <1>0, <1>2, <1>5 DEF GotOK, ScanOK
<1>7. \A m \in TombSets[c] : ~LE(m, e)
  <2>1. \A m \in TombSets[c] : m \in Inner
    BY <1>0, <1>3, TombFacts
  <2> QED BY <1>0, <1>4, <2>1, LowerFacts DEF LE, Inner
<1>8. TombsOK(z)
  BY <1>2, <1>4, <1>5, <1>7 DEF TombsOK
<1> QED BY <1>1, <1>3, <1>5, <1>6, <1>8, ReaderQuiet

LEMMA TakeTombstonesKeeps ==
  ASSUME IMem, NEW r \in Readers, TakeTombstones(r)
  PROVE  IMem'
<1> PICK s : s = reader[r]
  OBVIOUS
<1> PICK z : z = [s EXCEPT !.pc = "done"]
  OBVIOUS
<1>0. /\ work \in Works /\ ICount /\ IOnce /\ s \in ReaderType /\ GotOK(s) /\ ScanOK(s) /\ TombsOK(s)
  BY ReaderFacts DEF IMem
<1>1. /\ s.pc = "once" /\ once[s.frags] = "done" /\ once' = once /\ built' = built /\ ReaderOnly
      /\ reader' = [reader EXCEPT ![r] = z]
  BY DEF TakeTombstones, ReaderAt, Move, ReaderOnly
<1>2. s.frags \in Nat /\ s.frags # 0 /\ s.frags <= count /\ s.mode = "tombstones" /\ s.must \subseteq TombSets[s.frags]
  BY <1>0, <1>1 DEF TombsOK, ReaderType
<1>3. TombSets[s.frags] \subseteq built[s.frags]
  BY <1>0, <1>1, <1>2, CountRange DEF IOnce
<1>4. z \in ReaderType /\ z.pc = "done" /\ z.mode = s.mode /\ z.must = s.must /\ z.got = s.got /\ z.frags = s.frags
  BY <1>0 DEF ReaderType
<1>5. GotOK(z) /\ ScanOK(z)
  BY <1>0, <1>2, <1>4 DEF GotOK, ScanOK
<1>6. TombsOK(z)
  BY <1>2, <1>3, <1>4 DEF TombsOK
<1> QED BY <1>1, <1>4, <1>5, <1>6, ReaderQuiet

LEMMA BuildKeeps ==
  ASSUME IMem, NEW r \in Readers, Build(r)
  PROVE  IMem'
<1> PICK s : s = reader[r]
  OBVIOUS
<1> PICK c : c = s.frags
  OBVIOUS
<1> PICK p : p = s.at
  OBVIOUS
<1> PICK n : n = next[p][1]
  OBVIOUS
<1>0. /\ work \in Works /\ IList /\ ICount /\ IOnce /\ s \in ReaderType /\ GotOK(s) /\ ScanOK(s) /\ TombsOK(s)
  BY ReaderFacts DEF IMem
<1>1. /\ s.pc = "build" /\ ReaderOnly
      /\ built' = (IF n = TailNode(Tombstones) THEN built ELSE [built EXCEPT ![c] = @ \cup {n}])
      /\ once' = (IF n = TailNode(Tombstones) THEN [once EXCEPT ![c] = "done"] ELSE once)
      /\ reader' = [reader EXCEPT ![r] = IF n = TailNode(Tombstones) THEN [s EXCEPT !.pc = "once"] ELSE [s EXCEPT !.at = n]]
  BY DEF Build, ReaderAt, Move, ReaderOnly
<1>2. /\ c \in Nat /\ c # 0 /\ c <= count /\ s.mode = "tombstones" /\ s.must \subseteq TombSets[c]
      /\ In(p, 1) /\ ListOf(p) = Tombstones /\ \A m \in TombSets[c] : LE(m, p) => m \in built[c]
  BY <1>0, <1>1 DEF TombsOK, ReaderType
<1>3. c \in Counts
  BY <1>0, <1>2, CountRange
<1>4. /\ Lower(p, n) /\ Present(n, 1) /\ n \in Nodes /\ ListOf(n) = Tombstones
      /\ \A m : In(m, 1) /\ LE(m, n) => m = n \/ LE(m, p)
  BY <1>0, <1>2, NextUp, LevelRange
<1>5. \A m \in TombSets[c] : In(m, 1) /\ m \in Inner /\ Lower(m, TailNode(Tombstones))
  BY <1>0, <1>3, TombFacts
<1>6. \A m \in TombSets[c] : LE(m, n) => m = n \/ m \in built[c]
  BY <1>2, <1>4, <1>5
<1>7. work' = work /\ newCount' = newCount /\ count' = count /\ UNCHANGED listVars
  BY <1>1 DEF ReaderOnly, listVars
<1>8. LevelSets' = LevelSets /\ Above' = Above /\ Nodes' = Nodes /\ Counts' = Counts /\ TombSets' = TombSets
  BY <1>0, <1>7, ListUnchanged, TombsKept
<1>9. CASE n = TailNode(Tombstones)
  <2> PICK z : z = [s EXCEPT !.pc = "once"]
    OBVIOUS
  <2>1. z \in ReaderType /\ z.pc = "once" /\ z.mode = s.mode /\ z.must = s.must /\ z.got = s.got /\ z.frags = c
    BY <1>0 DEF ReaderType
  <2>2. TombSets[c] \subseteq built[c]
    <3>1. n \in Tails
      BY <1>9, ListsAre DEF Tails
    <3>2. \A m \in TombSets[c] : LE(m, n) /\ m # n
      BY <1>5, <1>9, <3>1 DEF LE, Inner
    <3> QED BY <1>6, <3>2
  <2>3. built' = built /\ once' = [once EXCEPT ![c] = "done"] /\ reader' = [reader EXCEPT ![r] = z]
    BY <1>1, <1>9
  <2>4. IOnce'
    <3>1. once' \in [Counts -> {"new", "busy", "done"}] /\ \A d \in Counts : once'[d] = "done" => d = c \/ once[d] = "done"
      BY <1>0, <2>3 DEF IOnce
    <3>2. built' \in [Counts' -> SUBSET Nodes']
      BY <1>0, <1>8, <2>3 DEF IOnce
    <3>3. \A d \in Counts : once'[d] = "done" => d <= count /\ TombSets[d] \subseteq built[d]
      BY <1>0, <1>2, <2>2, <3>1 DEF IOnce
    <3> QED BY <1>7, <1>8, <2>3, <3>1, <3>2, <3>3 DEF IOnce
  <2>5. GotOK(z)' /\ ScanOK(z)' /\ TombsOK(z)'
    <3>1. GotOK(z) /\ ScanOK(z) /\ TombsOK(z)
      BY <1>0, <1>2, <2>1 DEF GotOK, ScanOK, TombsOK
    <3>2. Grown /\ count \in Nat /\ count <= count' /\ \A d \in Int : 0 < d /\ d <= count => d \in Counts
      BY <1>0, <1>7, <1>8, CountRange DEF Grown
    <3>3. \A d \in Counts \cup {0} : d <= count => TombSets'[d] = TombSets[d]
      BY <1>8
    <3>4. \A d \in Counts : built[d] \subseteq built'[d]
      BY <2>3
    <3> QED BY <1>7, <1>8, <2>1, <3>1, <3>2, <3>3, <3>4, ReaderKept
  <2>6. \A d \in Counts : built[d] \subseteq built'[d]
    BY <2>3
  <2> QED BY <1>1, <2>1, <2>3, <2>4, <2>5, <2>6, ReaderStep DEF ReaderOnly
<1>10. CASE n # TailNode(Tombstones)
  <2> PICK z : z = [s EXCEPT !.at = n]
    OBVIOUS
  <2>1. z \in ReaderType /\ z.pc = "build" /\ z.at = n /\ z.mode = s.mode /\ z.must = s.must /\ z.got = s.got /\ z.frags = c
    BY <1>0, <1>1, <1>4 DEF ReaderType, Pointer
  <2>2. built' = [built EXCEPT ![c] = @ \cup {n}] /\ once' = once /\ reader' = [reader EXCEPT ![r] = z]
    BY <1>1, <1>10
  <2>3. /\ built \in [Counts -> SUBSET Nodes] /\ built' \in [Counts -> SUBSET Nodes]
        /\ built'[c] = built[c] \cup {n} /\ \A d \in Counts : built[d] \subseteq built'[d]
    BY <1>0, <1>3, <1>4, <2>2 DEF IOnce
  <2>4. IOnce'
    <3>1. \A d \in Counts : once[d] = "done" => d <= count /\ TombSets[d] \subseteq built[d]
      BY <1>0 DEF IOnce
    <3>2. once' \in [Counts -> {"new", "busy", "done"}]
      BY <1>0, <2>2 DEF IOnce
    <3>3. \A d \in Counts : once'[d] = "done" => d <= count /\ TombSets[d] \subseteq built'[d]
      BY <2>2, <2>3, <3>1
    <3> QED BY <1>7, <1>8, <2>3, <3>2, <3>3 DEF IOnce
  <2>5. In(n, 1)
    <3>1. n \notin Tails
      BY <1>0, <1>4, <1>10, EndsAre, ListsAre
    <3> QED BY <1>4, <3>1 DEF Present
  <2>6. /\ \A m, x : (Lower(m, x)' <=> Lower(m, x)) /\ (LE(m, x)' <=> LE(m, x))
        /\ \A i, m : In(m, i)' <=> In(m, i)
        /\ \A m : ListOf(m)' = ListOf(m)
    BY <1>7, <1>8 DEF Lower, LE, In, ListOf
  <2>7. GotOK(z)' /\ ScanOK(z)'
    <3>1. z.mode = "tombstones" /\ z.pc = "build"
      BY <1>2, <2>1
    <3>2. GotOK(z)
      BY <1>0, <1>1, <2>1 DEF GotOK
    <3>3. GotOK(z)'
      BY <2>6, <3>2 DEF GotOK
    <3>4. ScanOK(z)'
      BY <3>1 DEF ScanOK
    <3> QED BY <3>3, <3>4
  <2>8. TombsOK(z)'
    <3>1. \A m \in TombSets[c] : LE(m, n) => m \in built'[c]
      BY <1>6, <2>3
    <3>2. z.frags = c /\ z.pc = "build" /\ z.at = n /\ z.mode = "tombstones" /\ z.must \subseteq TombSets[c]
      BY <1>2, <2>1
    <3> QED BY <1>2, <1>4, <1>7, <1>8, <2>5, <2>6, <3>1, <3>2 DEF TombsOK
  <2> QED BY <1>1, <2>1, <2>2, <2>3, <2>4, <2>7, <2>8, ReaderStep DEF ReaderOnly
<1> QED BY <1>9, <1>10

-----------------------------------------------------------------------------
(* The invariant holds, and what it says.                                  *)

LEMMA MemInitial ==
  ASSUME MemTableInit
  PROVE  IMem
<1>0. ListInit /\ IList /\ work \in Works
  BY ListInitial DEF MemTableInit, IList, IType
<1>1. \A t \in Threads : thread[t].pc = "idle" /\ newCount[t] = 0
  BY <1>0 DEF ListInit, MemTableInit, NewThread
<1>2. IArena
  <2>1. Todo = {} /\ Active = {}
    BY <1>1 DEF Todo, Active, Pending, Adding, Over, Searching, Linking, Unlinked
  <2>2. IsFiniteSet(Todo) /\ Cardinality(Todo) = 0 /\ Cardinality(Active) = 0
    BY <2>1, FS_EmptySet
  <2>3. 0 * (MaxHeight + 1) = 0 /\ Capacity \in Nat
    BY SkipListAssumption
  <2>4. arenaSize = 0 /\ reserved = 0 /\ writerRefs = 1
    BY DEF MemTableInit
  <2> QED BY <2>2, <2>3, <2>4 DEF IArena, ReservedBytes
<1>3. Counted = {}
  BY <1>0, <1>1, TombNodes DEF Counted, NodeOf
<1>4. ICount
  <2>1. Cardinality(Counted) = 0
    BY <1>3, FS_EmptySet
  <2>2. /\ count = 0 /\ frags = 0 /\ newCount \in [Threads -> Nat] /\ old \in [Threads -> Nat] /\ order = <<>>
        /\ applied = {}
    BY DEF MemTableInit
  <2>3. \A t \in Threads : CountOK(t)
    BY <1>1, <2>2 DEF CountOK, Over
  <2> QED BY <2>1, <2>2, <2>3 DEF ICount
<1>5. IOnce
  BY DEF MemTableInit, IOnce
<1>6. IReaders
  <2>1. reader = [r \in Readers |-> NewReader]
    BY DEF MemTableInit
  <2>2. NewReader \in ReaderType /\ NewReader.got = <<>> /\ NewReader.pc = "idle" /\ NewReader.mode = "none"
        /\ NewReader.must = {}
    <3>1. <<>> \in Seq(Inner) /\ Nil \in Pointer /\ 1 \in Levels /\ NoKey \in Int
      BY LevelRange DEF Pointer, NoKey
    <3> QED BY <3>1 DEF NewReader, ReaderType
  <2>3. GotOK(NewReader) /\ TombsOK(NewReader)
    BY <2>2, NothingGot
  <2>4. ScanOK(NewReader)
    BY <2>2 DEF ScanOK
  <2> QED BY <2>1, <2>2, <2>3, <2>4 DEF IReaders, ReaderOK
<1> QED BY <1>0, <1>2, <1>4, <1>5, <1>6 DEF IMem

(* What writers change of the lists and the counts leaves readers as they are. *)
LEMMA WriterStep ==
  ASSUME IMem, IList', IArena', ICount', work' = work, Grown, count <= count', Counts' = Counts,
         \A c \in Counts \cup {0} : c <= count => TombSets'[c] = TombSets[c],
         once' = once, built' = built, reader' = reader
  PROVE  IMem'
<1>1. work \in Works /\ ICount /\ IOnce /\ IReaders
  BY DEF IMem, IList, IType
<1>2. count \in Nat /\ (\A c \in Int : 0 < c /\ c <= count => c \in Counts) /\ Counts \subseteq Int
  BY <1>1, CountRange
<1>3. count' \in Nat
  <2>1. IsFiniteSet(Counted') /\ count' = Cardinality(Counted')
    <3>1. AllTombs' = AllTombs
      BY DEF AllTombs, Records
    <3>2. Counted' \in SUBSET AllTombs
      BY <3>1 DEF Counted
    <3> QED BY <1>1, <3>2, TombsFinite, FS_Subset DEF ICount
  <2> QED BY <2>1, FS_CardinalityType
<1>4. IOnce' /\ IReaders'
  BY <1>1, <1>2, <1>3, WriterStepReaders
<1> QED BY <1>4 DEF IMem

LEMMA AddKeeps ==
  ASSUME IMem, NEW t \in Threads, Add(t)
  PROVE  IMem'
<1>0. /\ IList /\ IArena /\ ICount /\ work \in Works /\ reserved' = reserved /\ writerRefs' = writerRefs
      /\ count' = count /\ frags' = frags /\ newCount' = newCount /\ old' = old /\ applied' = applied /\ order' = order
      /\ once' = once /\ built' = built /\ reader' = reader
  BY DEF Add, memVars, IMem, IList, IType
<1>1. count \in Nat /\ order' \in Seq(Threads)
  BY <1>0, CountRange DEF ICount
<1>2. CASE NewNode(t)
  <2>1. IArena' /\ thread'[t].pc # "arenaFull"
    BY <1>0, <1>2, NewNodeArena
  <2>2. IList'
    BY <1>0, <1>2, <2>1, NewNodeStep
  <2>3. /\ work' = work /\ \A u \in Threads \ {t} : thread'[u] = thread[u]
        /\ thread[t].pc = "alloc" /\ thread'[t].pc = "link" /\ Grown
    BY <1>0, <1>2, <2>1, NewNodeMoves
  <2>4. ICount'
    BY <1>0, <1>1, <2>3, EarlyCount DEF Adding, Searching, Linking, Unlinked
  <2>5. Counts' = Counts /\ TombSets' = TombSets /\ count <= count'
    BY <1>0, <1>1, <2>3, TombsKept
  <2> QED BY <1>0, <2>1, <2>2, <2>3, <2>4, <2>5, WriterStep
<1>3. CASE InsertStep(t)
  <2>1. IList'
    BY <1>0, <1>3, FindSpliceStep, CheckSpliceStep, FindStep, LinkStep, HelpStep, HelpCasStep, CasNextStep, RefindStep,
       LinkBackStep DEF InsertStep
  <2>2. IType'
    BY <2>1 DEF IList
  <2>3. /\ work' = work /\ \A u \in Threads \ {t} : thread'[u] = thread[u]
        /\ Moves(t, thread[t], thread'[t]) /\ Grown
    BY <1>0, <1>3, <2>2, InsertMoves, InsertGrows
  <2>4. IArena'
    BY <1>0, <1>3, <2>2, InsertArena
  <2>5. /\ thread[t].pc \in Adding /\ thread'[t].pc \in Adding \cup {"applied"}
        /\ thread'[t].pc = "applied" => thread'[t].rec = Len(work[t])
    BY <2>3 DEF Moves, Adding, Searching, Linking, Unlinked
  <2>6. ICount'
    BY <1>0, <1>1, <2>3, <2>5, EarlyCount
  <2>7. Counts' = Counts /\ TombSets' = TombSets /\ count <= count'
    BY <1>0, <1>1, <2>3, TombsKept
  <2> QED BY <1>0, <2>1, <2>3, <2>4, <2>6, <2>7, WriterStep
<1> QED BY <1>2, <1>3 DEF Add, AddStep, InsertStep

LEMMA PrepareKeeps ==
  ASSUME IMem, NEW t \in Threads, Prepare(t)
  PROVE  IMem'
<1>0. /\ IList /\ IArena /\ ICount /\ work \in Works /\ order \in Seq(Threads) /\ thread \in [Threads -> ThreadType]
  BY DEF IMem, IList, IType, ICount
<1>1. /\ work' = work /\ next' = next /\ prev' = prev /\ height' = height
      /\ count' = count /\ frags' = frags /\ newCount' = newCount /\ old' = old /\ applied' = applied
      /\ once' = once /\ built' = built /\ reader' = reader /\ thread[t].pc = "idle" /\ work[t] # <<>>
  BY DEF Prepare, At
<1> PICK pc : pc = IF BatchSize(t) <= Capacity - ReservedBytes THEN "splice" ELSE "elsewhere"
  OBVIOUS
<1>2. thread' = [thread EXCEPT ![t] = [thread[t] EXCEPT !.pc = pc]] /\ pc \in {"splice", "elsewhere"}
  BY DEF Prepare, Go
<1>3. IList' /\ LevelSets' = LevelSets
  BY <1>0, <1>1, <1>2, OutsideStep
<1>4. IArena'
  BY <1>0, PrepareArena
<1>5. count \in Nat /\ order' \in Seq(Threads)
  <2>1. order' = order \/ order' = Append(order, t)
    BY DEF Prepare
  <2> QED BY <1>0, <2>1, CountRange, AppendProperties
<1>6. thread'[t].pc = pc /\ \A u \in Threads \ {t} : thread'[u] = thread[u]
  BY <1>0, <1>2 DEF ThreadType
<1>7. ICount'
  BY <1>0, <1>1, <1>2, <1>5, <1>6, EarlyCount DEF Adding
<1>8. Counts' = Counts /\ TombSets' = TombSets /\ count <= count' /\ Grown
  BY <1>1, <1>3, <1>5, TombsKept DEF Grown
<1> QED BY <1>1, <1>3, <1>4, <1>7, <1>8, WriterStep

LEMMA AfterKeeps ==
  ASSUME IMem, NEW t \in Threads, AddCount(t) \/ LoadFrags(t) \/ SwapFrags(t) \/ WriterUnref(t)
  PROVE  IMem'
<1>0. IList /\ IArena /\ ICount /\ work \in Works
  BY DEF IMem, IList, IType
<1>1. /\ work' = work /\ next' = next /\ prev' = prev /\ height' = height /\ arenaSize' = arenaSize
      /\ reserved' = reserved /\ once' = once /\ built' = built /\ reader' = reader
  BY DEF AddCount, LoadFrags, SwapFrags, WriterUnref
<1>2. PICK pc \in Over : /\ thread' = [thread EXCEPT ![t] = [thread[t] EXCEPT !.pc = pc]]
                         /\ writerRefs' = IF pc = "done" THEN writerRefs - 1 ELSE writerRefs
                         /\ thread[t].pc \in Over \ {"done"}
  <2>1. CASE AddCount(t)
    BY <2>1 DEF AddCount, At, Go, Over
  <2>2. CASE LoadFrags(t)
    <3>1. CASE Subsumed(t)
      BY <2>2, <3>1 DEF LoadFrags, At, Go, Over
    <3>2. CASE ~Subsumed(t)
      BY <2>2, <3>2 DEF LoadFrags, At, Go, Over
    <3> QED BY <3>1, <3>2
  <2>3. CASE SwapFrags(t)
    <3>1. CASE frags = old[t]
      BY <2>3, <3>1 DEF SwapFrags, At, Go, Over
    <3>2. CASE frags # old[t]
      BY <2>3, <3>2 DEF SwapFrags, At, Go, Over
    <3> QED BY <3>1, <3>2
  <2>4. CASE WriterUnref(t)
    BY <2>4 DEF WriterUnref, At, Go, Over
  <2> QED BY <2>1, <2>2, <2>3, <2>4
<1>3. IList' /\ LevelSets' = LevelSets
  BY <1>0, <1>1, <1>2, OutsideStep
<1>4. IArena'
  BY <1>0, <1>1, <1>2, OverArena
<1>5. /\ ICount' /\ Counts' = Counts /\ count <= count'
      /\ \A c \in Counts \cup {0} : c <= count => TombSets'[c] = TombSets[c]
  <2>1. CASE AddCount(t)
    BY <1>0, <2>1, AddCountCount
  <2>2. CASE LoadFrags(t) \/ SwapFrags(t) \/ WriterUnref(t)
    <3>1. ICount' /\ TombSets' = TombSets /\ Counts' = Counts /\ count' = count
      BY <1>0, <2>2, CacheCount
    <3>2. count \in Nat
      BY <1>0, CountRange
    <3> QED BY <3>1, <3>2
  <2> QED BY <2>1, <2>2
<1>6. Grown
  BY <1>3 DEF Grown
<1> QED BY <1>1, <1>3, <1>4, <1>5, <1>6, WriterStep

LEMMA MemStep ==
  ASSUME IMem, [MemTableNext]_<<listVars, memVars>>
  PROVE  IMem'
<1>1. CASE UNCHANGED <<listVars, memVars>>
  <2>0. UNCHANGED listVars /\ work' = work
    BY <1>1 DEF listVars
  <2>1. IList' /\ LevelSets' = LevelSets
    BY <2>0, ListUnchanged DEF IMem
  <2>2. newCount' = newCount /\ count' = count /\ once' = once /\ built' = built /\ reader' = reader
    BY <1>1 DEF memVars
  <2>3. Counted' = Counted /\ Counts' = Counts /\ TombSets' = TombSets
    BY <2>0, <2>2, TombsKept
  <2>4. ICount'
    <3>1. \A u \in Threads : CountOK(u)' <=> CountOK(u)
      BY <1>1 DEF CountOK, Records, listVars, memVars
    <3> QED BY <1>1, <2>3, <3>1 DEF IMem, ICount, memVars
  <2>5. IArena'
    <3>1. Todo' = Todo /\ Active' = Active
      BY <1>1 DEF Todo, Active, listVars
    <3> QED BY <1>1, <3>1, ArenaKept DEF IMem, listVars, memVars
  <2>6. count <= count' /\ Grown
    BY <2>1, <2>2, CountRange DEF Grown, IMem, IList, IType
  <2> QED BY <2>0, <2>1, <2>2, <2>3, <2>4, <2>5, <2>6, WriterStep
<1>2. ASSUME NEW t \in Threads, \/ Add(t)
                                \/ Prepare(t) \/ WriterUnref(t)
                                \/ AddCount(t) \/ LoadFrags(t) \/ SwapFrags(t)
      PROVE  IMem'
  BY <1>2, AddKeeps, PrepareKeeps, AfterKeeps
<1>3. ASSUME NEW r \in Readers, \/ StartScan(r) \/ Step(r) \/ StartSeek(r) \/ Seek(r) \/ Finish(r)
                                \/ LoadTombstones(r) \/ EnterOnce(r) \/ Build(r) \/ TakeTombstones(r)
      PROVE  IMem'
  BY <1>3, StartScanKeeps, StepKeeps, StartSeekKeeps, SeekKeeps, FinishKeeps, LoadTombstonesKeeps, EnterOnceKeeps,
     BuildKeeps, TakeTombstonesKeeps
<1> QED BY <1>1, <1>2, <1>3 DEF MemTableNext

LEMMA ScansFollow ==
  ASSUME IMem
  PROVE  ScansComplete
<1> SUFFICES ASSUME NEW r \in Readers, NEW s, s = reader[r]
             PROVE  /\ s.pc = "done" /\ s.mode = "forward" => s.must \subseteq {s.got[i] : i \in DOMAIN s.got}
                    /\ \A i \in 1..(Len(s.got) - 1) :
                         (KeyOf(s.got[i]) < KeyOf(s.got[i + 1])) <=> (s.mode = "forward")
  BY DEF ScansComplete
<1>0. work \in Works /\ s \in ReaderType /\ GotOK(s) /\ ScanOK(s)
  BY ReaderFacts
<1>1. s.pc = "done" /\ s.mode = "forward" => s.must \subseteq {s.got[i] : i \in DOMAIN s.got}
  BY <1>0 DEF ScanOK, Got
<1>2. ASSUME NEW i \in 1 .. (Len(s.got) - 1)
      PROVE  (KeyOf(s.got[i]) < KeyOf(s.got[i + 1])) <=> (s.mode = "forward")
  <2> PICK a : a = s.got[i]
    OBVIOUS
  <2> PICK b : b = s.got[i + 1]
    OBVIOUS
  <2>1. a \in Inner /\ b \in Inner
    <3>1. s.got \in Seq(Inner)
      BY <1>0 DEF ReaderType
    <3>2. i \in 1 .. Len(s.got) /\ i + 1 \in 1 .. Len(s.got)
      BY <3>1
    <3> QED BY <3>1, <3>2
  <2>2. (s.mode = "forward" => Lower(a, b)) /\ (s.mode # "forward" => Lower(b, a))
    BY <1>0 DEF GotOK
  <2>3. KeyOf(a) \in Int /\ KeyOf(b) \in Int /\ (Lower(a, b) => KeyOf(a) < KeyOf(b)) /\ (Lower(b, a) => KeyOf(b) < KeyOf(a))
    BY <1>0, <2>1, KeyOrder
  <2> QED BY <2>2, <2>3
<1> QED BY <1>1, <1>2

LEMMA TombstonesFollow ==
  ASSUME IMem
  PROVE  TombstonesCurrent
<1> SUFFICES ASSUME NEW r \in Readers, NEW s, s = reader[r], s.pc = "done", s.mode = "tombstones"
             PROVE  s.must \subseteq IF s.frags = 0 THEN {} ELSE built[s.frags]
  BY DEF TombstonesCurrent, ReaderAt
<1>0. IList /\ ICount /\ TombsOK(s)
  BY ReaderFacts DEF IMem
<1>1. s.must \subseteq TombSets[s.frags] /\ (s.frags # 0 => TombSets[s.frags] \subseteq built[s.frags])
  BY <1>0 DEF TombsOK
<1>2. s.frags = 0 => TombSets[s.frags] = {}
  BY <1>0, TombFacts
<1> QED BY <1>1, <1>2

LEMMA AppliesFollow ==
  ASSUME IMem
  PROVE  AppliesSucceed
<1>1. \A t \in Threads : thread[t].pc \in PCs
  BY DEF IMem, IList, IType, ThreadType
<1> QED BY <1>1 DEF AppliesSucceed, PCs, Adding, Searching, Linking, Unlinked, Over

(* The inductive invariant: the types; every level of every list sorted, within the level below and linked back, but for
   what a writer at its last step owes; the splices that writers keep; the bytes that batches under way may still
   allocate within what is reserved; the counts of tombstones and the values of their cache; and where readers are.
   It holds for any number of writers and readers, any batches, any height of towers and any arena. *)
THEOREM MemTableInvariant == MemTableSpec => []IMem
<1>1. MemTableInit => IMem
  BY MemInitial
<1>2. IMem /\ [MemTableNext]_<<listVars, memVars>> => IMem'
  BY MemStep
<1> QED BY <1>1, <1>2, PTL DEF MemTableSpec

(* However the loads, stores and compare-and-swaps of concurrent inserts interleave (arenaskl's addInternal and
   findSplice), every level of the skiplist links the nodes put there in the order of their keys and leaves none out,
   lies within the level below, and once inserts are over its links back are the links forward reversed. *)
THEOREM SkipListSafe == MemTableSpec => []ListsWellFormed
<1>1. IMem => ListsWellFormed
  BY ListsFollow DEF IMem
<1> QED BY <1>1, MemTableInvariant, PTL

(* A scan forwards, from the head or from SeekGE, beside concurrent inserts returns in order at least what was visible
   when it began; a scan backwards, from the tail or from SeekLT, goes backwards. *)
THEOREM ScansSafe == MemTableSpec => []ScansComplete
BY ScansFollow, MemTableInvariant, PTL

(* The cached fragments that newRangeDelIter takes hold every range tombstone that was visible when it asked, whichever
   writer made the value in invalidate and whichever reader filled it in get. *)
THEOREM TombstonesSafe == MemTableSpec => []TombstonesCurrent
BY TombstonesFollow, MemTableInvariant, PTL

(* A batch that prepare found room for is applied: what the batches under way reserved is never given away, so that no
   node fails to be allocated, and no insert takes a key for one that exists or meets its own node. *)
THEOREM AppliesSafe == MemTableSpec => []AppliesSucceed
BY AppliesFollow, MemTableInvariant, PTL
=============================================================================
