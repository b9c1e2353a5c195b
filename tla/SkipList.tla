------------------------------ MODULE SkipList ------------------------------
(***************************************************************************)
(* The memtable's skiplist (internal/arenaskl): inserts that run           *)
(* concurrently, without locks, and iterators that run beside them.  Every *)
(* atomic load, store and compare-and-swap on shared memory is a step of   *)
(* its own.                                                                *)
(*                                                                         *)
(* A node is the pair of a thread and the index of its record, and each    *)
(* list has a head and a tail.  Keys are numbers (the order of internal    *)
(* keys), levels count from 1, and Nil is the nil pointer.  Several lists  *)
(* share the arena.                                                        *)
(***************************************************************************)
EXTENDS Integers, Sequences, FiniteSets

CONSTANTS Threads,        \* the writers, positive numbers
          Lists,          \* the skiplists, numbers
          Works,          \* what a behaviour may add: for each thread, its records [list, key]
          MaxHeight,
          Capacity        \* of the arena

ASSUME SkipListAssumption ==
    /\ Threads \subseteq Nat \ {0} /\ IsFiniteSet(Threads) /\ Lists \subseteq Nat
    /\ MaxHeight \in Nat \ {0} /\ Capacity \in Nat
\* The internal keys of two records differ in their sequence numbers.
ASSUME WorksAssumption ==
    \A w \in Works :
        /\ w \in [Threads -> Seq([list : Lists, key : Int])]
        /\ \A t, u \in Threads : \A i \in DOMAIN w[t], j \in DOMAIN w[u] :
               w[t][i] = w[u][j] => t = u /\ i = j

VARIABLES work,
          next, prev,     \* the towers: next[node][level]
          height,         \* of each list
          arenaSize,
          thread          \* the local state of each writer
listVars == <<work, next, prev, height, arenaSize, thread>>

Nil == <<>>
HeadNode(l) == <<0, l>>
TailNode(l) == <<-1, l>>
NodeOf(t, i) == <<t, i>>
IsHead(n) == n[1] = 0
IsTail(n) == n[1] = -1
Nodes == {HeadNode(l) : l \in Lists} \cup {TailNode(l) : l \in Lists}
         \cup UNION {{NodeOf(t, i) : i \in DOMAIN work[t]} : t \in Threads}
KeyOf(n) == work[n[1]][n[2]].key
Levels == 1..MaxHeight

NewInserter == [height |-> 0, spl |-> [i \in Levels |-> [prev |-> Nil, next |-> Nil]]]
NewThread == [pc |-> "idle", rec |-> 1, level |-> 1, top |-> 1, prev |-> Nil, next |-> Nil, seen |-> Nil,
              tall |-> 1, moved |-> FALSE, ins |-> [l \in Lists |-> NewInserter]]

\* NewSkiplist: every level of the head points to the tail.
ListInit ==
    /\ work \in Works
    /\ next = [n \in Nodes |-> [i \in Levels |-> IF IsHead(n) THEN TailNode(n[2]) ELSE Nil]]
    /\ prev = [n \in Nodes |-> [i \in Levels |-> IF IsTail(n) THEN HeadNode(n[2]) ELSE Nil]]
    /\ height = [l \in Lists |-> 1]
    /\ thread = [t \in Threads |-> NewThread]

-----------------------------------------------------------------------------
(* The record that thread t adds, its node and its list.                   *)

At(t, pc) == thread[t].pc = pc
Record(t) == work[t][thread[t].rec]
List(t) == Record(t).list
Node(t) == NodeOf(t, thread[t].rec)
HeadOf(t) == HeadNode(List(t))
TailOf(t) == TailNode(List(t))
Before(t, n) == n # TailOf(t) /\ KeyOf(n) < Record(t).key
Found(t, n) == n # TailOf(t) /\ KeyOf(n) = Record(t).key

\* Steps at which the node is not at the thread's level yet.
Unlinked == {"link", "help", "helpCas", "cas", "refind"}

Go(t, s) == thread' = [thread EXCEPT ![t] = s]
Failed(s, why) == [s EXCEPT !.pc = why]

\* findSplice: search from the head and from the top level.
FromTop(t, s) == [s EXCEPT !.pc = "find", !.level = s.top, !.prev = HeadOf(t)]
FindSplice(t) ==
    LET s == [thread[t] EXCEPT !.top = height[List(t)]]
    IN  /\ At(t, "splice")
        /\ Go(t, IF s.ins[List(t)].height < s.top THEN FromTop(t, [s EXCEPT !.ins[List(t)].height = s.top])
                 ELSE [s EXCEPT !.pc = "check", !.level = 1])
        /\ UNCHANGED <<work, next, prev, height, arenaSize>>

\* The splice of the last insert is used from the lowest level at which it is
\* still tight, if it brackets the key.
CheckSplice(t) ==
    LET s == thread[t]
        spl == s.ins[List(t)].spl[s.level]
    IN  /\ At(t, "check")
        /\ Go(t, IF next[spl.prev][s.level] # spl.next
                 THEN IF s.level = s.top THEN FromTop(t, s) ELSE [s EXCEPT !.level = @ + 1]
                 ELSE IF (spl.prev # HeadOf(t) /\ KeyOf(spl.prev) >= Record(t).key) \/ Before(t, spl.next)
                 THEN FromTop(t, s)
                 ELSE IF s.level = 1 THEN [s EXCEPT !.pc = "alloc"]
                 ELSE [s EXCEPT !.pc = "find", !.level = @ - 1, !.prev = spl.prev])
        /\ UNCHANGED <<work, next, prev, height, arenaSize>>

\* findSpliceForLevel, one node at a time, and the levels below.
Find(t) ==
    LET s == thread[t]
        n == next[s.prev][s.level]
        set == [s EXCEPT !.ins[List(t)].spl[s.level] = [prev |-> s.prev, next |-> n]]
    IN  /\ At(t, "find")
        /\ Go(t, IF Before(t, n) THEN [s EXCEPT !.prev = n]
                 ELSE IF s.level > 1 THEN [set EXCEPT !.level = @ - 1]
                 ELSE IF Found(t, n) THEN Failed(set, "exists")
                 ELSE [set EXCEPT !.pc = "alloc"])
        /\ UNCHANGED <<work, next, prev, height, arenaSize>>

\* Arena.alloc of a node with one unit for each level and one for the key and
\* the value; what the whole tower would take must fit, too.
Alloc(size, tall) ==
    [size |-> IF size > Capacity THEN size ELSE size + tall + 1,
     ok |-> size <= Capacity /\ size + tall + 1 + (MaxHeight - tall) <= Capacity]
\* Where the loop over the levels of the new node starts level i.
LinkLevel(t, s, i) ==
    LET spl == s.ins[List(t)].spl[i]
    IN  [s EXCEPT !.pc = "link", !.level = i,
                  !.prev = IF spl.prev = Nil THEN HeadOf(t) ELSE spl.prev,
                  !.next = IF spl.prev = Nil THEN TailOf(t) ELSE spl.next]
\* newNode with a random height; the height of the list is raised to it.
NewNode(t) ==
    \E tall \in Levels :
        LET a == Alloc(arenaSize, tall)
        IN  /\ At(t, "alloc")
            /\ arenaSize' = a.size
            /\ height' = [height EXCEPT ![List(t)] = IF a.ok /\ @ < tall THEN tall ELSE @]
            /\ Go(t, IF a.ok THEN LinkLevel(t, [thread[t] EXCEPT !.tall = tall, !.moved = FALSE], 1)
                     ELSE Failed(thread[t], "arenaFull"))
            /\ UNCHANGED <<work, next, prev>>

\* The node's own links are set, and next's link back is read.
Link(t) ==
    LET s == thread[t]
    IN  /\ At(t, "link")
        /\ next' = [next EXCEPT ![Node(t)][s.level] = s.next]
        /\ prev' = [prev EXCEPT ![Node(t)][s.level] = s.prev]
        /\ Go(t, [s EXCEPT !.seen = prev[s.next][s.level],
                           !.pc = IF prev[s.next][s.level] = s.prev THEN "cas" ELSE "help"])
        /\ UNCHANGED <<work, height, arenaSize>>
\* next does not point back to prev: the thread that put next or prev there has
\* not come to it yet, or there is a node between them by now.
Help(t) ==
    /\ At(t, "help")
    /\ Go(t, [thread[t] EXCEPT !.pc = IF next[thread[t].prev][thread[t].level] = thread[t].next
                                      THEN "helpCas" ELSE "cas"])
    /\ UNCHANGED <<work, next, prev, height, arenaSize>>

\* casPrevOffset.
CasPrev(n, i, old, new) == prev' = [prev EXCEPT ![n][i] = IF @ = old THEN new ELSE @]
(* Mutant: the helping thread does not update the link. *)
NoHelp(t) ==
    /\ At(t, "helpCas")
    /\ Go(t, [thread[t] EXCEPT !.pc = "cas"])
    /\ UNCHANGED <<work, next, prev, height, arenaSize>>

HelpCas(t) ==
    LET s == thread[t]
    IN  /\ At(t, "helpCas")
        /\ CasPrev(s.next, s.level, s.seen, s.prev)
        /\ Go(t, [s EXCEPT !.pc = "cas"])
        /\ UNCHANGED <<work, next, height, arenaSize>>

(* Mutant: the link is stored without looking at what is there. *)
StoreNext(t) ==
    LET s == thread[t]
    IN  /\ At(t, "cas")
        /\ next' = [next EXCEPT ![s.prev][s.level] = Node(t)]
        /\ Go(t, [s EXCEPT !.pc = "back"])
        /\ UNCHANGED <<work, prev, height, arenaSize>>
\* casNextOffset: the node is in the list at this level, or another one is
\* there first and the place has to be found again.
CasNext(t) ==
    LET s == thread[t]
        ok == next[s.prev][s.level] = s.next
    IN  /\ At(t, "cas")
        /\ next' = [next EXCEPT ![s.prev][s.level] = IF ok THEN Node(t) ELSE @]
        /\ Go(t, [s EXCEPT !.pc = IF ok THEN "back" ELSE "refind"])
        /\ UNCHANGED <<work, prev, height, arenaSize>>
Refind(t) ==
    LET s == thread[t]
        n == next[s.prev][s.level]
    IN  /\ At(t, "refind")
        /\ Go(t, IF Before(t, n) THEN [s EXCEPT !.prev = n]
                 ELSE IF Found(t, n) THEN Failed(s, IF s.level = 1 THEN "exists" ELSE "panic")
                 ELSE [s EXCEPT !.pc = "link", !.next = n, !.moved = TRUE])
        /\ UNCHANGED <<work, next, prev, height, arenaSize>>

\* The splice is kept for the next record unless a level had to be searched
\* again.
KeepSplice(t, s) ==
    [s EXCEPT !.ins[List(t)].height = IF s.moved THEN 0 ELSE @,
              !.ins[List(t)].spl = IF s.moved THEN @
                  ELSE [i \in Levels |-> IF i <= s.tall THEN [@[i] EXCEPT !.prev = Node(t)] ELSE @[i]]]
\* The next record of the batch: the points, list 1, share an Inserter.
NextRecord(t, s) ==
    IF s.rec = Len(work[t]) THEN [NewThread EXCEPT !.pc = "applied", !.rec = s.rec]
    ELSE [NewThread EXCEPT !.pc = "splice", !.rec = s.rec + 1,
                           !.ins = [l \in Lists |-> IF l = 1 THEN s.ins[l] ELSE NewInserter]]
LinkBack(t) ==
    LET s == thread[t]
    IN  /\ At(t, "back")
        /\ CasPrev(s.next, s.level, s.prev, Node(t))
        /\ Go(t, IF s.level < s.tall THEN LinkLevel(t, s, s.level + 1) ELSE NextRecord(t, KeepSplice(t, s)))
        /\ UNCHANGED <<work, next, height, arenaSize>>

AddStep(t) ==
    \/ FindSplice(t) \/ CheckSplice(t) \/ Find(t) \/ NewNode(t)
    \/ Link(t) \/ Help(t) \/ HelpCas(t) \/ CasNext(t) \/ Refind(t) \/ LinkBack(t)
=============================================================================
