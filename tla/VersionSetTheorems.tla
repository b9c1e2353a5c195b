------------------------- MODULE VersionSetTheorems -------------------------
(***************************************************************************)
(* The third layer of the invariant of the version set, and the properties  *)
(* it gives: no file is deleted under its users, a crash leaves a database, *)
(* a checkpoint is of one version, the panics are unreachable and no wakeup *)
(* is lost.                                                                 *)
(*                                                                          *)
(* IFiles follows a file from its number to its deletion.  A table is owned *)
(* by the job that wrote it, then live in the versions of the list, then    *)
(* doomed: obsolete, given to a reader, taken or paced.  A zombie is a      *)
(* table that is live and no longer current, or doomed.  The three roles    *)
(* never overlap, and that is what every step is shown to keep: a step adds *)
(* to the doomed only tables that were live and are not any more (the last  *)
(* references of a released version), and to the live ones only tables the  *)
(* job owned.                                                               *)
(***************************************************************************)
EXTENDS VersionSetProofs

-----------------------------------------------------------------------------
(* The third invariant: files.                                             *)

CkptType ==
  [tables : SUBSET Nat, manifest : Nat, size : Nat, copied : Seq(SUBSET Nat), linked : SUBSET Nat]

IFileType ==
  /\ disk \subseteq Nat /\ linked \subseteq Nat
  /\ manifests \in [DOMAIN manifests -> Seq(SUBSET Nat)] /\ DOMAIN manifests \subseteq Nat
  /\ zombies \subseteq Nat /\ obsolete \subseteq Nat /\ oldManifests \subseteq Nat
  /\ taken \subseteq Nat /\ todo \subseteq Nat /\ pacing \subseteq Nat
  /\ manifestNum \in Nat /\ currentFile \in Nat
  /\ ckpt \in [Checkpoints -> CkptType]

Owning  == {"sync", "lock", "edit", "cleanup"} \union Built
Copying == {"copy", "link"}

(* Files on their way to deletion. *)
Given  == UNION {reader[r].obsolete : r \in Readers}
Doomed == obsolete \union oldManifests \union taken \union todo \union pacing \union Given

(* The versions that may still be read, and the current tables. *)
Listed == {v \in list : ~versions[v].released}
Tables == versions[current].tables

NewManifest(j) == pc[j] \in Built /\ job[j].manifest # 0

(* What a job works on, and that it keeps its inputs to itself. *)
JobOK(j) ==
  /\ pc[j] \in {"idle", "pick", "picking"} => job[j].in = {}
  /\ pc[j] \in {"idle", "pick", "picking", "write"} => job[j].out = {} /\ job[j].pending = {}
  /\ pc[j] \in Owning \ {"cleanup"} => job[j].out = job[j].pending \/ (job[j].pending = {} /\ job[j].out = job[j].in)
  /\ job[j].in \subseteq Tables
  /\ pc[j] \in {"lock", "edit"} \union Built => job[j].out \subseteq linked
  /\ pc[j] \in Built => versions[job[j].version].tables = (Tables \ job[j].in) \union job[j].out

IJobs ==
  /\ \A j \in Jobs : JobOK(j)
  /\ \A j, k \in Jobs : j # k => job[j].in \intersect job[k].in = {}

(* A new table belongs to the job that wrote it. *)
OwnedOK(j, t) ==
  /\ t \in disk /\ t \notin Doomed /\ t \notin zombies /\ t \notin DOMAIN manifests
  /\ \A v \in Listed : t \notin versions[v].tables
  /\ \A k \in Jobs : k # j /\ pc[k] \in Owning => t \notin job[k].pending
  /\ \A k \in Jobs : NewManifest(k) => t # job[k].manifest
  /\ \A c \in Checkpoints : pc[c] \in Copying => t \notin ckpt[c].tables

IOwned == \A j \in Jobs : pc[j] \in Owning => \A t \in job[j].pending : OwnedOK(j, t)

(* The tables of a version in the list. *)
LiveOK(t) ==
  /\ t \in disk /\ t \notin Doomed /\ t \notin DOMAIN manifests
  /\ t \in Tables \/ t \in zombies
  /\ \A k \in Jobs : NewManifest(k) => t # job[k].manifest

ITables ==
  /\ \A v \in Listed : \A t \in versions[v].tables : LiveOK(t)
  /\ Tables \subseteq linked
  /\ Tables \intersect zombies = {}

(* No number in use is given again. *)
IFresh ==
  /\ \A f \in disk \union Doomed \union zombies \union DOMAIN manifests : f < nextFile
  /\ \A j \in Jobs : NewManifest(j) => job[j].manifest < nextFile

(* The last edit of a manifest. *)
End(m) == manifests[m][Len(manifests[m])]

ManifestOK(j) ==
  /\ pc[j] \in {"create", "setcurrent"} => job[j].manifest # 0
  /\ NewManifest(j) => job[j].manifest \notin Doomed /\ job[j].manifest # manifestNum
  /\ NewManifest(j) => (job[j].manifest \in DOMAIN manifests <=> pc[j] # "create")
  /\ NewManifest(j) /\ pc[j] \in {"setcurrent", "install"} => End(job[j].manifest) = versions[job[j].version].tables
  /\ pc[j] = "install" /\ job[j].manifest = 0 => End(manifestNum) = versions[job[j].version].tables
  /\ pc[j] = "install" /\ job[j].manifest # 0 => currentFile = job[j].manifest

IManifests ==
  /\ \A m \in DOMAIN manifests : manifests[m] # <<>>
  /\ manifestNum \in DOMAIN manifests /\ manifestNum \notin Doomed
  /\ (\A j \in Jobs : ~(pc[j] = "install" /\ job[j].manifest = 0)) => End(manifestNum) = Tables
  /\ (\A j \in Jobs : ~(pc[j] = "install" /\ job[j].manifest # 0)) => currentFile = manifestNum
  /\ \A j \in Jobs : ManifestOK(j)

(* What a checkpoint copies stays. *)
CopyOK(c) ==
  /\ pc[c] \in Copying => ckpt[c].tables \subseteq disk /\ ckpt[c].tables \intersect pacing = {}
  /\ pc[c] = "copy" =>
       /\ ckpt[c].manifest \in DOMAIN manifests /\ ckpt[c].manifest \notin pacing
       /\ ckpt[c].size \in 1 .. Len(manifests[ckpt[c].manifest])
       /\ manifests[ckpt[c].manifest][ckpt[c].size] = ckpt[c].tables
  /\ pc[c] = "link" => ckpt[c].copied # <<>> /\ Last(ckpt[c].copied) = ckpt[c].tables

ICopies == \A c \in Checkpoints : CopyOK(c)

(* A table becomes obsolete once. *)
ObsoleteOK(r) ==
  /\ reader[r].obsolete \subseteq zombies
  /\ \A t \in reader[r].obsolete : t \notin obsolete /\ t \notin taken
  /\ pc[r] # "remove" => reader[r].obsolete = {}

IObsolete ==
  /\ \A r \in Readers : ObsoleteOK(r)
  /\ \A q, r \in Readers : q # r => reader[q].obsolete \intersect reader[r].obsolete = {}

IFiles == IFileType /\ IJobs /\ IOwned /\ ITables /\ IFresh /\ IManifests /\ ICopies /\ IObsolete

-----------------------------------------------------------------------------
(* Roles of a file: what a step may do to them. *)

IsLive(t) == \E v \in Listed : t \in versions[v].tables

(* Tables of a job that gives them up. *)
Left(t) == \E j \in Jobs : pc[j] \in Owning /\ pc'[j] \notin Owning /\ t \in job[j].pending

JobsRoles ==
  \A j \in Jobs :
    /\ pc'[j] \in Owning => job'[j].pending = {} \/ (pc[j] \in Owning /\ job'[j].pending = job[j].pending)
    /\ NewManifest(j)' => NewManifest(j) /\ job'[j].manifest = job[j].manifest

DiskStep ==
  /\ disk' \subseteq disk
  /\ \A t \in disk : t \notin disk' => t \in Doomed \/ (Left(t) /\ ~IsLive(t)')

DoomStep ==
  \A t \in Doomed' :
    \/ t \in Doomed
    \/ (Left(t) \/ IsLive(t)) /\ ~IsLive(t)'
    \/ t = manifestNum /\ manifestNum' # manifestNum

LiveStep   == \A t : IsLive(t)' => IsLive(t) \/ Left(t)
ZombieStep == \A t \in zombies' : t \in zombies \/ IsLive(t)
DirStep    == \A m \in DOMAIN manifests' : m \in DOMAIN manifests \/ \E k \in Jobs : NewManifest(k) /\ m = job[k].manifest
CkptStep ==
  \A c \in Checkpoints : pc'[c] \in Copying =>
    \/ pc[c] \in Copying /\ ckpt'[c].tables = ckpt[c].tables
    \/ \A t \in ckpt'[c].tables : IsLive(t)

CurrentStep ==
  /\ \A t : IsLive(t)' => t \in Tables' \/ t \in zombies'
  /\ Tables' \subseteq linked'
  /\ Tables' \intersect zombies' = {}

RolesStep ==
  JobsRoles /\ DiskStep /\ DoomStep /\ LiveStep /\ ZombieStep /\ DirStep /\ CkptStep /\ CurrentStep

LEMMA LiveFacts ==
  ASSUME IRefs, IFiles
  PROVE  /\ \A t : IsLive(t) => LiveOK(t) /\ t \in Nat
         /\ \A t \in Tables : IsLive(t)
         /\ Tables \subseteq Nat
<1>1. current \in Listed
  BY CurrentHeld DEF Listed, IRefs, IRefType
<1>2. \A t \in Tables : IsLive(t)
  BY <1>1 DEF IsLive, Tables
<1>3. \A t : IsLive(t) => LiveOK(t)
  BY DEF IsLive, IFiles, ITables
<1>4. disk \subseteq Nat
  BY DEF IFiles, IFileType
<1> QED BY <1>2, <1>3, <1>4 DEF LiveOK

LEMMA OwnedFacts ==
  ASSUME IFiles, NEW j \in Jobs, pc[j] \in Owning, NEW t \in job[j].pending
  PROVE  OwnedOK(j, t) /\ ~IsLive(t)
BY DEF IFiles, IOwned, OwnedOK, IsLive

LEMMA GivenIs ==
  /\ \A t : t \in Given <=> \E r \in Readers : t \in reader[r].obsolete
  /\ \A t : t \in Given' <=> \E r \in Readers : t \in reader'[r].obsolete
BY DEF Given

LEMMA RolesOwned ==
  ASSUME IRefs, IFiles, RolesStep
  PROVE  IOwned'
<1> SUFFICES ASSUME NEW j \in Jobs, pc'[j] \in Owning, NEW t \in job'[j].pending
             PROVE  OwnedOK(j, t)'
  BY DEF IOwned
<1>1. pc[j] \in Owning /\ t \in job[j].pending
  BY DEF RolesStep, JobsRoles
<1>2. OwnedOK(j, t) /\ ~IsLive(t)
  BY <1>1, OwnedFacts
<1>3. ~Left(t)
  BY <1>1, <1>2 DEF Left, OwnedOK
<1>4. t \in disk'
  BY <1>2, <1>3 DEF RolesStep, DiskStep, OwnedOK
<1>5. t # manifestNum
  BY <1>2 DEF OwnedOK, IFiles, IManifests
<1>6. t \notin Doomed'
  BY <1>2, <1>3, <1>5 DEF RolesStep, DoomStep, OwnedOK
<1>7. t \notin zombies'
  BY <1>2 DEF RolesStep, ZombieStep, OwnedOK
<1>8. t \notin DOMAIN manifests'
  BY <1>2 DEF RolesStep, DirStep, OwnedOK
<1>9. ~IsLive(t)'
  BY <1>2, <1>3 DEF RolesStep, LiveStep
<1>10. \A k \in Jobs : k # j /\ pc'[k] \in Owning => t \notin job'[k].pending
  BY <1>2 DEF RolesStep, JobsRoles, OwnedOK
<1>11. \A k \in Jobs : NewManifest(k)' => t # job'[k].manifest
  BY <1>2 DEF RolesStep, JobsRoles, OwnedOK
<1>12. \A c \in Checkpoints : pc'[c] \in Copying => t \notin ckpt'[c].tables
  BY <1>2 DEF RolesStep, CkptStep, OwnedOK
<1> QED BY <1>4, <1>6, <1>7, <1>8, <1>9, <1>10, <1>11, <1>12 DEF OwnedOK, IsLive

LEMMA RolesTables ==
  ASSUME IRefs, IFiles, RolesStep
  PROVE  ITables'
<1>1. ASSUME NEW t, IsLive(t)' PROVE LiveOK(t)'
  <2>1. CASE IsLive(t)
    <3>1. LiveOK(t)
      BY <2>1, LiveFacts
    <3>2. t \in disk'
      BY <1>1, <3>1 DEF RolesStep, DiskStep, LiveOK
    <3>3. t # manifestNum
      BY <3>1 DEF LiveOK, IFiles, IManifests
    <3>4. t \notin Doomed'
      BY <1>1, <3>1, <3>3 DEF RolesStep, DoomStep, LiveOK
    <3>5. t \notin DOMAIN manifests'
      BY <3>1 DEF RolesStep, DirStep, LiveOK
    <3>6. \A k \in Jobs : NewManifest(k)' => t # job'[k].manifest
      BY <3>1 DEF RolesStep, JobsRoles, LiveOK
    <3>7. t \in Tables' \/ t \in zombies'
      BY <1>1 DEF RolesStep, CurrentStep
    <3> QED BY <3>2, <3>4, <3>5, <3>6, <3>7 DEF LiveOK
  <2>2. CASE ~IsLive(t)
    <3>1. PICK j \in Jobs : pc[j] \in Owning /\ t \in job[j].pending
      BY <1>1, <2>2 DEF RolesStep, LiveStep, Left
    <3>2. OwnedOK(j, t)
      BY <3>1, OwnedFacts
    <3>3. t \in disk'
      BY <1>1, <3>2 DEF RolesStep, DiskStep, OwnedOK
    <3>4. t # manifestNum
      BY <3>2 DEF OwnedOK, IFiles, IManifests
    <3>5. t \notin Doomed'
      BY <1>1, <3>2, <3>4 DEF RolesStep, DoomStep, OwnedOK
    <3>6. t \notin DOMAIN manifests'
      BY <3>2 DEF RolesStep, DirStep, OwnedOK
    <3>7. \A k \in Jobs : NewManifest(k)' => t # job'[k].manifest
      BY <3>2 DEF RolesStep, JobsRoles, OwnedOK
    <3>8. t \in Tables' \/ t \in zombies'
      BY <1>1 DEF RolesStep, CurrentStep
    <3> QED BY <3>3, <3>5, <3>6, <3>7, <3>8 DEF LiveOK
  <2> QED BY <2>1, <2>2
<1> QED BY <1>1 DEF ITables, IsLive, RolesStep, CurrentStep

(* Every file in use has a number that was given out. *)
LEMMA UsedFresh ==
  ASSUME IRefs, IFiles, NEW t,
         \/ t \in disk \/ t \in Doomed \/ t \in zombies \/ t \in DOMAIN manifests \/ IsLive(t)
         \/ \E j \in Jobs : pc[j] \in Owning /\ t \in job[j].pending
         \/ \E j \in Jobs : NewManifest(j) /\ t = job[j].manifest
  PROVE  t \in Nat /\ t < nextFile
<1>1. CASE t \in disk \/ t \in Doomed \/ t \in zombies \/ t \in DOMAIN manifests
  <2>1. t < nextFile
    BY <1>1 DEF IFiles, IFresh
  <2>2. Given \subseteq Nat
    BY GivenIs DEF IRefs, IRefType, ReaderType
  <2> QED BY <1>1, <2>1, <2>2 DEF IFiles, IFileType, Doomed
<1>2. CASE IsLive(t)
  BY <1>1, <1>2, LiveFacts DEF LiveOK
<1>3. ASSUME NEW j \in Jobs, pc[j] \in Owning, t \in job[j].pending PROVE t \in disk
  BY <1>3, OwnedFacts DEF OwnedOK
<1>4. ASSUME NEW j \in Jobs, NewManifest(j), t = job[j].manifest PROVE t \in Nat /\ t < nextFile
  <2>1. job[j].manifest \in Nat
    BY JobFields DEF IRefs, IRefType
  <2> QED BY <1>4, <2>1 DEF IFiles, IFresh
<1> QED BY <1>1, <1>2, <1>3, <1>4

LEMMA RolesFresh ==
  ASSUME IRefs, IFiles, RolesStep, nextFile' >= nextFile, nextFile' \in Nat
  PROVE  /\ IFresh'
         /\ disk' \subseteq Nat /\ Doomed' \subseteq Nat /\ zombies' \subseteq Nat /\ DOMAIN manifests' \subseteq Nat
<1>0. nextFile \in Nat
  BY DEF IRefs, IRefType
<1>1. ASSUME NEW t \in disk' PROVE t \in Nat /\ t < nextFile
  BY <1>1, UsedFresh DEF RolesStep, DiskStep
<1>2. ASSUME NEW t \in zombies' PROVE t \in Nat /\ t < nextFile
  BY <1>2, UsedFresh DEF RolesStep, ZombieStep
<1>3. ASSUME NEW t \in DOMAIN manifests' PROVE t \in Nat /\ t < nextFile
  BY <1>3, UsedFresh DEF RolesStep, DirStep
<1>4. ASSUME NEW t \in Doomed' PROVE t \in Nat /\ t < nextFile
  <2>1. manifestNum \in DOMAIN manifests
    BY DEF IFiles, IManifests
  <2>2. t \in Doomed \/ Left(t) \/ IsLive(t) \/ t = manifestNum
    BY <1>4 DEF RolesStep, DoomStep
  <2>3. Left(t) => \E j \in Jobs : pc[j] \in Owning /\ t \in job[j].pending
    BY DEF Left
  <2> QED BY <2>1, <2>2, <2>3, UsedFresh
<1>5. ASSUME NEW j \in Jobs, NewManifest(j)' PROVE job'[j].manifest \in Nat /\ job'[j].manifest < nextFile
  <2>1. NewManifest(j) /\ job'[j].manifest = job[j].manifest
    BY <1>5 DEF RolesStep, JobsRoles
  <2> QED BY <2>1, UsedFresh
<1>6. \A n \in Nat : n < nextFile => n < nextFile'
  BY <1>0
<1> QED BY <1>1, <1>2, <1>3, <1>4, <1>5, <1>6 DEF IFresh

-----------------------------------------------------------------------------
(* The other parts of the invariant, in steps that do not concern them much. *)

ManifestsStep ==
  /\ manifestNum' = manifestNum /\ currentFile' = currentFile /\ Tables' = Tables
  /\ \A m \in DOMAIN manifests' : m \in DOMAIN manifests /\ manifests'[m] = manifests[m]
  /\ \A m \in DOMAIN manifests : m \notin Doomed => m \in DOMAIN manifests'
  /\ \A j \in Jobs : pc'[j] \in Built =>
       /\ pc'[j] = pc[j] /\ job'[j].manifest = job[j].manifest
       /\ versions'[job'[j].version].tables = versions[job[j].version].tables
  /\ \A j \in Jobs : pc[j] = "install" => pc'[j] = "install"

(* A manifest in use does not become obsolete. *)
LEMMA ManifestSpared ==
  ASSUME IRefs, IFiles, DoomStep, NEW m, m \notin Doomed, m # manifestNum \/ manifestNum' = manifestNum,
         m \in DOMAIN manifests \/ \E j \in Jobs : NewManifest(j) /\ m = job[j].manifest
  PROVE  m \notin Doomed'
<1>1. ~Left(m)
  BY OwnedFacts DEF Left, OwnedOK
<1>2. ~IsLive(m)
  BY LiveFacts DEF LiveOK
<1> QED BY <1>1, <1>2 DEF DoomStep

LEMMA DoomManifests ==
  ASSUME IRefs, IFiles, DoomStep, ManifestsStep
  PROVE  IManifests'
<1>1. /\ manifestNum \in DOMAIN manifests /\ manifestNum \notin Doomed /\ DoomStep
      /\ \A m \in DOMAIN manifests : manifests[m] # <<>>
  BY DEF IFiles, IManifests
<1>2. manifestNum' \in DOMAIN manifests' /\ manifestNum' \notin Doomed'
  BY <1>1, ManifestSpared DEF ManifestsStep
<1>3. \A m \in DOMAIN manifests' : manifests'[m] # <<>>
  BY <1>1 DEF ManifestsStep
<1>4. \A m \in DOMAIN manifests' : End(m)' = End(m)
  BY DEF End, ManifestsStep
<1>5. End(manifestNum)' = End(manifestNum)
  BY <1>2, <1>4 DEF ManifestsStep
<1>6. ASSUME NEW j \in Jobs PROVE ManifestOK(j)'
  <2>1. CASE pc'[j] \notin Built
    BY <2>1 DEF ManifestOK, NewManifest, Built
  <2>2. CASE pc'[j] \in Built
    <3>1. /\ pc'[j] = pc[j] /\ job'[j].manifest = job[j].manifest /\ ManifestOK(j)
          /\ versions'[job'[j].version].tables = versions[job[j].version].tables
          /\ NewManifest(j)' <=> NewManifest(j)
      BY <2>2 DEF ManifestsStep, IFiles, IManifests, NewManifest
    <3>2. NewManifest(j) => job[j].manifest \notin Doomed'
      BY <1>1, <3>1, ManifestSpared DEF ManifestOK, ManifestsStep
    <3>3. NewManifest(j) => (job[j].manifest \in DOMAIN manifests' <=> pc[j] # "create")
      BY <3>1 DEF ManifestOK, ManifestsStep
    <3>4. NewManifest(j) /\ pc[j] \in {"setcurrent", "install"} =>
            End(job[j].manifest)' = versions[job[j].version].tables
      BY <1>4, <3>1, <3>3 DEF ManifestOK
    <3> QED BY <1>5, <3>1, <3>2, <3>3, <3>4 DEF ManifestOK, ManifestsStep
  <2> QED BY <2>1, <2>2
<1>7. (\A j \in Jobs : ~(pc'[j] = "install" /\ job'[j].manifest = 0)) => End(manifestNum)' = Tables'
  BY <1>5 DEF ManifestsStep, Built, IFiles, IManifests
<1>8. (\A j \in Jobs : ~(pc'[j] = "install" /\ job'[j].manifest # 0)) => currentFile' = manifestNum'
  BY DEF ManifestsStep, Built, IFiles, IManifests
<1> QED BY <1>2, <1>3, <1>6, <1>7, <1>8 DEF IManifests

LEMMA ManifestsFrame ==
  ASSUME IRefs, IFiles, RolesStep, ManifestsStep
  PROVE  IManifests'
BY DoomManifests DEF RolesStep

SameCopy(c) ==
  /\ pc'[c] = pc[c] /\ ckpt'[c].tables = ckpt[c].tables /\ ckpt'[c].manifest = ckpt[c].manifest
  /\ ckpt'[c].size = ckpt[c].size /\ ckpt'[c].copied = ckpt[c].copied

(* Checkpoints that copy keep what they copy. *)
CopiesKeep ==
  /\ pacing' \subseteq pacing
  /\ \A t \in disk : t \notin disk' => t \in pacing \/ Left(t)
  /\ \A m \in DOMAIN manifests : m \notin pacing =>
       /\ m \in DOMAIN manifests' /\ Len(manifests[m]) \in Nat /\ Len(manifests'[m]) \in Nat
       /\ Len(manifests'[m]) >= Len(manifests[m])
       /\ \A i \in 1 .. Len(manifests[m]) : manifests'[m][i] = manifests[m][i]

LEMMA CopiesFrame ==
  ASSUME IFiles, CopiesKeep, NEW c \in Checkpoints, pc'[c] \in Copying => SameCopy(c)
  PROVE  CopyOK(c)'
<1>1. CASE pc'[c] \notin Copying
  BY <1>1 DEF CopyOK, Copying
<1>2. CASE pc'[c] \in Copying
  <2>1. SameCopy(c) /\ CopyOK(c) /\ pc[c] \in Copying
    BY <1>2 DEF IFiles, ICopies, SameCopy
  <2>2. ckpt[c].tables \subseteq disk' /\ ckpt[c].tables \intersect pacing' = {}
    <3>1. ASSUME NEW t \in ckpt[c].tables PROVE ~Left(t)
      BY <2>1, OwnedFacts DEF Left, OwnedOK
    <3> QED BY <2>1, <3>1 DEF CopyOK, CopiesKeep
  <2>3. CASE pc[c] = "copy"
    <3>1. /\ ckpt[c].manifest \in DOMAIN manifests /\ ckpt[c].manifest \notin pacing
          /\ ckpt[c].size \in 1 .. Len(manifests[ckpt[c].manifest])
          /\ manifests[ckpt[c].manifest][ckpt[c].size] = ckpt[c].tables
      BY <2>1, <2>3 DEF CopyOK
    <3>2. /\ ckpt[c].manifest \in DOMAIN manifests' /\ ckpt[c].manifest \notin pacing'
          /\ Len(manifests[ckpt[c].manifest]) \in Nat /\ Len(manifests'[ckpt[c].manifest]) \in Nat
          /\ Len(manifests'[ckpt[c].manifest]) >= Len(manifests[ckpt[c].manifest])
          /\ \A i \in 1 .. Len(manifests[ckpt[c].manifest]) :
               manifests'[ckpt[c].manifest][i] = manifests[ckpt[c].manifest][i]
      BY <3>1 DEF CopiesKeep
    <3>3. ckpt[c].size \in 1 .. Len(manifests'[ckpt[c].manifest])
      BY <3>1, <3>2
    <3>4. manifests'[ckpt[c].manifest][ckpt[c].size] = ckpt[c].tables
      BY <3>1, <3>2
    <3> QED BY <2>1, <2>2, <2>3, <3>2, <3>3, <3>4 DEF CopyOK, SameCopy
  <2>4. CASE pc[c] = "link"
    BY <2>1, <2>2, <2>4 DEF CopyOK, SameCopy
  <2> QED BY <2>1, <2>3, <2>4 DEF Copying
<1> QED BY <1>1, <1>2

ObsoleteStep ==
  /\ \A r \in Readers : \A t \in reader'[r].obsolete : t \in reader[r].obsolete /\ t \in zombies'
  /\ \A r \in Readers : pc'[r] # "remove" => pc[r] # "remove" \/ reader'[r].obsolete = {}
  /\ \A t : t \in obsolete' \/ t \in taken' =>
       t \in obsolete \/ t \in taken \/ \A r \in Readers : t \notin reader'[r].obsolete

LEMMA ObsoleteFrame ==
  ASSUME IFiles, ObsoleteStep
  PROVE  IObsolete'
<1>1. ASSUME NEW r \in Readers PROVE ObsoleteOK(r)'
  <2>1. ObsoleteOK(r)
    BY DEF IFiles, IObsolete
  <2>2. reader'[r].obsolete \subseteq zombies'
    BY DEF ObsoleteStep
  <2>3. \A t \in reader'[r].obsolete : t \notin obsolete' /\ t \notin taken'
    BY <2>1 DEF ObsoleteStep, ObsoleteOK
  <2>4. pc'[r] # "remove" => reader'[r].obsolete = {}
    BY <2>1 DEF ObsoleteStep, ObsoleteOK
  <2> QED BY <2>2, <2>3, <2>4 DEF ObsoleteOK
<1>2. \A q, r \in Readers : q # r => reader'[q].obsolete \intersect reader'[r].obsolete = {}
  BY DEF IFiles, IObsolete, ObsoleteStep
<1> QED BY <1>1, <1>2 DEF IObsolete

JobStays(j) ==
  /\ pc'[j] = pc[j] /\ job'[j] = job[j]
  /\ pc[j] \in Built => versions'[job[j].version].tables = versions[job[j].version].tables

(* The outputs of a job are on disk. *)
LEMMA OutputsExist ==
  ASSUME IRefs, IFiles, NEW j \in Jobs, pc[j] \in Owning \ {"cleanup"}
  PROVE  job[j].out \subseteq disk
<1>1. JobOK(j)
  BY DEF IFiles, IJobs
<1>2. \A t \in job[j].pending : t \in disk
  BY OwnedFacts DEF OwnedOK
<1>3. \A t \in Tables : t \in disk
  BY LiveFacts DEF LiveOK
<1> QED BY <1>1, <1>2, <1>3 DEF JobOK

LEMMA JobStaysOK ==
  ASSUME IRefs, IFiles, NEW j \in Jobs, JobStays(j), Tables' = Tables, linked' = linked \/ linked' = disk
  PROVE  JobOK(j)'
<1>1. JobOK(j)
  BY DEF IFiles, IJobs
<1>2. pc[j] \in {"lock", "edit"} \union Built => job[j].out \subseteq disk
  BY OutputsExist DEF Owning, Built
<1>3. pc[j] \in {"lock", "edit"} \union Built => job[j].out \subseteq linked'
  BY <1>1, <1>2 DEF JobOK
<1> QED BY <1>1, <1>3 DEF JobOK, JobStays

LEMMA JobsFrame ==
  ASSUME IRefs, IFiles, Tables' = Tables, linked' = linked \/ linked' = disk,
         \A j \in Jobs : JobStays(j) \/ (JobOK(j)' /\ job'[j].in \subseteq job[j].in)
  PROVE  IJobs'
<1>1. \A j \in Jobs : JobOK(j)'
  BY JobStaysOK
<1>2. \A j \in Jobs : job'[j].in \subseteq job[j].in
  BY DEF JobStays
<1>3. \A j, k \in Jobs : j # k => job'[j].in \intersect job'[k].in = {}
  BY <1>2 DEF IFiles, IJobs
<1> QED BY <1>1, <1>3 DEF IJobs

-----------------------------------------------------------------------------
(* Types. *)

RestType ==
  /\ linked \subseteq Nat /\ manifestNum \in Nat /\ currentFile \in Nat
  /\ manifests \in [DOMAIN manifests -> Seq(SUBSET Nat)]
  /\ ckpt \in [Checkpoints -> CkptType]

LEMMA NoCkptType == NoCkpt \in CkptType
BY DEF NoCkpt, CkptType

LEMMA SubSeqType ==
  ASSUME NEW S, NEW s \in Seq(S), NEW n \in 1 .. Len(s)
  PROVE  SubSeq(s, 1, n) \in Seq(S) /\ Len(SubSeq(s, 1, n)) = n /\ SubSeq(s, 1, n)[n] = s[n]
OBVIOUS

LEMMA ManifestAt ==
  ASSUME IFiles, NEW m \in DOMAIN manifests
  PROVE  manifests[m] \in Seq(SUBSET Nat) /\ Len(manifests[m]) \in Nat /\ Len(manifests[m]) > 0
         /\ End(m) \subseteq Nat
<1>1. manifests[m] \in Seq(SUBSET Nat) /\ manifests[m] # <<>>
  BY DEF IFiles, IFileType, IManifests
<1> QED BY <1>1 DEF End

LEMMA NextRestType ==
  ASSUME IControl, IRefs, IFiles, [Next]_vars
  PROVE  RestType'
<1>1. RestType /\ disk \subseteq Nat
  BY DEF IFiles, IFileType, RestType
<1>2. CASE UNCHANGED <<linked, manifestNum, currentFile, manifests, ckpt>>
  BY <1>1, <1>2 DEF RestType
<1>3. ASSUME NEW w, Finish(w) PROVE ckpt' \in [Checkpoints -> CkptType]
  BY <1>1, <1>3, NoCkptType DEF Finish, RestType
<1>4. ASSUME UNCHANGED <<linked, manifestNum, currentFile, manifests>>,
             \E w : Finish(w) \/ UNCHANGED ckpt
      PROVE  RestType'
  BY <1>1, <1>3, <1>4 DEF RestType
<1>5. ASSUME NEW f, RemoveFile(f), UNCHANGED <<manifestNum, ckpt>> PROVE RestType'
  <2>1. manifests' \in [DOMAIN manifests' -> Seq(SUBSET Nat)]
    BY <1>1, <1>5 DEF RemoveFile, RestType
  <2> QED BY <1>1, <1>5, <2>1 DEF RemoveFile, RestType
<1>6. ASSUME NEW j \in Jobs, JobStep(j) PROVE RestType'
  <2>1. CASE LogLock(j) \/ Pick(j) \/ PickNothing(j) \/ NewOutput(j) \/ FailOutputs(j) \/ FailManifest(j) \/ SwapState(j)
    BY <1>2, <2>1 DEF LogLock, Pick, PickNothing, NewOutput, FailOutputs, FailManifest, SwapState, numVars, diskVars
  <2>2. CASE NoOutput(j) \/ FailIngest(j) \/ IngestCleanup(j) \/ UnrefOld(j)
    BY <1>4, <2>2 DEF NoOutput, FailIngest, IngestCleanup, UnrefOld, numVars, diskVars
  <2>3. CASE SyncOutputs(j)
    BY <1>1, <2>3 DEF SyncOutputs, numVars, RestType
  <2>4. CASE \E replace \in BOOLEAN : Edit(j, replace)
    BY <1>2, <2>4 DEF Edit, diskVars
  <2>5. CASE CreateManifest(j)
    <3>1. <<versions[current].tables>> \in Seq(SUBSET Nat)
      BY LiveFacts DEF Tables
    <3>2. manifests' \in [DOMAIN manifests' -> Seq(SUBSET Nat)]
      BY <1>1, <2>5, <3>1 DEF CreateManifest, RestType
    <3>3. UNCHANGED <<linked, manifestNum, currentFile, ckpt>>
      BY <2>5 DEF CreateManifest, numVars
    <3> QED BY <1>1, <3>2, <3>3 DEF RestType
  <2>6. CASE AppendEdit(j)
    <3>1. PICK m : manifests' = [manifests EXCEPT ![m] = Append(manifests[m], versions[job[j].version].tables)]
      BY <2>6 DEF AppendEdit
    <3>2. versions[job[j].version].tables \subseteq Nat
      <4>1. job[j].version \in 1 .. Len(versions)
        BY <2>6, VersionFacts DEF AppendEdit, IRefs, IBuilt, Built
      <4> QED BY <4>1, VersionFacts DEF IRefs
    <3>3. manifests' \in [DOMAIN manifests' -> Seq(SUBSET Nat)]
      <4>1. CASE m \in DOMAIN manifests
        <5>1. Append(manifests[m], versions[job[j].version].tables) \in Seq(SUBSET Nat)
          BY <3>2, <4>1, ManifestAt
        <5> QED BY <1>1, <3>1, <4>1, <5>1 DEF RestType
      <4>2. CASE m \notin DOMAIN manifests
        BY <1>1, <3>1, <4>2 DEF RestType
      <4> QED BY <4>1, <4>2
    <3>4. UNCHANGED <<linked, manifestNum, currentFile, ckpt>>
      BY <2>6 DEF AppendEdit, numVars
    <3> QED BY <1>1, <3>3, <3>4 DEF RestType
  <2>7. CASE SetCurrentFile(j)
    <3>1. job[j].manifest \in Nat
      BY JobFields DEF IRefs, IRefType
    <3> QED BY <1>1, <2>7, <3>1 DEF SetCurrentFile, numVars, RestType
  <2>8. CASE Install(j)
    <3>1. job[j].manifest \in Nat
      BY JobFields DEF IRefs, IRefType
    <3> QED BY <1>1, <2>8, <3>1 DEF Install, diskVars, RestType
  <2> QED BY <1>6, <2>1, <2>2, <2>3, <2>4, <2>5, <2>6, <2>7, <2>8 DEF JobStep
<1>7. ASSUME NEW j \in Jobs, NEW kind \in {"flush", "compaction", "ingest", "rotation"}, Begin(j, kind)
      PROVE  RestType'
  BY <1>2, <1>7 DEF Begin, numVars, diskVars
<1>8. ASSUME NEW w \in Workers, CleaningStep(w) PROVE RestType'
  BY <1>4, <1>5, <1>8 DEF CleaningStep, AcquireCleaningTurn, DeleteFile, ReleaseCleaningTurn, numVars, diskVars
<1>9. ASSUME NEW r \in Readers, Load(r) \/ UnrefState(r) \/ UnrefStep(r) PROVE RestType'
  BY <1>2, <1>9 DEF UnrefStep, Load, UnrefState, UnrefVersion, UnrefFiles, RemoveVersion, Schedule, readerRest,
                    numVars, diskVars
<1>10. ASSUME NEW c \in Checkpoints, CheckpointStep(c) \/ Disable(c) PROVE RestType'
  <2>0. ckpt \in [Checkpoints -> CkptType]
    BY <1>1 DEF RestType
  <2>1. UNCHANGED <<linked, manifestNum, currentFile, manifests>>
    BY <1>10 DEF CheckpointStep, Disable, DisableWoken, LogLock, Snapshot, CopyManifest, LinkTable, FailCheckpoint,
                 Enable, ckptRest, numVars, diskVars
  <2>2. CASE Disable(c) \/ DisableWoken(c) \/ LogLock(c)
    BY <1>4, <2>1, <2>2 DEF Disable, DisableWoken, LogLock
  <2>3. CASE Snapshot(c)
    <3>1. manifestNum \in Nat /\ Tables \subseteq Nat /\ Len(manifests[manifestNum]) \in Nat
      BY LiveFacts, ManifestAt DEF IFiles, IFileType, IManifests
    <3> DEFINE t == Tables
               n == Len(manifests[manifestNum])
    <3>2. ckpt' = [ckpt EXCEPT ![c].tables = t, ![c].manifest = manifestNum, ![c].size = n]
      BY <2>3 DEF Snapshot, Tables
    <3> HIDE DEF t, n
    <3>3. t \subseteq Nat /\ n \in Nat
      BY <3>1 DEF t, n
    <3>4. ckpt' \in [Checkpoints -> CkptType]
      BY <2>0, <3>1, <3>2, <3>3 DEF CkptType
    <3> QED BY <1>1, <2>1, <3>4 DEF RestType
  <2>4. CASE CopyManifest(c)
    <3>1. /\ ckpt[c].manifest \in DOMAIN manifests
          /\ ckpt[c].size \in 1 .. Len(manifests[ckpt[c].manifest])
      BY <2>4 DEF CopyManifest, IFiles, ICopies, CopyOK
    <3> DEFINE s == SubSeq(manifests[ckpt[c].manifest], 1, ckpt[c].size)
    <3>2. s \in Seq(SUBSET Nat)
      BY <3>1, ManifestAt, SubSeqType
    <3>3. ckpt' = [ckpt EXCEPT ![c].copied = s]
      BY <2>4 DEF CopyManifest
    <3> HIDE DEF s
    <3>4. ckpt' \in [Checkpoints -> CkptType]
      BY <2>0, <3>2, <3>3 DEF CkptType
    <3> QED BY <1>1, <2>1, <3>4 DEF RestType
  <2>5. CASE LinkTable(c)
    <3>1. PICK t \in disk : ckpt' = [ckpt EXCEPT ![c].linked = ckpt[c].linked \union {t}]
      BY <2>5 DEF LinkTable
    <3> DEFINE l == ckpt[c].linked \union {t}
    <3>2. l \subseteq Nat
      BY <1>1, <2>0, <3>1 DEF CkptType
    <3>3. ckpt' = [ckpt EXCEPT ![c].linked = l]
      BY <3>1
    <3> HIDE DEF l
    <3>4. ckpt' \in [Checkpoints -> CkptType]
      BY <2>0, <3>2, <3>3 DEF CkptType
    <3> QED BY <1>1, <2>1, <3>4 DEF RestType
  <2>6. CASE FailCheckpoint(c)
    <3>1. ckpt' = [ckpt EXCEPT ![c] = NoCkpt]
      BY <2>6 DEF FailCheckpoint
    <3> QED BY <1>1, <2>0, <2>1, <3>1, NoCkptType DEF RestType
  <2>7. CASE Enable(c)
    BY <1>4, <2>1, <2>7 DEF Enable
  <2> QED BY <1>10, <2>2, <2>3, <2>4, <2>5, <2>6, <2>7 DEF CheckpointStep
<1>11. CASE PacedDelete
  BY <1>5, <1>11 DEF PacedDelete, numVars
<1>12. CASE CleanerStart \/ BeginClose \/ CloseStep \/ Terminated \/ UNCHANGED vars
  BY <1>2, <1>12 DEF CleanerStart, BeginClose, CloseStep, CloseState, Drain, AwaitDeleters, closeRest,
                     Terminated, vars, numVars, diskVars
<1> QED BY <1>6, <1>7, <1>8, <1>9, <1>10, <1>11, <1>12 DEF Next

(* The parts of the third invariant. *)
LEMMA FilesParts ==
  ASSUME IRefs, IFiles, RestType', nextFile' \in Nat, nextFile' >= nextFile, RolesStep, IJobs', IManifests', ICopies', IObsolete'
  PROVE  IFiles'
<1>1. IOwned' /\ ITables'
  BY RolesOwned, RolesTables
<1>2. IFresh' /\ disk' \subseteq Nat /\ Doomed' \subseteq Nat /\ zombies' \subseteq Nat /\ DOMAIN manifests' \subseteq Nat
  BY RolesFresh
<1>3. IFileType'
  BY <1>2 DEF IFileType, RestType, Doomed
<1> QED BY <1>1, <1>2, <1>3 DEF IFiles

-----------------------------------------------------------------------------
(* Steps that leave the files alone. *)

LiveSame ==
  /\ \A t : IsLive(t)' <=> IsLive(t)
  /\ Tables' = Tables
  /\ \A v \in 1 .. Len(versions) : versions'[v].tables = versions[v].tables

LEMMA SameVersions ==
  ASSUME UNCHANGED <<versions, list>>
  PROVE  LiveSame
BY DEF LiveSame, IsLive, Listed, Tables, current

(* A job that works on, or is done. *)
JobQuiet(j) ==
  \/ pc'[j] = pc[j] /\ job'[j] = job[j]
  \/ /\ pc[j] \notin Built /\ pc'[j] \notin Built
     /\ JobOK(j)' /\ job'[j].in \subseteq job[j].in
     /\ pc'[j] \in Owning => job'[j].pending = {} \/ (pc[j] \in Owning /\ job'[j].pending = job[j].pending)

fileVars == <<disk, linked, manifests, currentFile, manifestNum, zombies, obsolete, oldManifests, taken, todo, pacing>>

LEMMA QuietRoles ==
  ASSUME IRefs, IFiles, LiveSame, UNCHANGED <<disk, linked, manifests, manifestNum, zombies>>, Doomed' \subseteq Doomed,
         \A j \in Jobs : JobQuiet(j), CkptStep
  PROVE  RolesStep
<1>1. JobsRoles
  BY DEF JobsRoles, JobQuiet, NewManifest
<1>2. DiskStep /\ DoomStep /\ LiveStep /\ ZombieStep /\ DirStep
  BY DEF DiskStep, DoomStep, LiveStep, ZombieStep, DirStep, LiveSame
<1>3. CurrentStep
  BY LiveFacts DEF CurrentStep, LiveSame, LiveOK, IFiles, ITables
<1> QED BY <1>1, <1>2, <1>3 DEF RolesStep

LEMMA BuiltVersion ==
  ASSUME IRefs, NEW j \in Jobs, pc[j] \in Built
  PROVE  job[j].version \in 1 .. Len(versions)
BY VersionFacts DEF IRefs, IBuilt

LEMMA QuietManifests ==
  ASSUME IRefs, LiveSame, UNCHANGED <<manifests, manifestNum, currentFile>>, \A j \in Jobs : JobQuiet(j)
  PROVE  ManifestsStep
<1>1. \A j \in Jobs : pc'[j] \in Built => pc'[j] = pc[j] /\ job'[j] = job[j]
  BY DEF JobQuiet
<1>2. \A j \in Jobs : pc[j] = "install" => pc'[j] = "install"
  BY DEF JobQuiet, Built
<1>3. \A j \in Jobs : pc'[j] \in Built => versions'[job'[j].version].tables = versions[job[j].version].tables
  BY <1>1, BuiltVersion DEF LiveSame
<1> QED BY <1>1, <1>2, <1>3 DEF ManifestsStep, LiveSame

LEMMA QuietJobs ==
  ASSUME IRefs, IFiles, LiveSame, linked' = linked \/ linked' = disk, \A j \in Jobs : JobQuiet(j)
  PROVE  IJobs'
<1>1. \A j \in Jobs : JobStays(j) \/ (JobOK(j)' /\ job'[j].in \subseteq job[j].in)
  BY BuiltVersion DEF JobQuiet, JobStays, LiveSame
<1> QED BY <1>1, JobsFrame DEF LiveSame

LEMMA SameFilesCopies ==
  ASSUME IFiles, UNCHANGED <<disk, manifests, pacing>>
  PROVE  CopiesKeep
BY ManifestAt DEF CopiesKeep

LEMMA SameReaders ==
  ASSUME IFiles, UNCHANGED <<zombies, obsolete, taken>>,
         \A r \in Readers : /\ reader'[r].obsolete = reader[r].obsolete \/ reader'[r].obsolete = {}
                            /\ pc[r] = "remove" => pc'[r] = "remove"
  PROVE  ObsoleteStep
BY DEF ObsoleteStep, IFiles, IObsolete, ObsoleteOK

LEMMA QuietFiles ==
  ASSUME IRefs, IFiles, RestType', nextFile' = nextFile, LiveSame, UNCHANGED fileVars,
         \A r \in Readers : /\ reader'[r].obsolete = reader[r].obsolete \/ reader'[r].obsolete = {}
                            /\ pc[r] = "remove" => pc'[r] = "remove",
         \A j \in Jobs : JobQuiet(j),
         \A c \in Checkpoints : pc'[c] \in Copying => SameCopy(c)
  PROVE  IFiles'
<1>1. UNCHANGED <<disk, linked, manifests, currentFile, manifestNum, zombies, obsolete, oldManifests, taken, todo, pacing>>
  BY DEF fileVars
<1>2. Doomed' \subseteq Doomed
  BY <1>1, GivenIs DEF Doomed
<1>3. CkptStep
  BY DEF CkptStep, SameCopy
<1>4. RolesStep
  BY <1>1, <1>2, <1>3, QuietRoles
<1>5. IManifests'
  BY <1>1, <1>4, QuietManifests, ManifestsFrame
<1>6. IJobs'
  BY <1>1, QuietJobs
<1>7. ICopies'
  BY <1>1, SameFilesCopies, CopiesFrame DEF ICopies
<1>8. IObsolete'
  BY <1>1, SameReaders, ObsoleteFrame
<1>9. nextFile \in Nat
  BY DEF IRefs, IRefType
<1> QED BY <1>4, <1>5, <1>6, <1>7, <1>8, <1>9, FilesParts

(* A job that is idle or done with its files has nothing to show. *)
LEMMA DoneOK ==
  ASSUME NEW j \in Jobs, pc'[j] \notin Owning, pc'[j] # "write", job'[j].in = {},
         pc'[j] \in {"idle", "pick", "picking"} => job'[j].out = {} /\ job'[j].pending = {}
  PROVE  JobOK(j)'
BY DEF JobOK, Owning, Built

LEMMA FinishQuiet ==
  ASSUME IControl, IRefs, IFiles, NEW w \in Workers, Finish(w), pc[w] \notin Built
  PROVE  /\ \A j \in Jobs : JobQuiet(j)
         /\ \A c \in Checkpoints : pc'[c] \in Copying => SameCopy(c)
<1>1. Moves(w) /\ pc'[w] \in {"idle", "deleters"} /\ (w # Closer => pc'[w] = "idle")
  BY FinishWithin
<1>2. ASSUME NEW j \in Jobs PROVE JobQuiet(j)
  <2>1. CASE j = w
    <3>1. job'[j] = NoJob /\ pc'[j] = "idle"
      BY <1>1, <2>1, JobIs DEF Finish
    <3>2. job'[j].in = {} /\ job'[j].out = {} /\ job'[j].pending = {} /\ pc'[j] \notin Owning /\ pc'[j] \notin Built
      BY <3>1 DEF NoJob, Owning, Built
    <3>3. JobOK(j)'
      BY <3>1, <3>2, DoneOK
    <3> QED BY <2>1, <3>2, <3>3 DEF JobQuiet
  <2>2. CASE j # w
    <3>1. job'[j] = job[j] /\ pc'[j] = pc[j]
      BY <1>1, <2>2, JobIs DEF Finish, Moves
    <3> QED BY <3>1 DEF JobQuiet
  <2> QED BY <2>1, <2>2
<1>3. ASSUME NEW c \in Checkpoints, pc'[c] \in Copying PROVE SameCopy(c)
  <2>1. c # w
    BY <1>1, <1>3 DEF Copying
  <2>2. ckpt'[c] = ckpt[c] /\ pc'[c] = pc[c]
    BY <1>1, <2>1, CheckpointIs DEF Finish, Moves
  <2> QED BY <2>2 DEF SameCopy
<1> QED BY <1>2, <1>3

(* A step of a worker that is not a job, or of a reader. *)
LEMMA OthersQuiet ==
  ASSUME NEW w \in Workers \union Readers, Moves(w), UNCHANGED <<job, ckpt>>
  PROVE  /\ w \notin Jobs => \A j \in Jobs : JobQuiet(j)
         /\ w \in Jobs => \A j \in Jobs : j # w => JobQuiet(j)
         /\ w \notin Checkpoints \/ pc'[w] \notin Copying \/ pc'[w] = pc[w] =>
              \A c \in Checkpoints : pc'[c] \in Copying => SameCopy(c)
BY JobIs, CheckpointIs DEF Moves, JobQuiet, SameCopy

LEMMA WorkersRead ==
  ASSUME NEW w \in Workers, Moves(w), UNCHANGED reader
  PROVE  \A r \in Readers : /\ reader'[r].obsolete = reader[r].obsolete \/ reader'[r].obsolete = {}
                            /\ pc[r] = "remove" => pc'[r] = "remove"
BY ReaderIs DEF Moves

LEMMA RefsOnly ==
  ASSUME IRefs, list' = list, \A v \in 1 .. Len(versions) :
           versions'[v].tables = versions[v].tables /\ versions'[v].released = versions[v].released
  PROVE  LiveSame
<1>1. list \subseteq 1 .. Len(versions) /\ current \in 1 .. Len(versions)
  BY VersionFacts DEF IRefs, IRefType
<1>2. current' = current
  BY DEF current
<1>3. Tables' = Tables
  BY <1>1, <1>2 DEF Tables
<1>4. Listed' = Listed /\ Listed \subseteq 1 .. Len(versions)
  BY <1>1 DEF Listed
<1>5. \A t : IsLive(t)' <=> IsLive(t)
  BY <1>4 DEF IsLive
<1> QED BY <1>3, <1>5 DEF LiveSame

(* A quiet step of job j. *)
LEMMA QuietJobStep ==
  ASSUME IControl, IRefs, IFiles, RestType', nextFile' = nextFile, LiveSame, UNCHANGED fileVars, UNCHANGED <<reader, ckpt>>,
         NEW j \in Jobs, Moves(j), \A k \in Jobs : k # j => job'[k] = job[k], JobQuiet(j)
  PROVE  IFiles'
<1>1. j \in Workers /\ j \in Workers \union Readers /\ j \notin Checkpoints
  BY JobIs
<1>2. \A k \in Jobs : JobQuiet(k)
  BY JobIs DEF Moves, JobQuiet
<1>3. \A c \in Checkpoints : pc'[c] \in Copying => SameCopy(c)
  BY <1>1, CheckpointIs DEF Moves, SameCopy
<1>4. \A r \in Readers : /\ reader'[r].obsolete = reader[r].obsolete \/ reader'[r].obsolete = {}
                         /\ pc[r] = "remove" => pc'[r] = "remove"
  BY <1>1, WorkersRead
<1> QED BY <1>2, <1>3, <1>4, QuietFiles

LEMMA JobKnown ==
  ASSUME IRefs, IFiles, NEW j \in Jobs
  PROVE  JobOK(j) /\ job \in [Jobs -> JobType] /\ job[j] \in JobType
BY DEF IFiles, IJobs, IRefs, IRefType

LEMMA LogLockFiles ==
  ASSUME IControl, IRefs, IFiles, RestType', NEW j \in Jobs, LogLock(j)
  PROVE  IFiles'
<1>1. /\ pc[j] \in {"pick", "lock"} /\ UNCHANGED fileVars /\ UNCHANGED <<reader, ckpt, job, nextFile, versions, list>>
      /\ UNCHANGED pc \/ (pc[j] = "pick" /\ Goto(j, "picking")) \/ (pc[j] = "lock" /\ Goto(j, "edit"))
  BY DEF LogLock, fileVars, diskVars, setVars, numVars, cleanerVars, listVars
<1>2. /\ Moves(j)
      /\ pc'[j] = pc[j] \/ (pc[j] = "pick" /\ pc'[j] = "picking") \/ (pc[j] = "lock" /\ pc'[j] = "edit")
  BY <1>1, JobIs, GotoMoves, StayMoves DEF IControl, IType
<1>3. LiveSame
  BY <1>1, SameVersions
<1>4. CASE pc'[j] = pc[j]
  BY <1>1, <1>2, <1>3, <1>4, QuietJobStep DEF JobQuiet
<1>5. CASE pc[j] = "pick" /\ pc'[j] = "picking"
  <2>1. JobOK(j)'
    BY <1>1, <1>3, <1>5, JobKnown DEF JobOK, LiveSame, Owning, Built
  <2> QED BY <1>1, <1>2, <1>3, <1>5, <2>1, QuietJobStep DEF JobQuiet, Built, Owning
<1>6. CASE pc[j] = "lock" /\ pc'[j] = "edit"
  <2>1. JobOK(j)'
    BY <1>1, <1>3, <1>6, JobKnown DEF JobOK, LiveSame, Owning, Built, fileVars
  <2> QED BY <1>1, <1>2, <1>3, <1>6, <2>1, QuietJobStep DEF JobQuiet, Built, Owning
<1> QED BY <1>2, <1>4, <1>5, <1>6

LEMMA BeginFiles ==
  ASSUME IControl, IRefs, IFiles, RestType', NEW j \in Jobs,
         NEW kind \in {"flush", "compaction", "ingest", "rotation"}, Begin(j, kind)
  PROVE  IFiles'
<1>1. /\ pc[j] = "idle" /\ UNCHANGED fileVars /\ UNCHANGED <<reader, ckpt, nextFile, versions, list>>
      /\ job' = [job EXCEPT ![j].kind = kind] /\ \E s \in {"pick", "state", "write"} : Goto(j, s)
  BY DEF Begin, fileVars, diskVars, setVars, numVars, cleanerVars, listVars
<1>2. Moves(j) /\ pc'[j] \in {"pick", "state", "write"}
  BY <1>1, JobIs, GotoMoves DEF IControl, IType
<1>3. LiveSame
  BY <1>1, SameVersions
<1>4. /\ \A k \in Jobs : k # j => job'[k] = job[k]
      /\ job'[j].in = job[j].in /\ job'[j].out = job[j].out /\ job'[j].pending = job[j].pending
  BY <1>1, JobKnown DEF JobType
<1>5. job[j].in = {} /\ job[j].out = {} /\ job[j].pending = {}
  BY <1>1, JobKnown DEF JobOK
<1>6. JobOK(j)'
  BY <1>2, <1>4, <1>5 DEF JobOK, Owning, Built
<1>7. JobQuiet(j)
  BY <1>1, <1>2, <1>4, <1>5, <1>6 DEF JobQuiet, Built, Owning
<1> QED BY <1>1, <1>2, <1>3, <1>4, <1>7, QuietJobStep

LEMMA PickNothingFiles ==
  ASSUME IControl, IRefs, IFiles, RestType', NEW j \in Jobs, PickNothing(j)
  PROVE  IFiles'
<1>1. /\ pc[j] = "picking" /\ UNCHANGED fileVars /\ UNCHANGED <<reader, ckpt, nextFile, versions, list>>
      /\ job' = [job EXCEPT ![j] = NoJob] /\ Goto(j, "idle")
  BY DEF PickNothing, fileVars, diskVars, setVars, numVars, cleanerVars, listVars
<1>2. Moves(j) /\ pc'[j] = "idle"
  BY <1>1, JobIs, GotoMoves DEF IControl, IType
<1>3. LiveSame
  BY <1>1, SameVersions
<1>4. /\ \A k \in Jobs : k # j => job'[k] = job[k]
      /\ job'[j].in = {} /\ job'[j].out = {} /\ job'[j].pending = {}
  BY <1>1, JobKnown DEF NoJob
<1>5. JobOK(j)'
  BY <1>2, <1>4, DoneOK DEF Owning, Built
<1>6. JobQuiet(j)
  BY <1>1, <1>2, <1>4, <1>5 DEF JobQuiet, Built, Owning
<1> QED BY <1>1, <1>2, <1>3, <1>4, <1>6, QuietJobStep

(* A worker is done, and nothing else happens. *)
LEMMA FinishFiles ==
  ASSUME IControl, IRefs, IFiles, RestType', NEW w \in Workers, Finish(w), pc[w] \notin Built, LiveSame,
         UNCHANGED fileVars, UNCHANGED <<reader, nextFile>>
  PROVE  IFiles'
<1>1. Moves(w)
  BY FinishWithin
<1>2. /\ \A j \in Jobs : JobQuiet(j)
      /\ \A c \in Checkpoints : pc'[c] \in Copying => SameCopy(c)
  BY FinishQuiet
<1> QED BY <1>1, <1>2, WorkersRead, QuietFiles

LEMMA NoOutputFiles ==
  ASSUME IControl, IRefs, IFiles, RestType', NEW j \in Jobs, NoOutput(j)
  PROVE  IFiles'
<1>1. /\ pc[j] = "write" /\ UNCHANGED fileVars /\ UNCHANGED <<reader, nextFile, versions, list>>
      /\ Finish(j) \/ (Goto(j, "sync") /\ UNCHANGED <<job, ckpt>>)
  BY DEF NoOutput, fileVars, diskVars, setVars, numVars, cleanerVars, listVars
<1>2. LiveSame
  BY <1>1, SameVersions
<1>3. CASE Finish(j)
  BY <1>1, <1>2, <1>3, JobIs, FinishFiles DEF Built
<1>4. CASE Goto(j, "sync") /\ UNCHANGED <<job, ckpt>>
  <2>1. Moves(j) /\ pc'[j] = "sync"
    BY <1>4, JobIs, GotoMoves DEF IControl, IType
  <2>2. job[j].out = {} /\ job[j].pending = {}
    BY <1>1, JobKnown DEF JobOK
  <2>3. JobOK(j)'
    BY <1>2, <1>4, <2>1, <2>2, JobKnown DEF JobOK, LiveSame, Owning, Built
  <2>4. JobQuiet(j)
    BY <1>1, <1>4, <2>1, <2>2, <2>3 DEF JobQuiet, Built, Owning
  <2> QED BY <1>1, <1>2, <1>4, <2>1, <2>4, QuietJobStep
<1> QED BY <1>1, <1>3, <1>4

LEMMA FailIngestFiles ==
  ASSUME IControl, IRefs, IFiles, RestType', NEW j \in Jobs, FailIngest(j)
  PROVE  IFiles'
<1>1. /\ pc[j] \in {"sync", "edit"} /\ UNCHANGED fileVars /\ UNCHANGED <<reader, nextFile, versions, list>>
      /\ Finish(j) \/ (pc[j] = "edit" /\ Goto(j, "cleanup") /\ UNCHANGED <<job, ckpt>>)
  BY DEF FailIngest, fileVars, diskVars, setVars, numVars, cleanerVars, listVars
<1>2. LiveSame
  BY <1>1, SameVersions
<1>3. CASE Finish(j)
  BY <1>1, <1>2, <1>3, JobIs, FinishFiles DEF Built
<1>4. CASE pc[j] = "edit" /\ Goto(j, "cleanup") /\ UNCHANGED <<job, ckpt>>
  <2>1. Moves(j) /\ pc'[j] = "cleanup"
    BY <1>4, JobIs, GotoMoves DEF IControl, IType
  <2>2. JobOK(j)'
    BY <1>2, <1>4, <2>1, JobKnown DEF JobOK, LiveSame, Owning, Built
  <2>3. JobQuiet(j)
    BY <1>4, <2>1, <2>2 DEF JobQuiet, Built, Owning
  <2> QED BY <1>1, <1>2, <1>4, <2>1, <2>3, QuietJobStep
<1> QED BY <1>1, <1>3, <1>4

LEMMA SwapStateFiles ==
  ASSUME IControl, IRefs, IFiles, RestType', NEW j \in Jobs, SwapState(j)
  PROVE  IFiles'
<1>1. /\ pc[j] = "state" /\ UNCHANGED fileVars /\ UNCHANGED <<reader, ckpt, job, nextFile, list>>
      /\ versions' = [versions EXCEPT ![current].refs = versions[current].refs + 1] /\ Goto(j, "unrefold")
  BY DEF SwapState, fileVars, diskVars, setVars, numVars, cleanerVars
<1>2. Moves(j) /\ pc'[j] = "unrefold"
  BY <1>1, JobIs, GotoMoves DEF IControl, IType
<1>3. LiveSame
  <2>1. \A v \in 1 .. Len(versions) :
          versions'[v].tables = versions[v].tables /\ versions'[v].released = versions[v].released
    <3>1. versions \in Seq(VersionType)
      BY DEF IRefs, IRefType
    <3> QED BY <1>1, <3>1 DEF VersionType
  <2> QED BY <1>1, <2>1, RefsOnly
<1>4. JobOK(j)'
  BY <1>1, <1>2, <1>3, JobKnown DEF JobOK, LiveSame, Owning, Built
<1>5. JobQuiet(j)
  BY <1>1, <1>2, <1>4 DEF JobQuiet, Built, Owning
<1> QED BY <1>1, <1>2, <1>3, <1>5, QuietJobStep

-----------------------------------------------------------------------------
(* Quiet steps of readers, checkpoints and the closer. *)

LEMMA QuietReaderStep ==
  ASSUME IControl, IRefs, IFiles, RestType', nextFile' = nextFile, LiveSame, UNCHANGED fileVars, UNCHANGED <<job, ckpt>>,
         NEW r \in Readers, pc[r] # "remove",
         \A x \in Workers \union Readers : x # r /\ x # Cleaner => pc'[x] = pc[x],
         \A q \in Readers : q # r => reader'[q] = reader[q],
         reader'[r].obsolete = reader[r].obsolete \/ reader'[r].obsolete = {}
  PROVE  IFiles'
<1>1. \A j \in Jobs : JobQuiet(j)
  BY JobIs, ReaderIs DEF JobQuiet
<1>2. \A c \in Checkpoints : pc'[c] \in Copying => SameCopy(c)
  BY CheckpointIs, ReaderIs DEF SameCopy
<1>3. \A q \in Readers : /\ reader'[q].obsolete = reader[q].obsolete \/ reader'[q].obsolete = {}
                         /\ pc[q] = "remove" => pc'[q] = "remove"
  BY ReaderIs
<1> QED BY <1>1, <1>2, <1>3, QuietFiles

LEMMA ReadersKnown ==
  ASSUME IRefs
  PROVE  reader \in [Readers -> ReaderType]
BY DEF IRefs, IRefType

LEMMA LoadFiles ==
  ASSUME IControl, IRefs, IFiles, RestType', NEW r \in Readers, Load(r)
  PROVE  IFiles'
<1>1. /\ pc[r] = "idle" /\ UNCHANGED fileVars /\ UNCHANGED <<job, ckpt, nextFile, versions, list>>
      /\ reader' = [reader EXCEPT ![r].state = Len(states)] /\ Goto(r, "reading")
  BY DEF Load, readerRest, fileVars, diskVars, numVars, listVars
<1>2. Moves(r)
  BY <1>1, ReaderIs, GotoMoves DEF IControl, IType
<1>3. \A x \in Workers \union Readers : x # r /\ x # Cleaner => pc'[x] = pc[x]
  BY <1>2 DEF Moves
<1>4. /\ \A q \in Readers : q # r => reader'[q] = reader[q]
      /\ reader'[r].obsolete = reader[r].obsolete
  BY <1>1, ReadersKnown DEF ReaderType
<1> QED BY <1>1, <1>3, <1>4, SameVersions, QuietReaderStep

LEMMA UnrefStateFiles ==
  ASSUME IControl, IRefs, IFiles, RestType', NEW r \in Readers, UnrefState(r)
  PROVE  IFiles'
<1>1. /\ pc[r] = "reading" /\ UNCHANGED fileVars /\ UNCHANGED <<job, ckpt, nextFile, versions, list>>
      /\ UNCHANGED reader \/ reader' = [reader EXCEPT ![r] = NoReader]
      /\ \E s \in {"unrefversion", "idle"} : Goto(r, s)
  BY DEF UnrefState, readerRest, fileVars, diskVars, numVars, listVars
<1>2. Moves(r)
  BY <1>1, ReaderIs, GotoMoves DEF IControl, IType
<1>3. \A x \in Workers \union Readers : x # r /\ x # Cleaner => pc'[x] = pc[x]
  BY <1>2 DEF Moves
<1>4. /\ \A q \in Readers : q # r => reader'[q] = reader[q]
      /\ reader'[r].obsolete = reader[r].obsolete \/ reader'[r].obsolete = {}
  BY <1>1, ReadersKnown DEF NoReader
<1> QED BY <1>1, <1>3, <1>4, SameVersions, QuietReaderStep

LEMMA UnrefVersionFiles ==
  ASSUME IControl, IRefs, IFiles, RestType', NEW r \in Readers, UnrefVersion(r)
  PROVE  IFiles'
<1>1. /\ pc[r] = "unrefversion" /\ UNCHANGED fileVars /\ UNCHANGED <<job, ckpt, nextFile, list, reader>>
      /\ \E v : versions' = [versions EXCEPT ![v].refs = versions[v].refs - 1]
      /\ \E s \in {"unreffiles", "schedule"} : Goto(r, s)
  BY DEF UnrefVersion, readerRest, fileVars, diskVars, numVars
<1>2. Moves(r)
  BY <1>1, ReaderIs, GotoMoves DEF IControl, IType
<1>3. \A x \in Workers \union Readers : x # r /\ x # Cleaner => pc'[x] = pc[x]
  BY <1>2 DEF Moves
<1>4. LiveSame
  <2>1. \A v \in 1 .. Len(versions) :
          versions'[v].tables = versions[v].tables /\ versions'[v].released = versions[v].released
    <3>1. versions \in Seq(VersionType)
      BY DEF IRefs, IRefType
    <3> QED BY <1>1, <3>1 DEF VersionType
  <2> QED BY <1>1, <2>1, RefsOnly
<1> QED BY <1>1, <1>3, <1>4, QuietReaderStep

LEMMA ScheduleFiles ==
  ASSUME IControl, IRefs, IFiles, RestType', NEW r \in Readers, Schedule(r)
  PROVE  IFiles'
<1>1. /\ pc[r] = "schedule" /\ UNCHANGED fileVars /\ UNCHANGED <<job, ckpt, nextFile, versions, list>>
      /\ reader' = [reader EXCEPT ![r] = NoReader]
      /\ \E s : pc' = [pc EXCEPT ![r] = "idle", ![Cleaner] = s]
  <2>1. \E s : pc' = [pc EXCEPT ![r] = "idle", ![Cleaner] = s]
    <3>1. PICK s : pc' = [pc EXCEPT ![r] = "idle", ![Cleaner] = s]
      BY ReaderIs DEF Schedule
    <3> QED BY <3>1
  <2> QED BY <2>1 DEF Schedule, readerRest, fileVars, diskVars, numVars, listVars
<1>2. DOMAIN pc = Workers \union Readers
  BY DEF IControl, IType, PCType
<1>3. \A x \in Workers \union Readers : x # r /\ x # Cleaner => pc'[x] = pc[x]
  BY <1>1, <1>2
<1>4. /\ \A q \in Readers : q # r => reader'[q] = reader[q]
      /\ reader'[r].obsolete = {}
  BY <1>1, ReadersKnown DEF NoReader
<1> QED BY <1>1, <1>3, <1>4, SameVersions, QuietReaderStep

(* A quiet step of a worker that leaves its job alone. *)
LEMMA QuietWorkerStep ==
  ASSUME IControl, IRefs, IFiles, RestType', LiveSame, UNCHANGED fileVars, UNCHANGED <<job, reader, nextFile>>,
         NEW w \in Workers, Moves(w),
         w \in Jobs => JobQuiet(w),
         \A c \in Checkpoints : pc'[c] \in Copying => SameCopy(c)
  PROVE  IFiles'
<1>1. \A j \in Jobs : JobQuiet(j)
  BY JobIs DEF Moves, JobQuiet
<1> QED BY <1>1, WorkersRead, QuietFiles

LEMMA CheckpointQuiet ==
  ASSUME IControl, NEW c \in Checkpoints, NEW s, Goto(c, s), s \notin Copying,
         \A d \in Checkpoints : d # c => ckpt'[d] = ckpt[d]
  PROVE  c \in Workers /\ c \notin Jobs /\ Moves(c) /\ \A d \in Checkpoints : pc'[d] \in Copying => SameCopy(d)
<1>1. c \in Workers /\ c \in Workers \union Readers /\ c \notin Jobs
  BY CheckpointIs
<1>2. Moves(c) /\ pc'[c] = s
  BY <1>1, GotoMoves DEF IControl, IType
<1>3. \A d \in Checkpoints : pc'[d] \in Copying => SameCopy(d)
  BY <1>2, CheckpointIs DEF Moves, SameCopy
<1> QED BY <1>1, <1>2, <1>3

LEMMA CheckpointFiles ==
  ASSUME IControl, IRefs, IFiles, RestType', NEW c \in Checkpoints,
         Disable(c) \/ DisableWoken(c) \/ LogLock(c) \/ FailCheckpoint(c) \/ Enable(c)
  PROVE  IFiles'
<1>1. UNCHANGED fileVars /\ UNCHANGED <<nextFile, versions, list, reader>>
  BY DEF Disable, DisableWoken, LogLock, FailCheckpoint, Enable, ckptRest, fileVars, diskVars, setVars, numVars, cleanerVars,
         listVars
<1>2. LiveSame
  BY <1>1, SameVersions
<1>3. CASE Disable(c) \/ DisableWoken(c)
  <2>1. UNCHANGED <<job, ckpt>> /\ \E s \in {"disable", "lock"} : Goto(c, s)
    BY <1>3 DEF Disable, DisableWoken, AwaitTurn, ckptRest
  <2>2. c \in Workers /\ c \notin Jobs /\ Moves(c) /\ \A d \in Checkpoints : pc'[d] \in Copying => SameCopy(d)
    BY <2>1, CheckpointQuiet DEF Copying
  <2> QED BY <1>1, <1>2, <2>1, <2>2, QuietWorkerStep
<1>4. CASE LogLock(c)
  <2>1. UNCHANGED <<job, ckpt>> /\ pc[c] \in {"pick", "lock"} /\ (UNCHANGED pc \/ \E s \in {"picking", "snapshot"} : Goto(c, s))
    BY <1>4, CheckpointIs DEF LogLock
  <2>2. CASE UNCHANGED pc
    BY <1>1, <1>2, <2>1, <2>2, StayMoves, CheckpointIs, QuietWorkerStep DEF SameCopy
  <2>3. CASE \E s \in {"picking", "snapshot"} : Goto(c, s)
    <3>1. c \in Workers /\ c \notin Jobs /\ Moves(c) /\ \A d \in Checkpoints : pc'[d] \in Copying => SameCopy(d)
      BY <2>1, <2>3, CheckpointQuiet DEF Copying
    <3> QED BY <1>1, <1>2, <2>1, <3>1, QuietWorkerStep
  <2> QED BY <2>1, <2>2, <2>3
<1>5. CASE FailCheckpoint(c)
  <2>1. UNCHANGED job /\ Goto(c, "enable") /\ ckpt' = [ckpt EXCEPT ![c] = NoCkpt]
    BY <1>5 DEF FailCheckpoint, ckptRest
  <2>2. \A d \in Checkpoints : d # c => ckpt'[d] = ckpt[d]
    BY <2>1 DEF IFiles, IFileType
  <2>3. c \in Workers /\ c \notin Jobs /\ Moves(c) /\ \A d \in Checkpoints : pc'[d] \in Copying => SameCopy(d)
    BY <2>1, <2>2, CheckpointQuiet DEF Copying
  <2> QED BY <1>1, <1>2, <2>1, <2>3, QuietWorkerStep
<1>6. CASE Enable(c)
  <2>1. pc[c] \in {"enable", "link"} /\ (Finish(c) \/ (Goto(c, "clean") /\ UNCHANGED <<job, ckpt>>))
    BY <1>6 DEF Enable
  <2>2. CASE Finish(c)
    BY <1>1, <1>2, <2>1, <2>2, CheckpointIs, FinishFiles DEF Built
  <2>3. CASE Goto(c, "clean") /\ UNCHANGED <<job, ckpt>>
    <3>1. c \in Workers /\ c \notin Jobs /\ Moves(c) /\ \A d \in Checkpoints : pc'[d] \in Copying => SameCopy(d)
      BY <2>3, CheckpointQuiet DEF Copying
    <3> QED BY <1>1, <1>2, <2>3, <3>1, QuietWorkerStep
  <2> QED BY <2>1, <2>2, <2>3
<1> QED BY <1>3, <1>4, <1>5, <1>6

LEMMA LinkTableFiles ==
  ASSUME IControl, IRefs, IFiles, RestType', NEW c \in Checkpoints, LinkTable(c)
  PROVE  IFiles'
<1>1. UNCHANGED fileVars /\ UNCHANGED <<pc, nextFile, versions, list, reader, job>>
  BY DEF LinkTable, ckptRest, fileVars, diskVars, setVars, numVars, cleanerVars, listVars
<1>2. PICK l : ckpt' = [ckpt EXCEPT ![c].linked = l]
  BY DEF LinkTable
<1>3. ckpt \in [Checkpoints -> CkptType]
  BY DEF IFiles, IFileType
<1>4. \A d \in Checkpoints : SameCopy(d)
  BY <1>1, <1>2, <1>3 DEF SameCopy, CkptType
<1> QED BY <1>1, <1>4, SameVersions, StayMoves, CheckpointIs, QuietWorkerStep

LEMMA CloserFiles ==
  ASSUME IControl, IRefs, IFiles, RestType', BeginClose \/ Drain \/ AwaitDeleters
  PROVE  IFiles'
<1>1. UNCHANGED fileVars /\ UNCHANGED <<nextFile, versions, list, reader, job, ckpt>>
  BY DEF BeginClose, Drain, AwaitDeleters, closeRest, fileVars, diskVars, setVars, numVars, cleanerVars, listVars
<1>2. UNCHANGED pc \/ \E s : Goto(Closer, s)
  BY DEF BeginClose, Drain, AwaitDeleters
<1>3. Moves(Closer)
  BY <1>2, OthersAre, StayMoves, GotoMoves DEF IControl, IType
<1>4. \A c \in Checkpoints : SameCopy(c)
  BY <1>1, <1>3, CheckpointIs DEF SameCopy, Moves
<1> QED BY <1>1, <1>3, <1>4, OthersAre, SameVersions, QuietWorkerStep

LEMMA StutterFiles ==
  ASSUME IControl, IRefs, IFiles, RestType', UNCHANGED vars
  PROVE  IFiles'
<1>1. UNCHANGED fileVars /\ UNCHANGED <<pc, nextFile, versions, list, reader, job, ckpt>>
  BY DEF vars, fileVars, diskVars, setVars, numVars, cleanerVars, listVars
<1>2. \A c \in Checkpoints : SameCopy(c)
  BY <1>1 DEF SameCopy
<1> QED BY <1>1, <1>2, OthersAre, StayMoves, SameVersions, QuietWorkerStep

-----------------------------------------------------------------------------
(* The deletion of obsolete files. *)

LEMMA NobodyCopies ==
  ASSUME IControl, cleaning
  PROVE  \A c \in Checkpoints : pc[c] \notin Copying
BY DEF IControl, IDisabled, Disabling, Copying

LEMMA DeleterCleans ==
  ASSUME IControl, NEW w \in Workers, pc[w] \in {"start", "delete"}
  PROVE  cleaning
BY DEF IControl, ITurn, Turning

(* A job on its way to delete, or deleting, has nothing to lose. *)
LEMMA CleaningQuiet ==
  ASSUME IRefs, IFiles, LiveSame, NEW j \in Jobs, job'[j] = job[j],
         pc[j] \in {"clean", "turn", "delete"}, pc'[j] \in {"clean", "turn", "delete"}
  PROVE  JobQuiet(j)
<1>1. JobOK(j)'
  BY JobKnown DEF JobOK, LiveSame, Owning, Built
<1> QED BY <1>1 DEF JobQuiet, Owning, Built

LEMMA TakeFiles ==
  ASSUME IControl', IRefs, IFiles, RestType', cleaning', TakeObsolete, NEW w \in Workers, Moves(w),
         UNCHANGED <<disk, linked, manifests, currentFile, manifestNum, zombies, versions, list, job, reader, ckpt, nextFile>>,
         w \in Jobs => pc[w] \in {"clean", "turn"} /\ pc'[w] = "delete"
  PROVE  IFiles'
<1>1. LiveSame
  BY SameVersions
<1>2. Doomed' \subseteq Doomed
  <2>1. Given' = Given
    BY DEF Given
  <2> QED BY <2>1 DEF Doomed, TakeObsolete
<1>3. \A j \in Jobs : JobQuiet(j)
  <2>1. w \in Jobs => JobQuiet(w)
    BY <1>1, CleaningQuiet
  <2> QED BY <2>1, JobIs DEF Moves, JobQuiet
<1>4. CkptStep /\ ICopies'
  <2>1. \A c \in Checkpoints : pc'[c] \notin Copying
    BY DEF IControl, IDisabled, Disabling, Copying
  <2> QED BY <2>1 DEF CkptStep, ICopies, CopyOK, Copying
<1>5. RolesStep
  BY <1>1, <1>2, <1>3, <1>4, QuietRoles
<1>6. IManifests'
  BY <1>1, <1>3, <1>5, QuietManifests, ManifestsFrame
<1>7. IJobs'
  BY <1>1, <1>3, QuietJobs
<1>8. IObsolete'
  <2>1. \A r \in Readers : pc'[r] = pc[r]
    BY ReaderIs DEF Moves
  <2>2. \A r \in Readers : reader[r].obsolete \subseteq zombies
    BY DEF IFiles, IObsolete, ObsoleteOK
  <2>3. obsolete' = {} /\ taken' = obsolete
    BY DEF TakeObsolete
  <2>4. ObsoleteStep
    BY <2>1, <2>2, <2>3 DEF ObsoleteStep
  <2> QED BY <2>4, ObsoleteFrame
<1>9. nextFile \in Nat
  BY DEF IRefs, IRefType
<1> QED BY <1>4, <1>5, <1>6, <1>7, <1>8, <1>9, FilesParts

LEMMA AcquireFiles ==
  ASSUME IControl, IControl', IRefs, IFiles, RestType', NEW w \in Workers, AcquireCleaningTurn(w)
  PROVE  IFiles'
<1>1. /\ UNCHANGED <<disk, linked, manifests, currentFile, manifestNum, zombies, versions, list, reader, nextFile>>
      /\ pc[w] \in {"clean", "turn"}
  BY DEF AcquireCleaningTurn, diskVars, numVars, listVars
<1>2. LiveSame
  BY <1>1, SameVersions
<1>3. CASE Goto(w, "turn") /\ UNCHANGED <<obsolete, oldManifests, cleaning, taken, todo, pacing, job, ckpt>>
  <2>1. Moves(w) /\ pc'[w] = "turn"
    BY <1>3, WorkerIs, GotoMoves DEF IControl, IType
  <2>2. w \in Jobs => JobQuiet(w)
    BY <1>1, <1>2, <1>3, <2>1, CleaningQuiet
  <2>3. \A c \in Checkpoints : pc'[c] \in Copying => SameCopy(c)
    BY <1>3, <2>1, CheckpointIs DEF Moves, SameCopy, Copying
  <2>4. UNCHANGED fileVars
    BY <1>1, <1>3 DEF fileVars
  <2> QED BY <1>1, <1>2, <1>3, <2>1, <2>2, <2>3, <2>4, QuietWorkerStep
<1>4. CASE Finish(w) /\ UNCHANGED <<obsolete, oldManifests, cleaning, taken, todo, pacing, asleep>>
  <2>1. UNCHANGED fileVars /\ pc[w] \notin Built
    BY <1>1, <1>4 DEF fileVars, Built
  <2> QED BY <1>1, <1>2, <1>4, <2>1, FinishFiles
<1>5. CASE cleaning' = TRUE /\ TakeObsolete /\ Goto(w, "delete") /\ UNCHANGED <<asleep, job, ckpt>>
  <2>1. Moves(w) /\ pc'[w] = "delete"
    BY <1>5, WorkerIs, GotoMoves DEF IControl, IType
  <2> QED BY <1>1, <1>5, <2>1, TakeFiles
<1> QED BY <1>3, <1>4, <1>5 DEF AcquireCleaningTurn

LEMMA CleanerStartFiles ==
  ASSUME IControl, IControl', IRefs, IFiles, RestType', CleanerStart
  PROVE  IFiles'
<1>1. /\ UNCHANGED <<disk, linked, manifests, currentFile, manifestNum, zombies, versions, list, job, reader, ckpt, nextFile>>
      /\ pc[Cleaner] = "start" /\ TakeObsolete /\ Goto(Cleaner, "delete") /\ cleaning' = cleaning
  BY DEF CleanerStart, diskVars, numVars, listVars
<1>2. Moves(Cleaner) /\ Cleaner \in Workers /\ Cleaner \notin Jobs
  BY <1>1, OthersAre, GotoMoves DEF IControl, IType
<1>3. cleaning
  BY <1>1, <1>2, DeleterCleans
<1> QED BY <1>1, <1>2, <1>3, TakeFiles

LEMMA RemoveFiles ==
  ASSUME IControl, IRefs, IFiles, RestType', NEW f, RemoveFile(f), f \in todo \union pacing,
         todo' \subseteq todo, pacing' \subseteq pacing,
         UNCHANGED <<pc, manifestNum, zombies, obsolete, oldManifests, taken, versions, list, job, reader, ckpt, nextFile>>,
         f \in pacing \/ cleaning
  PROVE  IFiles'
<1>1. LiveSame
  BY SameVersions
<1>2. Doomed' \subseteq Doomed /\ f \in Doomed
  <2>1. Given' = Given
    BY DEF Given
  <2> QED BY <2>1 DEF Doomed
<1>3. /\ disk' = disk \ {f} /\ DOMAIN manifests' = DOMAIN manifests \ {f} /\ UNCHANGED <<linked, currentFile>>
      /\ \A m \in DOMAIN manifests' : manifests'[m] = manifests[m]
  BY DEF RemoveFile
<1>4. CkptStep
  BY DEF CkptStep
<1>5. JobsRoles
  BY DEF JobsRoles, NewManifest
<1>6. DiskStep /\ DoomStep /\ LiveStep /\ ZombieStep /\ DirStep
  BY <1>1, <1>2, <1>3 DEF DiskStep, DoomStep, LiveStep, ZombieStep, DirStep, LiveSame
<1>7. CurrentStep
  BY <1>1, <1>3, LiveFacts DEF CurrentStep, LiveSame, LiveOK, IFiles, ITables
<1>8. RolesStep
  BY <1>4, <1>5, <1>6, <1>7 DEF RolesStep
<1>9. IManifests'
  <2>1. ManifestsStep
    BY <1>1, <1>2, <1>3 DEF ManifestsStep, LiveSame
  <2> QED BY <1>8, <2>1, ManifestsFrame
<1>10. IJobs'
  BY <1>1, <1>3, QuietJobs DEF JobQuiet
<1>11. ICopies'
  <2>1. CASE cleaning
    BY <2>1, NobodyCopies DEF ICopies, CopyOK, Copying
  <2>2. CASE f \in pacing
    <3>1. CopiesKeep
      BY <1>3, <2>2, ManifestAt DEF CopiesKeep
    <3> QED BY <3>1, CopiesFrame DEF ICopies, SameCopy
  <2> QED BY <2>1, <2>2
<1>12. IObsolete'
  BY DEF IObsolete, ObsoleteOK, IFiles
<1>13. nextFile \in Nat
  BY DEF IRefs, IRefType
<1> QED BY <1>8, <1>9, <1>10, <1>11, <1>12, <1>13, FilesParts

LEMMA DeleteFiles ==
  ASSUME IControl, IRefs, IFiles, RestType', NEW w \in Workers, DeleteFile(w)
  PROVE  IFiles'
<1>1. PICK f \in todo : RemoveFile(f) /\ todo' = todo \ {f}
  BY DEF DeleteFile
<1>2. /\ pc[w] = "delete"
      /\ UNCHANGED <<pc, manifestNum, zombies, obsolete, oldManifests, taken, pacing, versions, list, job, reader, ckpt, nextFile>>
  BY DEF DeleteFile, setVars, numVars, listVars
<1> QED BY <1>1, <1>2, DeleterCleans, RemoveFiles

LEMMA PacedFiles ==
  ASSUME IControl, IRefs, IFiles, RestType', PacedDelete
  PROVE  IFiles'
<1>1. PICK f \in pacing : RemoveFile(f) /\ pacing' = pacing \ {f}
  BY DEF PacedDelete
<1>2. UNCHANGED <<pc, manifestNum, zombies, obsolete, oldManifests, taken, todo, versions, list, job, reader, ckpt, nextFile>>
  BY DEF PacedDelete, setVars, numVars, listVars, cleanerVars
<1> QED BY <1>1, <1>2, RemoveFiles

LEMMA ReleaseFiles ==
  ASSUME IControl, IRefs, IFiles, RestType', NEW w \in Workers, ReleaseCleaningTurn(w)
  PROVE  IFiles'
<1>1. /\ pc[w] = "delete" /\ zombies' = zombies \ taken /\ taken' = {} /\ Finish(w)
      /\ UNCHANGED <<disk, linked, manifests, currentFile, manifestNum, obsolete, oldManifests, todo, pacing, versions, list,
                     reader, nextFile>>
  BY DEF ReleaseCleaningTurn, diskVars, numVars, listVars
<1>2. LiveSame
  BY <1>1, SameVersions
<1>3. Doomed' \subseteq Doomed
  <2>1. Given' = Given
    BY <1>1 DEF Given
  <2> QED BY <1>1, <2>1 DEF Doomed
<1>4. Moves(w)
  BY <1>1, FinishWithin
<1>5. /\ \A j \in Jobs : JobQuiet(j)
      /\ \A c \in Checkpoints : pc'[c] \in Copying => SameCopy(c)
  BY <1>1, FinishQuiet DEF Built
<1>6. CkptStep
  BY <1>5 DEF CkptStep, SameCopy
<1>7. JobsRoles
  BY <1>5 DEF JobsRoles, JobQuiet, NewManifest
<1>8. DiskStep /\ DoomStep /\ LiveStep /\ ZombieStep /\ DirStep
  BY <1>1, <1>2, <1>3 DEF DiskStep, DoomStep, LiveStep, ZombieStep, DirStep, LiveSame
<1>9. CurrentStep
  <2>1. \A t : IsLive(t)' => t \in Tables' \/ t \in zombies'
    BY <1>1, <1>2, LiveFacts DEF LiveSame, LiveOK, Doomed
  <2> QED BY <1>1, <1>2, <2>1 DEF CurrentStep, LiveSame, IFiles, ITables
<1>10. RolesStep
  BY <1>6, <1>7, <1>8, <1>9 DEF RolesStep
<1>11. IManifests'
  BY <1>1, <1>2, <1>5, <1>10, QuietManifests, ManifestsFrame
<1>12. IJobs'
  BY <1>1, <1>2, <1>5, QuietJobs
<1>13. ICopies'
  BY <1>1, <1>5, SameFilesCopies, CopiesFrame DEF ICopies
<1>14. IObsolete'
  <2>1. \A r \in Readers : pc'[r] = pc[r]
    BY <1>4, ReaderIs DEF Moves
  <2>2. \A r \in Readers : reader[r].obsolete \subseteq zombies /\ \A t \in reader[r].obsolete : t \notin taken
    BY DEF IFiles, IObsolete, ObsoleteOK
  <2>3. ObsoleteStep
    BY <1>1, <2>1, <2>2 DEF ObsoleteStep
  <2> QED BY <2>3, ObsoleteFrame
<1>15. nextFile \in Nat
  BY DEF IRefs, IRefType
<1> QED BY <1>1, <1>10, <1>11, <1>12, <1>13, <1>14, <1>15, FilesParts

-----------------------------------------------------------------------------
(* Jobs: what they pick, write and give up. *)

LEMMA JobStepFrame ==
  ASSUME NEW j \in Jobs, Moves(j), UNCHANGED <<reader, ckpt>>, \A k \in Jobs : k # j => job'[k] = job[k]
  PROVE  /\ \A k \in Jobs : k # j => pc'[k] = pc[k] /\ job'[k] = job[k]
         /\ \A c \in Checkpoints : SameCopy(c)
         /\ \A r \in Readers : pc'[r] = pc[r]
         /\ CkptStep
<1>1. \A k \in Jobs : k # j => pc'[k] = pc[k] /\ job'[k] = job[k]
  BY JobIs DEF Moves
<1>2. \A c \in Checkpoints : SameCopy(c)
  BY JobIs, CheckpointIs DEF Moves, SameCopy
<1>3. \A r \in Readers : pc'[r] = pc[r]
  BY JobIs, ReaderIs DEF Moves
<1>4. CkptStep
  BY <1>2 DEF CkptStep, SameCopy
<1> QED BY <1>1, <1>2, <1>3, <1>4

LEMMA KeptRoles ==
  ASSUME IRefs, IFiles, LiveSame, UNCHANGED <<disk, manifests, manifestNum, zombies>>, linked' = linked \/ linked' = disk,
         Doomed' \subseteq Doomed, JobsRoles, CkptStep
  PROVE  RolesStep
<1>1. DiskStep /\ DoomStep /\ LiveStep /\ ZombieStep /\ DirStep
  BY DEF DiskStep, DoomStep, LiveStep, ZombieStep, DirStep, LiveSame
<1>2. CurrentStep
  <2>1. \A t : IsLive(t)' => t \in Tables' \/ t \in zombies'
    BY LiveFacts DEF LiveSame, LiveOK
  <2>2. Tables \subseteq disk
    BY LiveFacts DEF LiveOK
  <2> QED BY <2>1, <2>2 DEF CurrentStep, LiveSame, IFiles, ITables
<1> QED BY <1>1, <1>2 DEF RolesStep

LEMMA PickFiles ==
  ASSUME IControl, IRefs, IFiles, RestType', NEW j \in Jobs, Pick(j)
  PROVE  IFiles'
<1>1. /\ pc[j] = "picking" /\ UNCHANGED fileVars /\ UNCHANGED <<reader, ckpt, nextFile, versions, list>>
  BY DEF Pick, fileVars, diskVars, setVars, numVars, cleanerVars, listVars
<1>2. PICK in \in SUBSET Pickable :
        \/ job' = [job EXCEPT ![j].in = in] /\ Goto(j, "write")
        \/ job' = [job EXCEPT ![j].in = in, ![j].out = in] /\ Goto(j, "lock")
        \/ job' = [job EXCEPT ![j].in = in] /\ Goto(j, "lock")
  BY DEF Pick
<1>3. JobOK(j) /\ job \in [Jobs -> JobType] /\ job[j] \in JobType
  BY JobKnown
<1>4. job[j].out = {} /\ job[j].pending = {}
  BY <1>1, <1>3 DEF JobOK
<1>5. Moves(j) /\ pc'[j] \in {"write", "lock"}
  BY <1>2, JobIs, GotoMoves DEF IControl, IType
<1>6. /\ \A k \in Jobs : k # j => job'[k] = job[k]
      /\ job'[j].in = in /\ job'[j].pending = {}
      /\ job'[j].out = {} \/ job'[j].out = in
      /\ pc'[j] = "write" => job'[j].out = {}
  <2>1. /\ \A k \in Jobs : k # j => job'[k] = job[k]
        /\ job'[j].in = in /\ job'[j].pending = job[j].pending
        /\ job'[j].out = job[j].out \/ job'[j].out = in
    BY <1>2, <1>3 DEF JobType
  <2>2. pc'[j] = "write" => job'[j].out = job[j].out
    <3>1. CASE Goto(j, "lock")
      BY <3>1, JobIs, GotoMoves DEF IControl, IType
    <3>2. CASE job' = [job EXCEPT ![j].in = in]
      BY <1>3, <3>2 DEF JobType
    <3> QED BY <1>2, <3>1, <3>2
  <2> QED BY <1>4, <2>1, <2>2
<1>7. /\ \A k \in Jobs : k # j => pc'[k] = pc[k] /\ job'[k] = job[k]
      /\ \A c \in Checkpoints : SameCopy(c)
      /\ \A r \in Readers : pc'[r] = pc[r]
      /\ CkptStep
  BY <1>1, <1>5, <1>6, JobStepFrame
<1>8. LiveSame
  BY <1>1, SameVersions
<1>9. in \subseteq Tables /\ in \subseteq linked
  BY DEF Pickable, Tables, IFiles, ITables
<1>10. UNCHANGED <<disk, linked, manifests, currentFile, manifestNum, zombies, obsolete, oldManifests, taken, todo, pacing>>
  BY <1>1 DEF fileVars
<1>11. RolesStep
  <2>1. JobsRoles
    BY <1>5, <1>6, <1>7 DEF JobsRoles, NewManifest, Built
  <2>2. Doomed' = Doomed
    BY <1>1, <1>10 DEF Doomed, Given
  <2> QED BY <1>7, <1>8, <1>10, <2>1, <2>2, KeptRoles
<1>12. IJobs'
  <2>1. ASSUME NEW k \in Jobs, k # j PROVE JobOK(k)'
    <3>1. JobStays(k)
      BY <1>1, <1>7, <2>1 DEF JobStays
    <3> QED BY <1>8, <1>10, <3>1, JobStaysOK DEF LiveSame
  <2>2. JobOK(j)'
    BY <1>5, <1>6, <1>8, <1>9, <1>10 DEF JobOK, LiveSame, Built
  <2>3. \A k \in Jobs : k # j => in \intersect job[k].in = {}
    BY DEF Pickable, Compacting
  <2>4. \A i, k \in Jobs : i # k => job'[i].in \intersect job'[k].in = {}
    <3>1. \A i, k \in Jobs : i # k => job[i].in \intersect job[k].in = {}
      BY DEF IFiles, IJobs
    <3> QED BY <1>6, <2>3, <3>1
  <2> QED BY <2>1, <2>2, <2>4 DEF IJobs
<1>13. IManifests'
  <2>1. ManifestsStep
    BY <1>1, <1>5, <1>7, <1>8, <1>10 DEF ManifestsStep, LiveSame, Built
  <2> QED BY <1>11, <2>1, ManifestsFrame
<1>14. ICopies'
  BY <1>7, <1>10, SameFilesCopies, CopiesFrame DEF ICopies
<1>15. IObsolete'
  BY <1>1, <1>7, <1>10, SameReaders, ObsoleteFrame
<1>16. nextFile \in Nat
  BY DEF IRefs, IRefType
<1> QED BY <1>1, <1>11, <1>12, <1>13, <1>14, <1>15, <1>16, FilesParts

LEMMA SyncOutputsFiles ==
  ASSUME IControl, IRefs, IFiles, RestType', NEW j \in Jobs, SyncOutputs(j)
  PROVE  IFiles'
<1>1. /\ pc[j] = "sync" /\ Goto(j, "lock") /\ linked' = disk
      /\ UNCHANGED <<disk, manifests, currentFile, manifestNum, zombies, obsolete, oldManifests, taken, todo, pacing>>
      /\ UNCHANGED <<reader, ckpt, nextFile, versions, list, job>>
  BY DEF SyncOutputs, setVars, numVars, cleanerVars, listVars
<1>2. Moves(j) /\ pc'[j] = "lock"
  BY <1>1, JobIs, GotoMoves DEF IControl, IType
<1>3. /\ \A k \in Jobs : k # j => pc'[k] = pc[k] /\ job'[k] = job[k]
      /\ \A c \in Checkpoints : SameCopy(c)
      /\ \A r \in Readers : pc'[r] = pc[r]
      /\ CkptStep
  BY <1>1, <1>2, JobStepFrame
<1>4. LiveSame
  BY <1>1, SameVersions
<1>5. JobQuiet(j)
  <2>1. job[j].out \subseteq linked'
    BY <1>1, OutputsExist DEF Owning
  <2>2. JobOK(j)'
    BY <1>1, <1>2, <1>4, <2>1, JobKnown DEF JobOK, LiveSame, Owning, Built
  <2> QED BY <1>1, <1>2, <2>2 DEF JobQuiet, Built, Owning
<1>6. \A k \in Jobs : JobQuiet(k)
  BY <1>3, <1>5 DEF JobQuiet
<1>7. RolesStep
  <2>1. JobsRoles
    BY <1>6 DEF JobsRoles, JobQuiet, NewManifest
  <2>2. Doomed' = Doomed
    BY <1>1 DEF Doomed, Given
  <2> QED BY <1>1, <1>3, <1>4, <2>1, <2>2, KeptRoles
<1>8. IManifests'
  BY <1>1, <1>4, <1>6, <1>7, QuietManifests, ManifestsFrame
<1>9. IJobs'
  BY <1>1, <1>4, <1>6, QuietJobs
<1>10. ICopies'
  BY <1>1, <1>3, SameFilesCopies, CopiesFrame DEF ICopies
<1>11. IObsolete'
  BY <1>1, <1>3, SameReaders, ObsoleteFrame
<1>12. nextFile \in Nat
  BY DEF IRefs, IRefType
<1> QED BY <1>1, <1>7, <1>8, <1>9, <1>10, <1>11, <1>12, FilesParts

(* A job removes what it wrote. *)
LEMMA DropFiles ==
  ASSUME IControl, IRefs, IFiles, RestType', NEW j \in Jobs, pc[j] \in Owning, pc'[j] \notin Owning,
         disk' = disk \ job[j].pending, UNCHANGED <<versions, list, reader, nextFile>>,
         UNCHANGED <<linked, manifests, currentFile, manifestNum, zombies, obsolete, oldManifests, taken, todo, pacing>>,
         \A k \in Jobs : JobQuiet(k),
         \A c \in Checkpoints : pc'[c] \in Copying => SameCopy(c),
         \A r \in Readers : pc'[r] = pc[r]
  PROVE  IFiles'
<1>1. LiveSame
  BY SameVersions
<1>2. \A t \in disk : t \notin disk' => Left(t) /\ ~IsLive(t)'
  BY <1>1, OwnedFacts DEF Left, LiveSame
<1>3. JobsRoles
  BY DEF JobsRoles, JobQuiet, NewManifest
<1>4. Doomed' = Doomed
  BY DEF Doomed, Given
<1>5. DiskStep /\ DoomStep /\ LiveStep /\ ZombieStep /\ DirStep
  BY <1>1, <1>2, <1>4 DEF DiskStep, DoomStep, LiveStep, ZombieStep, DirStep, LiveSame
<1>6. CurrentStep
  BY <1>1, LiveFacts DEF CurrentStep, LiveSame, LiveOK, IFiles, ITables
<1>7. CkptStep
  BY DEF CkptStep, SameCopy
<1>8. RolesStep
  BY <1>3, <1>5, <1>6, <1>7 DEF RolesStep
<1>9. IManifests'
  BY <1>1, <1>8, QuietManifests, ManifestsFrame
<1>10. IJobs'
  BY <1>1, QuietJobs
<1>11. ICopies'
  <2>1. CopiesKeep
    BY <1>2, ManifestAt DEF CopiesKeep
  <2> QED BY <2>1, CopiesFrame DEF ICopies
<1>12. IObsolete'
  BY SameReaders, ObsoleteFrame
<1>13. nextFile \in Nat
  BY DEF IRefs, IRefType
<1> QED BY <1>8, <1>9, <1>10, <1>11, <1>12, <1>13, FilesParts

LEMMA FailOutputsFiles ==
  ASSUME IControl, IRefs, IFiles, RestType', NEW j \in Jobs, FailOutputs(j)
  PROVE  IFiles'
<1>1. /\ pc[j] = "sync" /\ Goto(j, "clean") /\ disk' = disk \ job[j].pending
      /\ job' = [job EXCEPT ![j].in = {}, ![j].out = {}, ![j].pending = {}]
      /\ UNCHANGED <<linked, manifests, currentFile, manifestNum, zombies, obsolete, oldManifests, taken, todo, pacing>>
      /\ UNCHANGED <<reader, ckpt, nextFile, versions, list>>
  BY DEF FailOutputs, setVars, numVars, cleanerVars, listVars
<1>2. Moves(j) /\ pc'[j] = "clean"
  BY <1>1, JobIs, GotoMoves DEF IControl, IType
<1>3. (\A k \in Jobs : k # j => job'[k] = job[k]) /\ job'[j].in = {}
  BY <1>1, JobKnown DEF JobType
<1>4. /\ \A k \in Jobs : k # j => pc'[k] = pc[k] /\ job'[k] = job[k]
      /\ \A c \in Checkpoints : SameCopy(c)
      /\ \A r \in Readers : pc'[r] = pc[r]
  BY <1>1, <1>2, <1>3, JobStepFrame
<1>5. JobOK(j)'
  BY <1>2, <1>3, DoneOK DEF Owning, Built
<1>6. \A k \in Jobs : JobQuiet(k)
  BY <1>1, <1>2, <1>3, <1>4, <1>5 DEF JobQuiet, Owning, Built
<1> QED BY <1>1, <1>2, <1>4, <1>6, DropFiles DEF Owning, Built

LEMMA IngestCleanupFiles ==
  ASSUME IControl, IRefs, IFiles, RestType', NEW j \in Jobs, IngestCleanup(j)
  PROVE  IFiles'
<1>1. /\ pc[j] = "cleanup" /\ Finish(j) /\ disk' = disk \ job[j].pending /\ j \in Workers /\ j # Closer
      /\ UNCHANGED <<linked, manifests, currentFile, manifestNum, zombies, obsolete, oldManifests, taken, todo, pacing>>
      /\ UNCHANGED <<reader, nextFile, versions, list>>
  BY JobIs DEF IngestCleanup, setVars, numVars, cleanerVars, listVars
<1>2. Moves(j) /\ pc'[j] = "idle"
  BY <1>1, FinishWithin
<1>3. /\ \A k \in Jobs : JobQuiet(k)
      /\ \A c \in Checkpoints : pc'[c] \in Copying => SameCopy(c)
  BY <1>1, FinishQuiet DEF Built
<1>4. \A r \in Readers : pc'[r] = pc[r]
  BY <1>2, JobIs, ReaderIs DEF Moves
<1> QED BY <1>1, <1>2, <1>3, <1>4, DropFiles DEF Owning, Built

LEMMA FailManifestFiles ==
  ASSUME IControl, IRefs, IFiles, RestType', NEW j \in Jobs, FailManifest(j)
  PROVE  IFiles'
<1>1. /\ pc[j] = "create"
      /\ \/ Goto(j, "cleanup") /\ UNCHANGED obsolete
         \/ Goto(j, "clean") /\ obsolete' = obsolete \union job[j].pending
      /\ job' = [job EXCEPT ![j].in = {}, ![j].out = {}, ![j].version = 0, ![j].manifest = 0]
      /\ UNCHANGED <<disk, linked, manifests, currentFile, manifestNum, zombies, oldManifests, taken, todo, pacing>>
      /\ UNCHANGED <<reader, ckpt, nextFile, versions, list>>
  BY DEF FailManifest, diskVars, numVars, cleanerVars, listVars
<1>2. /\ Moves(j) /\ pc'[j] \in {"cleanup", "clean"}
      /\ pc'[j] = "cleanup" => obsolete' = obsolete
      /\ obsolete' = obsolete \/ obsolete' = obsolete \union job[j].pending
  BY <1>1, JobIs, GotoMoves DEF IControl, IType
<1>3. (\A k \in Jobs : k # j => job'[k] = job[k]) /\ job'[j].in = {} /\ job'[j].pending = job[j].pending
  BY <1>1, JobKnown DEF JobType
<1>4. /\ \A k \in Jobs : k # j => pc'[k] = pc[k] /\ job'[k] = job[k]
      /\ \A c \in Checkpoints : SameCopy(c)
      /\ \A r \in Readers : pc'[r] = pc[r]
      /\ CkptStep
  BY <1>1, <1>2, <1>3, JobStepFrame
<1>5. LiveSame
  BY <1>1, SameVersions
<1>6. JobOK(j)'
  BY <1>2, <1>3 DEF JobOK, Owning, Built
<1>7. \A t \in job[j].pending : OwnedOK(j, t) /\ ~IsLive(t)
  BY <1>1, OwnedFacts DEF Owning, Built
<1>8. RolesStep
  <2>1. JobsRoles
    BY <1>1, <1>2, <1>3, <1>4 DEF JobsRoles, NewManifest, Built, Owning
  <2>2. DoomStep
    <3>1. ASSUME NEW t \in Doomed', t \notin Doomed PROVE Left(t) /\ ~IsLive(t)'
      <4>1. Given' = Given
        BY <1>1 DEF Given
      <4>2. t \in job[j].pending /\ obsolete' # obsolete
        BY <1>1, <1>2, <3>1, <4>1 DEF Doomed
      <4>3. Left(t)
        BY <1>1, <1>2, <4>2 DEF Left, Owning, Built
      <4> QED BY <1>5, <1>7, <4>2, <4>3 DEF LiveSame
    <3> QED BY <3>1 DEF DoomStep
  <2>3. DiskStep /\ LiveStep /\ ZombieStep /\ DirStep
    BY <1>1, <1>5 DEF DiskStep, LiveStep, ZombieStep, DirStep, LiveSame
  <2>4. CurrentStep
    BY <1>1, <1>5, LiveFacts DEF CurrentStep, LiveSame, LiveOK, IFiles, ITables
  <2> QED BY <1>4, <2>1, <2>2, <2>3, <2>4 DEF RolesStep
<1>9. IManifests'
  <2>1. ManifestsStep
    BY <1>1, <1>2, <1>4, <1>5 DEF ManifestsStep, LiveSame, Built
  <2> QED BY <1>8, <2>1, ManifestsFrame
<1>10. IJobs'
  <2>1. \A k \in Jobs : JobStays(k) \/ (JobOK(k)' /\ job'[k].in \subseteq job[k].in)
    BY <1>1, <1>3, <1>4, <1>6 DEF JobStays
  <2> QED BY <1>1, <1>5, <2>1, JobsFrame DEF LiveSame
<1>11. ICopies'
  BY <1>1, <1>4, SameFilesCopies, CopiesFrame DEF ICopies
<1>12. IObsolete'
  <2>1. \A t \in job[j].pending : \A r \in Readers : t \notin reader[r].obsolete
    BY <1>7, GivenIs DEF OwnedOK, Doomed
  <2>2. \A r \in Readers : reader[r].obsolete \subseteq zombies
    BY DEF IFiles, IObsolete, ObsoleteOK
  <2>3. ObsoleteStep
    BY <1>1, <1>2, <1>4, <2>1, <2>2 DEF ObsoleteStep
  <2> QED BY <2>3, ObsoleteFrame
<1>13. nextFile \in Nat
  BY DEF IRefs, IRefType
<1> QED BY <1>1, <1>8, <1>9, <1>10, <1>11, <1>12, <1>13, FilesParts

-----------------------------------------------------------------------------
(* New files. *)

(* The manifest lock keeps other jobs from building a version. *)
LEMMA OnlyBuilder ==
  ASSUME IControl, NEW j \in Jobs, pc[j] \in Locking
  PROVE  \A k \in Jobs : k # j => pc[k] \notin Built
BY JobIs DEF IControl, ILock, Locking

(* Nothing is asked of the manifest of a job that builds no version. *)
LEMMA NotBuiltManifest ==
  ASSUME NEW k \in Jobs, pc'[k] \notin Built
  PROVE  ManifestOK(k)'
BY DEF ManifestOK, NewManifest, Built

(* The next file number is in no use. *)
LEMMA NextUnused ==
  ASSUME IRefs, IFiles
  PROVE  /\ nextFile \in Nat \ {0} /\ nextFile + 1 \in Nat
         /\ nextFile \notin disk /\ nextFile \notin Doomed /\ nextFile \notin zombies /\ nextFile \notin DOMAIN manifests
         /\ ~IsLive(nextFile)
         /\ \A j \in Jobs : pc[j] \in Owning => nextFile \notin job[j].pending
         /\ \A j \in Jobs : NewManifest(j) => nextFile # job[j].manifest
         /\ \A c \in Checkpoints : pc[c] \in Copying => nextFile \notin ckpt[c].tables
<1>1. nextFile \in Nat \ {0}
  BY DEF IRefs, IRefType
<1>2. ~(nextFile < nextFile)
  BY <1>1
<1>3. /\ nextFile \notin disk /\ nextFile \notin Doomed /\ nextFile \notin zombies /\ nextFile \notin DOMAIN manifests
      /\ ~IsLive(nextFile)
      /\ \A j \in Jobs : pc[j] \in Owning => nextFile \notin job[j].pending
      /\ \A j \in Jobs : NewManifest(j) => nextFile # job[j].manifest
  BY <1>2, UsedFresh
<1>4. \A c \in Checkpoints : pc[c] \in Copying => nextFile \notin ckpt[c].tables
  BY <1>3 DEF IFiles, ICopies, CopyOK
<1> QED BY <1>1, <1>3, <1>4

LEMMA NewOutputFiles ==
  ASSUME IControl, IRefs, IFiles, RestType', NEW j \in Jobs, NewOutput(j)
  PROVE  IFiles'
<1> PICK n : n = nextFile
  OBVIOUS
<1>1. /\ pc[j] = "write" /\ Goto(j, "sync") /\ disk' = disk \union {n} /\ nextFile' = nextFile + 1
      /\ job' = [job EXCEPT ![j].out = {n}, ![j].pending = {n}]
      /\ UNCHANGED <<linked, manifests, currentFile, manifestNum, zombies, obsolete, oldManifests, taken, todo, pacing>>
      /\ UNCHANGED <<reader, ckpt, versions, list>>
  BY DEF NewOutput, setVars, cleanerVars, listVars
<1>2. Moves(j) /\ pc'[j] = "sync"
  BY <1>1, JobIs, GotoMoves DEF IControl, IType
<1>3. (\A k \in Jobs : k # j => job'[k] = job[k]) /\ job'[j].in = job[j].in /\ job'[j].pending = {n} /\ job'[j].out = {n}
  BY <1>1, JobKnown DEF JobType
<1>4. /\ \A k \in Jobs : k # j => pc'[k] = pc[k] /\ job'[k] = job[k]
      /\ \A c \in Checkpoints : SameCopy(c)
      /\ \A r \in Readers : pc'[r] = pc[r]
  BY <1>1, <1>2, <1>3, JobStepFrame
<1>5. LiveSame
  BY <1>1, SameVersions
<1>6. /\ n \in Nat
      /\ n \notin disk /\ n \notin Doomed /\ n \notin zombies /\ n \notin DOMAIN manifests
      /\ ~IsLive(n)
      /\ \A k \in Jobs : pc[k] \in Owning => n \notin job[k].pending
      /\ \A k \in Jobs : NewManifest(k) => n # job[k].manifest
      /\ \A c \in Checkpoints : pc[c] \in Copying => n \notin ckpt[c].tables
  BY NextUnused
<1>7. Doomed' = Doomed /\ Listed' = Listed
  BY <1>1 DEF Doomed, Given, Listed
<1>8. \A k \in Jobs : NewManifest(k)' => k # j /\ NewManifest(k) /\ job'[k].manifest = job[k].manifest
  BY <1>2, <1>4 DEF NewManifest, Built
<1>9. IOwned'
  <2> SUFFICES ASSUME NEW k \in Jobs, pc'[k] \in Owning, NEW t \in job'[k].pending
               PROVE  OwnedOK(k, t)'
    BY DEF IOwned
  <2>1. CASE k = j
    <3>1. t = n
      BY <1>3, <2>1
    <3>2. \A v \in Listed' : t \notin versions'[v].tables
      BY <1>1, <1>6, <1>7, <3>1 DEF IsLive
    <3>3. \A i \in Jobs : i # k /\ pc'[i] \in Owning => t \notin job'[i].pending
      BY <1>4, <1>6, <2>1, <3>1
    <3>4. \A i \in Jobs : NewManifest(i)' => t # job'[i].manifest
      BY <1>6, <1>8, <3>1
    <3>5. \A c \in Checkpoints : pc'[c] \in Copying => t \notin ckpt'[c].tables
      BY <1>4, <1>6, <3>1 DEF SameCopy
    <3> QED BY <1>1, <1>6, <1>7, <3>1, <3>2, <3>3, <3>4, <3>5 DEF OwnedOK
  <2>2. CASE k # j
    <3>1. pc[k] \in Owning /\ t \in job[k].pending
      BY <1>4, <2>2
    <3>2. OwnedOK(k, t) /\ t # n
      BY <1>6, <3>1, OwnedFacts
    <3>3. \A v \in Listed' : t \notin versions'[v].tables
      BY <1>1, <1>7, <3>2 DEF OwnedOK
    <3>4. \A i \in Jobs : i # k /\ pc'[i] \in Owning => t \notin job'[i].pending
      BY <1>3, <1>4, <3>2 DEF OwnedOK
    <3>5. \A i \in Jobs : NewManifest(i)' => t # job'[i].manifest
      BY <1>8, <3>2 DEF OwnedOK
    <3>6. \A c \in Checkpoints : pc'[c] \in Copying => t \notin ckpt'[c].tables
      BY <1>4, <3>2 DEF SameCopy, OwnedOK
    <3> QED BY <1>1, <1>7, <3>2, <3>3, <3>4, <3>5, <3>6 DEF OwnedOK
  <2> QED BY <2>1, <2>2
<1>10. ITables'
  <2>1. \A t : IsLive(t) => LiveOK(t)'
    BY <1>1, <1>5, <1>7, <1>8, LiveFacts DEF LiveOK, LiveSame
  <2>2. \A v \in Listed' : \A t \in versions'[v].tables : IsLive(t)
    BY <1>1, <1>7 DEF IsLive
  <2> QED BY <1>1, <1>5, <2>1, <2>2 DEF ITables, LiveSame, IFiles
<1>11. IFresh'
  <2>1. \A f \in disk \union Doomed \union zombies \union DOMAIN manifests : f \in Nat /\ f < nextFile
    BY UsedFresh
  <2>2. \A f \in Nat : f < nextFile => f < nextFile + 1
    BY <1>6
  <2>3. n < nextFile + 1
    BY <1>6
  <2>4. \A k \in Jobs : NewManifest(k)' => job'[k].manifest < nextFile'
    BY <1>1, <1>8, <2>2, UsedFresh
  <2> QED BY <1>1, <1>7, <2>1, <2>2, <2>3, <2>4 DEF IFresh
<1>12. IFileType'
  BY <1>1, <1>6 DEF IFileType, IFiles, RestType
<1>13. IJobs'
  <2>1. JobOK(j)'
    BY <1>1, <1>2, <1>3, <1>5, JobKnown DEF JobOK, LiveSame, Owning, Built
  <2>2. \A k \in Jobs : JobStays(k) \/ (JobOK(k)' /\ job'[k].in \subseteq job[k].in)
    BY <1>1, <1>3, <1>4, <2>1 DEF JobStays
  <2> QED BY <1>1, <1>5, <2>2, JobsFrame DEF LiveSame
<1>14. IManifests'
  <2>1. ManifestsStep
    BY <1>1, <1>2, <1>4, <1>5 DEF ManifestsStep, LiveSame, Built
  <2> QED BY <1>7, <2>1, DoomManifests DEF DoomStep
<1>15. ICopies'
  <2>1. CopiesKeep
    BY <1>1, ManifestAt DEF CopiesKeep
  <2> QED BY <1>4, <2>1, CopiesFrame DEF ICopies
<1>16. IObsolete'
  BY <1>1, <1>4, SameReaders, ObsoleteFrame
<1> QED BY <1>9, <1>10, <1>11, <1>12, <1>13, <1>14, <1>15, <1>16 DEF IFiles

LEMMA EditFiles ==
  ASSUME IControl, IRefs, IFiles, RestType', NEW j \in Jobs, NEW replace \in BOOLEAN, Edit(j, replace)
  PROVE  IFiles'
<1> PICK n : n = nextFile
  OBVIOUS
<1> DEFINE new == [tables |-> (Tables \ job[j].in) \union job[j].out, refs |-> 0, released |-> FALSE]
<1>1. /\ pc[j] = "edit" /\ Goto(j, IF replace THEN "create" ELSE "append")
      /\ versions' = Append(versions, new)
      /\ nextFile' = (IF replace THEN nextFile + 1 ELSE nextFile)
      /\ job' = [job EXCEPT ![j].version = Len(versions) + 1, ![j].manifest = IF replace THEN n ELSE 0]
      /\ UNCHANGED <<disk, linked, manifests, currentFile, manifestNum, zombies, obsolete, oldManifests, taken, todo, pacing>>
      /\ UNCHANGED <<reader, ckpt, list>>
  BY DEF Edit, diskVars, setVars, cleanerVars, Tables
<1>2. Moves(j) /\ pc'[j] = (IF replace THEN "create" ELSE "append")
  BY <1>1, JobIs, GotoMoves DEF IControl, IType
<1>3. /\ \A k \in Jobs : k # j => job'[k] = job[k]
      /\ job'[j].in = job[j].in /\ job'[j].pending = job[j].pending /\ job'[j].out = job[j].out
      /\ job'[j].manifest = (IF replace THEN n ELSE 0) /\ job'[j].version = Len(versions) + 1
  BY <1>1, JobKnown DEF JobType
<1>4. /\ \A k \in Jobs : k # j => pc'[k] = pc[k] /\ job'[k] = job[k]
      /\ \A c \in Checkpoints : SameCopy(c)
      /\ \A r \in Readers : pc'[r] = pc[r]
  BY <1>1, <1>2, <1>3, JobStepFrame
<1>5. /\ \A v \in 1 .. Len(versions) : versions'[v] = versions[v]
      /\ versions'[Len(versions) + 1].tables = (Tables \ job[j].in) \union job[j].out
  <2>1. versions \in Seq(VersionType)
    BY DEF IRefs, IRefType
  <2>2. versions'[Len(versions) + 1] = new
    BY <1>1, <2>1
  <2> QED BY <1>1, <2>1, <2>2
<1>6. LiveSame
  BY <1>1, <1>5, RefsOnly
<1>7. /\ n \in Nat \ {0}
      /\ n \notin disk /\ n \notin Doomed /\ n \notin zombies /\ n \notin DOMAIN manifests
      /\ ~IsLive(n)
      /\ \A k \in Jobs : pc[k] \in Owning => n \notin job[k].pending
  BY NextUnused
<1>8. Doomed' = Doomed
  BY <1>1 DEF Doomed, Given
<1>9. \A k \in Jobs : NewManifest(k)' =>
        (k # j /\ NewManifest(k) /\ job'[k].manifest = job[k].manifest) \/ (k = j /\ replace /\ job'[k].manifest = n)
  BY <1>2, <1>3, <1>4 DEF NewManifest, Built
<1>10. IOwned'
  <2> SUFFICES ASSUME NEW k \in Jobs, pc'[k] \in Owning, NEW t \in job'[k].pending
               PROVE  OwnedOK(k, t)'
    BY DEF IOwned
  <2>1. pc[k] \in Owning /\ t \in job[k].pending
    BY <1>1, <1>3, <1>4 DEF Owning
  <2>2. OwnedOK(k, t) /\ ~IsLive(t) /\ t # n
    BY <1>7, <2>1, OwnedFacts
  <2>3. \A v \in Listed' : t \notin versions'[v].tables
    BY <1>6, <2>2 DEF LiveSame, IsLive
  <2>4. \A i \in Jobs : i # k /\ pc'[i] \in Owning => t \notin job'[i].pending
    BY <1>1, <1>3, <1>4, <2>2 DEF OwnedOK, Owning
  <2>5. \A i \in Jobs : NewManifest(i)' => t # job'[i].manifest
    BY <1>9, <2>2 DEF OwnedOK
  <2>6. \A c \in Checkpoints : pc'[c] \in Copying => t \notin ckpt'[c].tables
    BY <1>4, <2>2 DEF SameCopy, OwnedOK
  <2> QED BY <1>1, <1>8, <2>2, <2>3, <2>4, <2>5, <2>6 DEF OwnedOK
<1>11. ITables'
  <2>1. \A t : IsLive(t) => LiveOK(t)'
    BY <1>1, <1>6, <1>7, <1>8, <1>9, LiveFacts DEF LiveOK, LiveSame
  <2>2. \A v \in Listed' : \A t \in versions'[v].tables : IsLive(t)
    BY <1>6 DEF IsLive, LiveSame
  <2> QED BY <1>1, <1>6, <2>1, <2>2 DEF ITables, LiveSame, IFiles
<1>12. IFresh'
  <2>1. \A f \in disk \union Doomed \union zombies \union DOMAIN manifests : f \in Nat /\ f < nextFile
    BY UsedFresh
  <2>2. \A f \in Nat : f < nextFile => f < nextFile'
    BY <1>1, <1>7
  <2>3. replace => n < nextFile'
    BY <1>1, <1>7
  <2>4. \A k \in Jobs : NewManifest(k)' => job'[k].manifest < nextFile'
    BY <1>9, <2>2, <2>3, UsedFresh
  <2> QED BY <1>1, <1>8, <2>1, <2>2, <2>4 DEF IFresh
<1>13. IFileType'
  BY <1>1 DEF IFileType, IFiles, RestType
<1>14. IJobs'
  <2>1. JobOK(j)'
    BY <1>1, <1>2, <1>3, <1>5, <1>6, JobKnown DEF JobOK, LiveSame, Owning, Built
  <2>2. \A k \in Jobs : JobStays(k) \/ (JobOK(k)' /\ job'[k].in \subseteq job[k].in)
    BY <1>3, <1>4, <1>5, <2>1, BuiltVersion DEF JobStays
  <2> QED BY <1>1, <1>6, <2>2, JobsFrame DEF LiveSame
<1>15. IManifests'
  <2>1. IManifests
    BY DEF IFiles
  <2>2. \A m : End(m)' = End(m)
    BY <1>1 DEF End
  <2>3. ASSUME NEW k \in Jobs PROVE ManifestOK(k)'
    <3>1. CASE k = j
      <4>1. n # manifestNum
        BY <1>7, <2>1 DEF IManifests
      <4> QED BY <1>1, <1>2, <1>3, <1>7, <1>8, <3>1, <4>1 DEF ManifestOK, NewManifest, Built
    <3>2. CASE k # j
      <4>1. pc'[k] \notin Built
        BY <1>1, <1>4, <3>2, OnlyBuilder DEF Locking
      <4> QED BY <4>1, NotBuiltManifest
    <3> QED BY <3>1, <3>2
  <2>4. \A k \in Jobs : pc'[k] = "install" <=> pc[k] = "install"
    BY <1>1, <1>2, <1>4
  <2>5. \A k \in Jobs : pc[k] = "install" => job'[k].manifest = job[k].manifest
    BY <1>1, <1>4
  <2>6. (\A k \in Jobs : ~(pc'[k] = "install" /\ job'[k].manifest = 0)) => End(manifestNum)' = Tables'
    BY <1>1, <1>6, <2>1, <2>2, <2>4, <2>5 DEF IManifests, LiveSame
  <2>7. (\A k \in Jobs : ~(pc'[k] = "install" /\ job'[k].manifest # 0)) => currentFile' = manifestNum'
    BY <1>1, <2>1, <2>4, <2>5 DEF IManifests
  <2> QED BY <1>1, <1>8, <2>1, <2>3, <2>6, <2>7 DEF IManifests
<1>16. ICopies'
  BY <1>1, <1>4, SameFilesCopies, CopiesFrame DEF ICopies
<1>17. IObsolete'
  BY <1>1, <1>4, SameReaders, ObsoleteFrame
<1> QED BY <1>10, <1>11, <1>12, <1>13, <1>14, <1>15, <1>16, <1>17 DEF IFiles

-----------------------------------------------------------------------------
(* The manifest is written. *)

(* A step of the job that has the lock which touches only manifests. *)
LEMMA ManifestStepFrame ==
  ASSUME IControl, IRefs, IFiles, NEW j \in Jobs, Moves(j), pc[j] \in Built, pc'[j] \in Built,
         linked' = linked \/ linked' = disk, UNCHANGED <<disk, manifestNum, zombies, obsolete, oldManifests, taken, todo, pacing>>,
         UNCHANGED <<reader, ckpt, versions, list, job>>, DirStep
  PROVE  /\ \A k \in Jobs : k # j => pc'[k] = pc[k] /\ pc[k] \notin Built
         /\ \A c \in Checkpoints : SameCopy(c)
         /\ LiveSame /\ Doomed' = Doomed /\ RolesStep /\ IJobs' /\ IObsolete'
<1>1. /\ \A k \in Jobs : k # j => pc'[k] = pc[k]
      /\ \A c \in Checkpoints : SameCopy(c)
      /\ \A r \in Readers : pc'[r] = pc[r]
      /\ CkptStep
  BY JobStepFrame
<1>2. LiveSame
  BY SameVersions
<1>3. Doomed' = Doomed
  BY DEF Doomed, Given
<1>4. \A k \in Jobs : k # j => pc[k] \notin Built
  BY OnlyBuilder DEF Locking
<1>5. RolesStep
  <2>1. JobsRoles
    BY <1>1 DEF JobsRoles, NewManifest, Owning
  <2>2. DiskStep /\ DoomStep /\ LiveStep /\ ZombieStep
    BY <1>2, <1>3 DEF DiskStep, DoomStep, LiveStep, ZombieStep, LiveSame
  <2>3. CurrentStep
    <3>1. \A t : IsLive(t)' => t \in Tables' \/ t \in zombies'
      BY <1>2, LiveFacts DEF LiveSame, LiveOK
    <3>2. Tables \subseteq disk
      BY LiveFacts DEF LiveOK
    <3> QED BY <1>2, <3>1, <3>2 DEF CurrentStep, LiveSame, IFiles, ITables
  <2> QED BY <1>1, <2>1, <2>2, <2>3 DEF RolesStep
<1>6. IJobs'
  <2>1. job[j].out \subseteq linked'
    <3>1. job[j].out \subseteq disk
      BY OutputsExist DEF Owning, Built
    <3> QED BY <3>1, JobKnown DEF JobOK
  <2>2. JobOK(j)'
    BY <1>2, <2>1, JobKnown DEF JobOK, LiveSame, Owning, Built
  <2>3. \A k \in Jobs : JobStays(k) \/ (JobOK(k)' /\ job'[k].in \subseteq job[k].in)
    BY <1>1, <2>2 DEF JobStays
  <2> QED BY <1>2, <2>3, JobsFrame DEF LiveSame
<1>7. IObsolete'
  BY <1>1, SameReaders, ObsoleteFrame
<1> QED BY <1>1, <1>2, <1>3, <1>4, <1>5, <1>6, <1>7

LEMMA CreateManifestFiles ==
  ASSUME IControl, IRefs, IFiles, RestType', NEW j \in Jobs, CreateManifest(j)
  PROVE  IFiles'
<1> PICK m : m = job[j].manifest
  OBVIOUS
<1>1. /\ pc[j] = "create" /\ Goto(j, "append")
      /\ manifests' = [x \in DOMAIN manifests \union {m} |-> IF x = m THEN <<Tables>> ELSE manifests[x]]
      /\ UNCHANGED <<disk, linked, currentFile, manifestNum, zombies, obsolete, oldManifests, taken, todo, pacing>>
      /\ UNCHANGED <<reader, ckpt, versions, list, job, nextFile>>
  BY DEF CreateManifest, setVars, numVars, cleanerVars, listVars, Tables
<1>2. Moves(j) /\ pc'[j] = "append"
  BY <1>1, JobIs, GotoMoves DEF IControl, IType
<1>3. NewManifest(j) /\ ManifestOK(j) /\ m \notin DOMAIN manifests /\ m \notin Doomed /\ m # manifestNum /\ m # 0
  BY <1>1 DEF IFiles, IManifests, ManifestOK, NewManifest, Built
<1>4. /\ DOMAIN manifests' = DOMAIN manifests \union {m} /\ manifests'[m] = <<Tables>>
      /\ \A x \in DOMAIN manifests : manifests'[x] = manifests[x]
  BY <1>1, <1>3
<1>5. DirStep
  BY <1>3, <1>4 DEF DirStep
<1>6. /\ \A k \in Jobs : k # j => pc'[k] = pc[k] /\ pc[k] \notin Built
      /\ \A c \in Checkpoints : SameCopy(c)
      /\ LiveSame /\ Doomed' = Doomed /\ RolesStep /\ IJobs' /\ IObsolete'
  BY <1>1, <1>2, <1>5, ManifestStepFrame DEF Built
<1>7. IManifests'
  <2>1. IManifests
    BY DEF IFiles
  <2>2. \A k \in Jobs : pc[k] # "install" /\ pc'[k] # "install"
    BY <1>1, <1>2, <1>6 DEF Built
  <2>3. End(manifestNum)' = Tables' /\ currentFile' = manifestNum'
    BY <1>1, <1>4, <1>6, <2>1, <2>2 DEF IManifests, End, LiveSame
  <2>4. \A x \in DOMAIN manifests' : manifests'[x] # <<>>
    <3>1. \A x \in DOMAIN manifests : manifests[x] # <<>>
      BY <2>1 DEF IManifests
    <3>2. <<Tables>> # <<>>
      OBVIOUS
    <3> QED BY <1>4, <3>1, <3>2
  <2>5. ManifestOK(j)'
    BY <1>1, <1>2, <1>3, <1>4, <1>6 DEF ManifestOK, NewManifest, Built
  <2>6. \A k \in Jobs : ManifestOK(k)'
    BY <1>6, <2>5, NotBuiltManifest
  <2> QED BY <1>1, <1>4, <1>6, <2>1, <2>3, <2>4, <2>6 DEF IManifests
<1>8. ICopies'
  <2>1. CopiesKeep
    <3>1. ASSUME NEW x \in DOMAIN manifests
          PROVE  /\ x \in DOMAIN manifests' /\ Len(manifests[x]) \in Nat /\ Len(manifests'[x]) \in Nat
                 /\ Len(manifests'[x]) >= Len(manifests[x])
                 /\ \A i \in 1 .. Len(manifests[x]) : manifests'[x][i] = manifests[x][i]
      <4>1. manifests'[x] = manifests[x] /\ Len(manifests[x]) \in Nat /\ x \in DOMAIN manifests'
        BY <1>4, ManifestAt
      <4> QED BY <4>1
    <3> QED BY <1>1, <3>1 DEF CopiesKeep
  <2> QED BY <1>6, <2>1, CopiesFrame DEF ICopies
<1>9. nextFile \in Nat
  BY DEF IRefs, IRefType
<1> QED BY <1>1, <1>6, <1>7, <1>8, <1>9, FilesParts

(* Append, with nothing else in sight. *)
LEMMA AppendIs ==
  ASSUME NEW S, NEW s \in Seq(S), NEW e \in S
  PROVE  /\ Len(s) \in Nat /\ Len(Append(s, e)) = Len(s) + 1 /\ Append(s, e) # <<>>
         /\ Append(s, e)[Len(s) + 1] = e
         /\ \A i \in 1 .. Len(s) : Append(s, e)[i] = s[i]
OBVIOUS

LEMMA AppendEditFiles ==
  ASSUME IControl, IRefs, IFiles, RestType', NEW j \in Jobs, AppendEdit(j)
  PROVE  IFiles'
<1> PICK m : m = IF job[j].manifest = 0 THEN manifestNum ELSE job[j].manifest
  OBVIOUS
<1> PICK e : e = versions[job[j].version].tables
  OBVIOUS
<1>1. /\ pc[j] = "append" /\ Goto(j, IF job[j].manifest = 0 THEN "install" ELSE "setcurrent")
      /\ manifests' = [manifests EXCEPT ![m] = Append(manifests[m], e)]
      /\ UNCHANGED <<disk, linked, currentFile, manifestNum, zombies, obsolete, oldManifests, taken, todo, pacing>>
      /\ UNCHANGED <<reader, ckpt, versions, list, job, nextFile>>
  BY DEF AppendEdit, setVars, numVars, cleanerVars, listVars
<1>2. Moves(j) /\ pc'[j] = (IF job[j].manifest = 0 THEN "install" ELSE "setcurrent")
  BY <1>1, JobIs, GotoMoves DEF IControl, IType
<1>3. /\ m \in DOMAIN manifests /\ IManifests
      /\ job[j].manifest # 0 => m = job[j].manifest /\ m \notin Doomed /\ m # manifestNum
  BY <1>1 DEF IFiles, IManifests, ManifestOK, NewManifest, Built
<1>4. /\ DOMAIN manifests' = DOMAIN manifests
      /\ manifests'[m] = Append(manifests[m], e)
      /\ \A x \in DOMAIN manifests : x # m => manifests'[x] = manifests[x]
  BY <1>1, <1>3
<1>5. DirStep
  BY <1>4 DEF DirStep
<1>6. /\ \A k \in Jobs : k # j => pc'[k] = pc[k] /\ pc[k] \notin Built
      /\ \A c \in Checkpoints : SameCopy(c)
      /\ LiveSame /\ Doomed' = Doomed /\ RolesStep /\ IJobs' /\ IObsolete'
  BY <1>1, <1>2, <1>5, ManifestStepFrame DEF Built
<1>7. /\ Len(manifests[m]) \in Nat /\ Len(manifests'[m]) = Len(manifests[m]) + 1
      /\ manifests'[m][Len(manifests[m]) + 1] = e /\ manifests'[m] # <<>>
      /\ \A i \in 1 .. Len(manifests[m]) : manifests'[m][i] = manifests[m][i]
  <2>1. e \in SUBSET Nat
    BY <1>1, BuiltVersion, VersionFacts DEF IRefs, Built
  <2>2. manifests[m] \in Seq(SUBSET Nat)
    BY <1>3, ManifestAt
  <2>3. PICK s : s = manifests[m]
    OBVIOUS
  <2>4. s \in Seq(SUBSET Nat) /\ manifests'[m] = Append(s, e)
    BY <1>4, <2>2, <2>3
  <2>5. /\ Len(s) \in Nat /\ Len(Append(s, e)) = Len(s) + 1 /\ Append(s, e) # <<>>
        /\ Append(s, e)[Len(s) + 1] = e
        /\ \A i \in 1 .. Len(s) : Append(s, e)[i] = s[i]
    BY <2>1, <2>4, AppendIs
  <2> QED BY <2>3, <2>4, <2>5, Zenon
<1>8. manifests'[m][Len(manifests'[m])] = e
  BY <1>7
<1>9. IManifests'
  <2>1. \A k \in Jobs : pc[k] # "install"
    BY <1>1, <1>6 DEF Built
  <2>2. End(manifestNum) = Tables /\ currentFile = manifestNum
    BY <1>3, <2>1 DEF IManifests
  <2>3. \A x \in DOMAIN manifests' : manifests'[x] # <<>>
    BY <1>3, <1>4, <1>7 DEF IManifests
  <2>4. \A k \in Jobs : k # j => ManifestOK(k)'
    BY <1>6, NotBuiltManifest
  <2>5. CASE job[j].manifest = 0
    <3>1. End(manifestNum)' = e
      BY <1>1, <1>8, <2>5 DEF End
    <3>2. ManifestOK(j)'
      BY <1>1, <1>2, <2>5, <3>1 DEF ManifestOK, NewManifest, Built
    <3> QED BY <1>1, <1>2, <1>3, <1>4, <1>6, <2>2, <2>3, <2>4, <2>5, <3>2 DEF IManifests
  <2>6. CASE job[j].manifest # 0
    <3>1. End(manifestNum)' = Tables' /\ End(job[j].manifest)' = e
      BY <1>1, <1>3, <1>4, <1>6, <1>8, <2>2, <2>6 DEF End, LiveSame, IManifests
    <3>2. ManifestOK(j)'
      BY <1>1, <1>2, <1>3, <1>4, <1>6, <2>6, <3>1 DEF ManifestOK, NewManifest, Built
    <3> QED BY <1>1, <1>2, <1>3, <1>4, <1>6, <2>2, <2>3, <2>4, <2>6, <3>1, <3>2 DEF IManifests
  <2> QED BY <2>5, <2>6
<1>10. ICopies'
  <2>1. CopiesKeep
    <3>1. ASSUME NEW x \in DOMAIN manifests
          PROVE  /\ x \in DOMAIN manifests' /\ Len(manifests[x]) \in Nat /\ Len(manifests'[x]) \in Nat
                 /\ Len(manifests'[x]) >= Len(manifests[x])
                 /\ \A i \in 1 .. Len(manifests[x]) : manifests'[x][i] = manifests[x][i]
      <4>1. CASE x = m
        BY <1>4, <1>7, <4>1
      <4>2. CASE x # m
        BY <1>4, <4>2, ManifestAt
      <4> QED BY <4>1, <4>2
    <3> QED BY <1>1, <3>1 DEF CopiesKeep
  <2> QED BY <1>6, <2>1, CopiesFrame DEF ICopies
<1>11. nextFile \in Nat
  BY DEF IRefs, IRefType
<1> QED BY <1>1, <1>6, <1>9, <1>10, <1>11, FilesParts

LEMMA SetCurrentFiles ==
  ASSUME IControl, IRefs, IFiles, RestType', NEW j \in Jobs, SetCurrentFile(j)
  PROVE  IFiles'
<1>1. /\ pc[j] = "setcurrent" /\ Goto(j, "install") /\ linked' = disk /\ currentFile' = job[j].manifest
      /\ UNCHANGED <<disk, manifests, manifestNum, zombies, obsolete, oldManifests, taken, todo, pacing>>
      /\ UNCHANGED <<reader, ckpt, versions, list, job, nextFile>>
  BY DEF SetCurrentFile, setVars, numVars, cleanerVars, listVars
<1>2. Moves(j) /\ pc'[j] = "install"
  BY <1>1, JobIs, GotoMoves DEF IControl, IType
<1>3. DirStep
  BY <1>1 DEF DirStep
<1>4. /\ \A k \in Jobs : k # j => pc'[k] = pc[k] /\ pc[k] \notin Built
      /\ \A c \in Checkpoints : SameCopy(c)
      /\ LiveSame /\ Doomed' = Doomed /\ RolesStep /\ IJobs' /\ IObsolete'
  BY <1>1, <1>2, <1>3, ManifestStepFrame DEF Built
<1>5. IManifests'
  <2>1. IManifests /\ ManifestOK(j) /\ job[j].manifest # 0 /\ NewManifest(j)
    BY <1>1 DEF IFiles, IManifests, ManifestOK, NewManifest, Built
  <2>2. \A k \in Jobs : pc[k] # "install"
    BY <1>1, <1>4 DEF Built
  <2>3. End(manifestNum)' = Tables' /\ End(job[j].manifest)' = End(job[j].manifest)
    BY <1>1, <1>4, <2>1, <2>2 DEF IManifests, End, LiveSame
  <2>4. ManifestOK(j)'
    BY <1>1, <1>2, <1>4, <2>1, <2>3 DEF ManifestOK, NewManifest, Built
  <2>5. \A k \in Jobs : ManifestOK(k)'
    BY <1>4, <2>4, NotBuiltManifest
  <2> QED BY <1>1, <1>2, <1>4, <2>1, <2>3, <2>5 DEF IManifests
<1>6. ICopies'
  BY <1>1, <1>4, SameFilesCopies, CopiesFrame DEF ICopies
<1>7. nextFile \in Nat
  BY DEF IRefs, IRefType
<1> QED BY <1>1, <1>4, <1>5, <1>6, <1>7, FilesParts

-----------------------------------------------------------------------------
(* The release of a version. *)

LEMMA LastReferencesAre ==
  ASSUME IRefs, NEW v \in 1 .. Len(versions), NEW t \in LastReferences(versions, v)
  PROVE  /\ t \in versions[v].tables
         /\ \A k \in 1 .. Len(versions) : k # v /\ ~versions[k].released => t \notin versions[k].tables
<1>1. DOMAIN versions = 1 .. Len(versions)
  BY DEF IRefs, IRefType
<1>2. t \in versions[v].tables
  BY DEF LastReferences
<1>3. ASSUME NEW k \in 1 .. Len(versions), k # v, ~versions[k].released, t \in versions[k].tables PROVE FALSE
  <2>1. k \in {i \in DOMAIN versions : i # v /\ ~versions[i].released}
    BY <1>1, <1>3
  <2>2. t \in UNION {versions[i].tables : i \in {x \in DOMAIN versions : x # v /\ ~versions[x].released}}
    BY <1>3, <2>1
  <2> QED BY <2>2 DEF LastReferences
<1> QED BY <1>2, <1>3

Releases(v) ==
  /\ v \in Listed /\ v # current /\ Listed' = Listed \ {v} /\ current' = current
  /\ \A k \in 1 .. Len(versions) : versions'[k].tables = versions[k].tables

FreesTables ==
  /\ Tables' = Tables
  /\ \A k \in 1 .. Len(versions) : versions'[k].tables = versions[k].tables
  /\ \A t : IsLive(t)' => IsLive(t)

Gives(S) == \A t \in S : IsLive(t) /\ ~IsLive(t)' /\ t \in zombies

LEMMA ReleaseFrees ==
  ASSUME IRefs, IFiles, NEW v, Releases(v)
  PROVE  FreesTables /\ Gives(LastReferences(versions, v))
<1>1. /\ Listed \subseteq 1 .. Len(versions) /\ v \in 1 .. Len(versions) /\ current \in 1 .. Len(versions)
      /\ current \in Listed
  BY VersionFacts, CurrentHeld DEF IRefs, IRefType, Listed, Releases
<1>2. Tables' = Tables
  BY <1>1 DEF Tables, Releases
<1>3. \A t : IsLive(t)' => IsLive(t)
  BY <1>1 DEF IsLive, Releases
<1>4. ASSUME NEW t \in LastReferences(versions, v) PROVE IsLive(t) /\ ~IsLive(t)' /\ t \in zombies
  <2>1. /\ t \in versions[v].tables
        /\ \A k \in 1 .. Len(versions) : k # v /\ ~versions[k].released => t \notin versions[k].tables
    BY <1>1, LastReferencesAre
  <2>2. IsLive(t)
    BY <2>1 DEF IsLive, Releases
  <2>3. ~IsLive(t)'
    BY <1>1, <2>1 DEF IsLive, Releases, Listed
  <2>4. t \notin Tables
    BY <1>1, <2>1 DEF Tables, Releases, Listed
  <2> QED BY <2>2, <2>3, <2>4, LiveFacts DEF LiveOK
<1> QED BY <1>2, <1>3, <1>4 DEF FreesTables, Gives, Releases

LEMMA SameFrees ==
  ASSUME LiveSame
  PROVE  FreesTables /\ Gives({})
BY DEF LiveSame, FreesTables, Gives

(* readState.unrefLocked. *)
LEMMA LockedFrees ==
  ASSUME IRefs, IRefs', IFiles, current' = current, NEW i \in 1 .. Len(states), UnrefStateLocked(i)
  PROVE  FreesTables /\ \E S : Gives(S) /\ obsolete' = obsolete \union S
<1>1. CASE states[i].refs # 1
  <2>1. UNCHANGED <<versions, list, obsolete>>
    BY <1>1 DEF UnrefStateLocked, listVars
  <2>2. LiveSame
    BY <2>1, SameVersions
  <2>3. obsolete' = obsolete \union {}
    BY <2>1
  <2> QED BY <2>2, <2>3, SameFrees
<1>2. CASE states[i].refs = 1
  <2>0. PICK v, s : v = states[i].version /\ s = UnrefLocked(VersionState, v)
    OBVIOUS
  <2>1. versions' = s.versions /\ list' = s.list /\ obsolete' = s.obsolete
    BY <1>2, <2>0 DEF UnrefStateLocked, SetVersions
  <2>2. IRefType /\ v \in 1 .. Len(versions) /\ v \in list /\ ~versions[v].released /\ list \subseteq 1 .. Len(versions)
    BY <1>2, <2>0, LiveListed, StateFacts, SMTT(40) DEF IRefs, IRefType
  <2>3. Unreffed(s, v)
    BY <2>0, <2>2, UnrefLockedIs
  <2>4. /\ \A k \in 1 .. Len(versions) : versions'[k].tables = versions[k].tables
        /\ \A k \in 1 .. Len(versions) : k # v => versions'[k] = versions[k]
    BY <2>1, <2>3 DEF Unreffed
  <2>5. CASE versions[v].refs > 1
    <3>1. versions'[v].released = versions[v].released /\ list' = list /\ obsolete' = obsolete \union {}
      BY <2>1, <2>3, <2>5 DEF Unreffed
    <3>2. LiveSame
      BY <2>4, <3>1, RefsOnly
    <3> QED BY <3>1, <3>2, SameFrees
  <2>6. CASE ~(versions[v].refs > 1)
    <3>1. /\ versions'[v].released = TRUE /\ list' = list \ {v}
          /\ obsolete' = obsolete \union LastReferences(versions, v)
      BY <2>1, <2>3, <2>6 DEF Unreffed
    <3>2. v # current
      BY <3>1 DEF IRefs, IRefType
    <3>3. Listed' = Listed \ {v}
      BY <2>2, <2>4, <3>1 DEF Listed
    <3>4. Releases(v)
      BY <2>2, <2>4, <3>2, <3>3 DEF Releases, Listed
    <3> QED BY <3>1, <3>4, ReleaseFrees
  <2> QED BY <2>5, <2>6
<1> QED BY <1>1, <1>2

LEMMA FreesRoles ==
  ASSUME IRefs, IFiles, FreesTables, UNCHANGED <<disk, linked, manifests, manifestNum, zombies>>, NEW S, Gives(S),
         Doomed' \subseteq Doomed \union S, JobsRoles, CkptStep
  PROVE  RolesStep
<1>1. DiskStep /\ LiveStep /\ ZombieStep /\ DirStep
  BY DEF DiskStep, LiveStep, ZombieStep, DirStep, FreesTables
<1>2. DoomStep
  BY DEF DoomStep, Gives
<1>3. CurrentStep
  BY LiveFacts DEF CurrentStep, FreesTables, LiveOK, IFiles, ITables
<1> QED BY <1>1, <1>2, <1>3 DEF RolesStep

LEMMA FreesManifests ==
  ASSUME IRefs, FreesTables, UNCHANGED <<manifests, manifestNum, currentFile>>, \A j \in Jobs : JobQuiet(j)
  PROVE  ManifestsStep
<1>1. \A j \in Jobs : pc'[j] \in Built => pc'[j] = pc[j] /\ job'[j] = job[j]
  BY DEF JobQuiet
<1>2. \A j \in Jobs : pc[j] = "install" => pc'[j] = "install"
  BY DEF JobQuiet, Built
<1>3. \A j \in Jobs : pc'[j] \in Built => versions'[job'[j].version].tables = versions[job[j].version].tables
  BY <1>1, BuiltVersion DEF FreesTables
<1> QED BY <1>1, <1>2, <1>3 DEF ManifestsStep, FreesTables

LEMMA FreesJobs ==
  ASSUME IRefs, IFiles, FreesTables, linked' = linked, \A j \in Jobs : JobQuiet(j)
  PROVE  IJobs'
<1>1. \A j \in Jobs : JobStays(j) \/ (JobOK(j)' /\ job'[j].in \subseteq job[j].in)
  BY BuiltVersion DEF JobQuiet, JobStays, FreesTables
<1> QED BY <1>1, JobsFrame DEF FreesTables

LEMMA LockedFiles ==
  ASSUME IRefs, IFiles, RestType', FreesTables, NEW S, Gives(S), obsolete' = obsolete \union S,
         UNCHANGED <<disk, linked, manifests, currentFile, manifestNum, zombies, oldManifests, taken, todo, pacing>>,
         UNCHANGED <<reader, nextFile>>,
         \A j \in Jobs : JobQuiet(j),
         \A c \in Checkpoints : pc'[c] \in Copying => SameCopy(c),
         \A r \in Readers : pc'[r] = pc[r]
  PROVE  IFiles'
<1>1. Doomed' \subseteq Doomed \union S
  <2>1. Given' = Given
    BY DEF Given
  <2> QED BY <2>1 DEF Doomed
<1>2. JobsRoles
  BY DEF JobsRoles, JobQuiet, NewManifest
<1>3. CkptStep
  BY DEF CkptStep, SameCopy
<1>4. RolesStep
  BY <1>1, <1>2, <1>3, FreesRoles
<1>5. IManifests'
  BY <1>4, FreesManifests, ManifestsFrame
<1>6. IJobs'
  BY FreesJobs
<1>7. ICopies'
  BY SameFilesCopies, CopiesFrame DEF ICopies
<1>8. IObsolete'
  <2>1. \A t \in S : \A r \in Readers : t \notin reader[r].obsolete
    BY LiveFacts, GivenIs DEF Gives, LiveOK, Doomed
  <2>2. \A r \in Readers : reader[r].obsolete \subseteq zombies
    BY DEF IFiles, IObsolete, ObsoleteOK
  <2>3. ObsoleteStep
    BY <2>1, <2>2 DEF ObsoleteStep
  <2> QED BY <2>3, ObsoleteFrame
<1>9. nextFile \in Nat
  BY DEF IRefs, IRefType
<1> QED BY <1>4, <1>5, <1>6, <1>7, <1>8, <1>9, FilesParts

LEMMA UnrefOldFiles ==
  ASSUME IControl, IRefs, IRefs', IFiles, RestType', current' = current, NEW j \in Jobs, UnrefOld(j)
  PROVE  IFiles'
<1> PICK n : n = Len(states)
  OBVIOUS
<1>1. /\ pc[j] = "unrefold" /\ UnrefStateLocked(n - 1)
      /\ UNCHANGED <<disk, linked, manifests, currentFile, manifestNum, zombies, oldManifests, taken, todo, pacing>>
      /\ UNCHANGED <<reader, nextFile>>
      /\ Finish(j) \/ (Goto(j, "clean") /\ UNCHANGED <<job, ckpt>>)
  BY DEF UnrefOld, diskVars, numVars, cleanerVars
<1>2. n - 1 \in 1 .. Len(states)
  <2>1. Swapping
    BY <1>1 DEF Swapping
  <2>2. n \in Nat /\ n > 1
    BY <2>1, StateFacts DEF IRefs, IStates
  <2> QED BY <2>2
<1>3. FreesTables
  BY <1>1, <1>2, LockedFrees
<1>4. PICK S : Gives(S) /\ obsolete' = obsolete \union S
  BY <1>1, <1>2, LockedFrees
<1>5. /\ \A k \in Jobs : JobQuiet(k)
      /\ \A c \in Checkpoints : pc'[c] \in Copying => SameCopy(c)
      /\ \A r \in Readers : pc'[r] = pc[r]
  <2>1. CASE Finish(j)
    <3>1. Moves(j)
      BY <2>1, JobIs, FinishWithin
    <3> QED BY <1>1, <2>1, <3>1, JobIs, ReaderIs, FinishQuiet DEF Built, Moves
  <2>2. CASE Goto(j, "clean") /\ UNCHANGED <<job, ckpt>>
    <3>1. Moves(j) /\ pc'[j] = "clean"
      BY <2>2, JobIs, GotoMoves DEF IControl, IType
    <3>2. JobOK(j)'
      BY <1>1, <1>3, <2>2, <3>1, JobKnown DEF JobOK, FreesTables, Owning, Built
    <3>3. JobQuiet(j)
      BY <1>1, <2>2, <3>1, <3>2 DEF JobQuiet, Owning, Built
    <3> QED BY <2>2, <3>1, <3>3, JobIs, ReaderIs, CheckpointIs DEF JobQuiet, Moves, SameCopy
  <2> QED BY <1>1, <2>1, <2>2
<1> QED BY <1>1, <1>3, <1>4, <1>5, LockedFiles

LEMMA CloseStateFiles ==
  ASSUME IControl, IRefs, IRefs', IFiles, RestType', current' = current, CloseState
  PROVE  IFiles'
<1> PICK n : n = Len(states)
  OBVIOUS
<1>1. /\ UnrefStateLocked(n)
      /\ UNCHANGED <<disk, linked, manifests, currentFile, manifestNum, zombies, oldManifests, taken, todo, pacing>>
      /\ UNCHANGED <<reader, nextFile, job, ckpt>>
      /\ \E s : Goto(Closer, s)
  BY DEF CloseState, closeRest, diskVars, numVars
<1>2. n \in 1 .. Len(states)
  BY StateFacts DEF IRefs
<1>3. FreesTables
  BY <1>1, <1>2, LockedFrees
<1>4. PICK S : Gives(S) /\ obsolete' = obsolete \union S
  BY <1>1, <1>2, LockedFrees
<1>5. Moves(Closer)
  BY <1>1, OthersAre, GotoMoves DEF IControl, IType
<1>6. /\ \A k \in Jobs : JobQuiet(k)
      /\ \A c \in Checkpoints : pc'[c] \in Copying => SameCopy(c)
      /\ \A r \in Readers : pc'[r] = pc[r]
  BY <1>1, <1>5, JobIs, ReaderIs, CheckpointIs DEF JobQuiet, Moves, SameCopy
<1> QED BY <1>1, <1>3, <1>4, <1>6, LockedFiles

LEMMA UnrefFilesFiles ==
  ASSUME IControl, IRefs, IFiles, RestType', NEW r \in Readers, UnrefFiles(r)
  PROVE  IFiles'
<1> PICK v : v = VersionOf(r)
  OBVIOUS
<1> PICK S : S = LastReferences(versions, v)
  OBVIOUS
<1>1. /\ pc[r] = "unreffiles" /\ versions' = [versions EXCEPT ![v].released = TRUE]
      /\ reader' = [reader EXCEPT ![r].obsolete = S] /\ Goto(r, "remove")
      /\ UNCHANGED <<disk, linked, manifests, currentFile, manifestNum, zombies, obsolete, oldManifests, taken, todo, pacing>>
      /\ UNCHANGED <<nextFile, job, ckpt, list>>
  BY DEF UnrefFiles, readerRest, diskVars, numVars, VersionOf
<1>2. /\ IRefType /\ v \in list /\ v \in 1 .. Len(versions) /\ ~versions[v].released /\ versions[v].refs = 0
      /\ list \subseteq 1 .. Len(versions)
  BY <1>1 DEF IRefs, IRefType, IReaders
<1>3. Moves(r) /\ pc'[r] = "remove"
  BY <1>1, ReaderIs, GotoMoves DEF IControl, IType
<1>4. /\ \A k \in 1 .. Len(versions) : versions'[k].tables = versions[k].tables
      /\ \A k \in 1 .. Len(versions) : k # v => versions'[k].released = versions[k].released
      /\ versions'[v].released = TRUE
  <2>1. versions \in Seq(VersionType)
    BY <1>2 DEF IRefType
  <2> QED BY <1>1, <1>2, <2>1 DEF VersionType
<1>5. Releases(v)
  <2>1. v # current
    BY <1>2, CurrentHeld
  <2>2. Listed' = Listed \ {v} /\ v \in Listed
    BY <1>1, <1>2, <1>4 DEF Listed
  <2>3. current' = current
    BY <1>1 DEF current
  <2> QED BY <1>4, <2>1, <2>2, <2>3 DEF Releases
<1>6. FreesTables /\ Gives(S)
  BY <1>5, ReleaseFrees
<1>7. reader'[r].obsolete = S /\ \A q \in Readers : q # r => reader'[q] = reader[q]
  BY <1>1, ReadersKnown DEF ReaderType
<1>8. /\ \A k \in Jobs : JobQuiet(k)
      /\ \A c \in Checkpoints : SameCopy(c)
      /\ \A q \in Readers : q # r => pc'[q] = pc[q]
  BY <1>1, <1>3, JobIs, ReaderIs, CheckpointIs DEF JobQuiet, Moves, SameCopy
<1>9. Doomed' \subseteq Doomed \union S
  <2>1. Given' \subseteq Given \union S
    BY <1>7, GivenIs
  <2> QED BY <1>1, <2>1 DEF Doomed
<1>10. RolesStep
  <2>1. JobsRoles
    BY <1>8 DEF JobsRoles, JobQuiet, NewManifest
  <2>2. CkptStep
    BY <1>8 DEF CkptStep, SameCopy
  <2> QED BY <1>1, <1>6, <1>9, <2>1, <2>2, FreesRoles
<1>11. IManifests'
  BY <1>1, <1>6, <1>8, <1>10, FreesManifests, ManifestsFrame
<1>12. IJobs'
  BY <1>1, <1>6, <1>8, FreesJobs
<1>13. ICopies'
  BY <1>1, <1>8, SameFilesCopies, CopiesFrame DEF ICopies
<1>14. IObsolete'
  <2>1. \A t \in S : t \in zombies /\ t \notin obsolete /\ t \notin taken /\ t \notin Given
    BY <1>6, LiveFacts DEF Gives, LiveOK, Doomed
  <2>2. \A t \in S : \A q \in Readers : t \notin reader[q].obsolete
    BY <2>1, GivenIs
  <2>3. IObsolete
    BY DEF IFiles
  <2>4. ObsoleteOK(r)'
    BY <1>1, <1>3, <1>7, <2>1 DEF ObsoleteOK
  <2>5. \A q \in Readers : q # r => ObsoleteOK(q)'
    BY <1>1, <1>7, <1>8, <2>3 DEF IObsolete, ObsoleteOK
  <2>6. \A p, q \in Readers : p # q => reader'[p].obsolete \intersect reader'[q].obsolete = {}
    BY <1>7, <2>2, <2>3 DEF IObsolete
  <2> QED BY <2>4, <2>5, <2>6 DEF IObsolete
<1>15. nextFile \in Nat
  BY DEF IRefs, IRefType
<1> QED BY <1>1, <1>10, <1>11, <1>12, <1>13, <1>14, <1>15, FilesParts

LEMMA RemoveVersionFiles ==
  ASSUME IControl, IRefs, IFiles, RestType', NEW r \in Readers, RemoveVersion(r)
  PROVE  IFiles'
<1> PICK v : v = VersionOf(r)
  OBVIOUS
<1>1. /\ pc[r] = "remove" /\ list' = list \ {v} /\ obsolete' = obsolete \union reader[r].obsolete
      /\ reader' = [reader EXCEPT ![r].obsolete = {}] /\ Goto(r, "schedule")
      /\ UNCHANGED <<disk, linked, manifests, currentFile, manifestNum, zombies, oldManifests, taken, todo, pacing>>
      /\ UNCHANGED <<nextFile, job, ckpt, versions>>
  BY DEF RemoveVersion, readerRest, diskVars, numVars, VersionOf
<1>2. IRefType /\ versions[v].released /\ list \subseteq 1 .. Len(versions) /\ current \in list /\ \A k \in list : k <= current
  BY <1>1 DEF IRefs, IRefType, IReaders
<1>3. Moves(r) /\ pc'[r] = "schedule"
  BY <1>1, ReaderIs, GotoMoves DEF IControl, IType
<1>4. current' = current
  <2> PICK x : x = current
    OBVIOUS
  <2>1. x # v
    BY <1>2, CurrentHeld
  <2>2. list' \subseteq Nat /\ x \in list' /\ \A k \in list' : k <= x
    BY <1>1, <1>2, <2>1, VersionFacts
  <2>3. Max(list') = x
    BY <2>2, MaxIs
  <2> QED BY <2>3 DEF current
<1>5. LiveSame
  <2>1. Listed' = Listed
    BY <1>1, <1>2 DEF Listed
  <2> QED BY <1>1, <1>4, <2>1 DEF LiveSame, IsLive, Tables
<1>6. reader'[r].obsolete = {} /\ \A q \in Readers : q # r => reader'[q] = reader[q]
  BY <1>1, ReadersKnown DEF ReaderType
<1>7. /\ \A k \in Jobs : JobQuiet(k)
      /\ \A c \in Checkpoints : SameCopy(c)
      /\ \A q \in Readers : q # r => pc'[q] = pc[q]
  BY <1>1, <1>3, JobIs, ReaderIs, CheckpointIs DEF JobQuiet, Moves, SameCopy
<1>8. Doomed' \subseteq Doomed
  <2>1. Given' \subseteq Given /\ reader[r].obsolete \subseteq Given
    BY <1>6, GivenIs
  <2> QED BY <1>1, <2>1 DEF Doomed
<1>9. RolesStep
  <2>1. CkptStep
    BY <1>7 DEF CkptStep, SameCopy
  <2> QED BY <1>1, <1>5, <1>7, <1>8, <2>1, QuietRoles
<1>10. IManifests'
  BY <1>1, <1>5, <1>7, <1>9, QuietManifests, ManifestsFrame
<1>11. IJobs'
  BY <1>1, <1>5, <1>7, QuietJobs
<1>12. ICopies'
  BY <1>1, <1>7, SameFilesCopies, CopiesFrame DEF ICopies
<1>13. IObsolete'
  <2>1. \A q \in Readers : reader[q].obsolete \subseteq zombies
    BY DEF IFiles, IObsolete, ObsoleteOK
  <2>2. \A t \in reader[r].obsolete : \A q \in Readers : t \notin reader'[q].obsolete
    BY <1>6 DEF IFiles, IObsolete
  <2>3. ObsoleteStep
    BY <1>1, <1>6, <1>7, <2>1, <2>2 DEF ObsoleteStep
  <2> QED BY <2>3, ObsoleteFrame
<1>14. nextFile \in Nat
  BY DEF IRefs, IRefType
<1> QED BY <1>1, <1>9, <1>10, <1>11, <1>12, <1>13, <1>14, FilesParts

-----------------------------------------------------------------------------
(* The checkpoint takes a version. *)

LEMMA SnapshotFiles ==
  ASSUME IControl, IRefs, IFiles, RestType', NEW c \in Checkpoints, Snapshot(c)
  PROVE  IFiles'
<1> PICK t, m, n : t = Tables /\ m = manifestNum /\ n = Len(manifests[manifestNum])
  OBVIOUS
<1>1. /\ pc[c] = "snapshot" /\ ckpt' = [ckpt EXCEPT ![c].tables = t, ![c].manifest = m, ![c].size = n] /\ Goto(c, "copy")
      /\ UNCHANGED <<disk, linked, manifests, currentFile, manifestNum, zombies, obsolete, oldManifests, taken, todo, pacing>>
      /\ UNCHANGED <<nextFile, job, reader, versions, list>>
  BY DEF Snapshot, ckptRest, diskVars, setVars, numVars, listVars, cleanerVars, Tables
<1>2. Moves(c) /\ pc'[c] = "copy" /\ c \in Workers
  BY <1>1, CheckpointIs, GotoMoves DEF IControl, IType
<1>3. /\ ckpt'[c].tables = t /\ ckpt'[c].manifest = m /\ ckpt'[c].size = n
      /\ \A d \in Checkpoints : d # c => ckpt'[d] = ckpt[d]
  BY <1>1 DEF IFiles, IFileType, CkptType
<1>4. \A j \in Jobs : pc[j] \notin Built
  BY <1>1, CheckpointIs, JobIs DEF IControl, ILock, Locking
<1>5. LiveSame
  BY <1>1, SameVersions
<1>6. /\ \A k \in Jobs : JobQuiet(k)
      /\ \A d \in Checkpoints : d # c => SameCopy(d)
      /\ \A q \in Readers : pc'[q] = pc[q]
  BY <1>1, <1>2, <1>3, JobIs, ReaderIs, CheckpointIs DEF JobQuiet, Moves, SameCopy
<1>7. RolesStep
  <2>1. Doomed' = Doomed
    BY <1>1 DEF Doomed, Given
  <2>2. CkptStep
    BY <1>3, <1>6, LiveFacts DEF CkptStep, SameCopy
  <2> QED BY <1>1, <1>5, <1>6, <2>1, <2>2, QuietRoles
<1>8. IManifests'
  BY <1>1, <1>5, <1>6, <1>7, QuietManifests, ManifestsFrame
<1>9. IJobs'
  BY <1>1, <1>5, <1>6, QuietJobs
<1>10. ICopies'
  <2>1. \A d \in Checkpoints : d # c => CopyOK(d)'
    BY <1>1, <1>6, SameFilesCopies, CopiesFrame
  <2>2. t \subseteq disk /\ t \intersect pacing = {}
    BY LiveFacts DEF LiveOK, Doomed
  <2>3. m \in DOMAIN manifests /\ m \notin pacing
    BY DEF IFiles, IManifests, Doomed
  <2>4. n \in 1 .. Len(manifests[m])
    BY <2>3, ManifestAt
  <2>5. manifests[m][n] = t
    BY <1>4 DEF IFiles, IManifests, End, Built
  <2>6. CopyOK(c)'
    <3>1. ckpt'[c].tables \subseteq disk' /\ ckpt'[c].tables \intersect pacing' = {}
      BY <1>1, <1>3, <2>2
    <3>2. ckpt'[c].manifest \in DOMAIN manifests' /\ ckpt'[c].manifest \notin pacing'
      BY <1>1, <1>3, <2>3
    <3>3. ckpt'[c].size \in 1 .. Len(manifests'[ckpt'[c].manifest])
      BY <1>1, <1>3, <2>4
    <3>4. manifests'[ckpt'[c].manifest][ckpt'[c].size] = ckpt'[c].tables
      BY <1>1, <1>3, <2>5
    <3> QED BY <1>2, <3>1, <3>2, <3>3, <3>4 DEF CopyOK
  <2> QED BY <2>1, <2>6 DEF ICopies
<1>11. IObsolete'
  BY <1>1, <1>6, SameReaders, ObsoleteFrame
<1>12. nextFile \in Nat
  BY DEF IRefs, IRefType
<1> QED BY <1>1, <1>7, <1>8, <1>9, <1>10, <1>11, <1>12, FilesParts

LEMMA CopyManifestFiles ==
  ASSUME IControl, IRefs, IFiles, RestType', NEW c \in Checkpoints, CopyManifest(c)
  PROVE  IFiles'
<1> PICK s : s = SubSeq(manifests[ckpt[c].manifest], 1, ckpt[c].size)
  OBVIOUS
<1>1. /\ pc[c] = "copy" /\ ckpt' = [ckpt EXCEPT ![c].copied = s] /\ Goto(c, "link")
      /\ UNCHANGED <<disk, linked, manifests, currentFile, manifestNum, zombies, obsolete, oldManifests, taken, todo, pacing>>
      /\ UNCHANGED <<nextFile, job, reader, versions, list>>
  BY DEF CopyManifest, ckptRest, diskVars, setVars, numVars, listVars, cleanerVars
<1>2. Moves(c) /\ pc'[c] = "link" /\ c \in Workers
  BY <1>1, CheckpointIs, GotoMoves DEF IControl, IType
<1>3. /\ ckpt'[c].tables = ckpt[c].tables /\ ckpt'[c].copied = s
      /\ \A d \in Checkpoints : d # c => ckpt'[d] = ckpt[d]
  BY <1>1 DEF IFiles, IFileType, CkptType
<1>4. LiveSame
  BY <1>1, SameVersions
<1>5. /\ \A k \in Jobs : JobQuiet(k)
      /\ \A d \in Checkpoints : d # c => SameCopy(d)
      /\ \A q \in Readers : pc'[q] = pc[q]
  BY <1>1, <1>2, <1>3, JobIs, ReaderIs, CheckpointIs DEF JobQuiet, Moves, SameCopy
<1>6. RolesStep
  <2>1. Doomed' = Doomed
    BY <1>1 DEF Doomed, Given
  <2>2. CkptStep
    BY <1>1, <1>3, <1>5 DEF CkptStep, SameCopy, Copying
  <2> QED BY <1>1, <1>4, <1>5, <2>1, <2>2, QuietRoles
<1>7. IManifests'
  BY <1>1, <1>4, <1>5, <1>6, QuietManifests, ManifestsFrame
<1>8. IJobs'
  BY <1>1, <1>4, <1>5, QuietJobs
<1>9. ICopies'
  <2>1. \A d \in Checkpoints : d # c => CopyOK(d)'
    BY <1>1, <1>5, SameFilesCopies, CopiesFrame
  <2>2. /\ ckpt[c].tables \subseteq disk /\ ckpt[c].tables \intersect pacing = {}
        /\ ckpt[c].manifest \in DOMAIN manifests
        /\ ckpt[c].size \in 1 .. Len(manifests[ckpt[c].manifest])
        /\ manifests[ckpt[c].manifest][ckpt[c].size] = ckpt[c].tables
    BY <1>1 DEF IFiles, ICopies, CopyOK, Copying
  <2>3. s \in Seq(SUBSET Nat) /\ Len(s) = ckpt[c].size /\ s[ckpt[c].size] = ckpt[c].tables
    BY <2>2, ManifestAt, SubSeqType
  <2>4. Last(s) = ckpt[c].tables
    BY <2>3 DEF Last
  <2>5. s # <<>>
    BY <2>2, <2>3
  <2>6. CopyOK(c)'
    BY <1>1, <1>2, <1>3, <2>2, <2>4, <2>5 DEF CopyOK
  <2> QED BY <2>1, <2>6 DEF ICopies
<1>10. IObsolete'
  BY <1>1, <1>5, SameReaders, ObsoleteFrame
<1>11. nextFile \in Nat
  BY DEF IRefs, IRefType
<1> QED BY <1>1, <1>6, <1>7, <1>8, <1>9, <1>10, <1>11, FilesParts

-----------------------------------------------------------------------------
(* The new version is installed. *)

(* What the rest of logAndApply does to versions: n is the version built, c the current one. *)
Installs(n, c) ==
  /\ n \in 1 .. Len(versions) /\ c \in 1 .. Len(versions) /\ n # c /\ n \notin list /\ ~versions[n].released
  /\ c = current /\ c \in Listed /\ current' = n
  /\ \A k \in 1 .. Len(versions) : versions'[k].tables = versions[k].tables
  /\ \/ Listed' = Listed \union {n} /\ obsolete' = obsolete
     \/ Listed' = (Listed \ {c}) \union {n} /\ obsolete' = obsolete \union LastReferences(versions, c)

LEMMA InstallIs ==
  ASSUME IControl, IRefs, NEW j \in Jobs, Install(j)
  PROVE  Installs(Len(versions), current) /\ job[j].version = Len(versions)
<1> PICK n, c, s, x : /\ n = Len(versions) /\ c = current /\ s = UnrefLocked(VersionState, c)
                      /\ x = [s.versions[n] EXCEPT !.refs = 1]
  OBVIOUS
<1>1. /\ pc[j] = "install" /\ obsolete' = s.obsolete
      /\ versions' = [s.versions EXCEPT ![job[j].version].refs = 1] /\ list' = s.list \union {job[j].version}
  BY DEF Install
<1>2. /\ IRefType /\ c \in 1 .. n /\ n \in Nat /\ list \subseteq 1 .. n /\ c \in list /\ \A v \in list : v <= c
      /\ c \in 1 .. Len(versions)
  BY VersionFacts DEF IRefs, IRefType
<1>3. job[j].version = n /\ n \notin list /\ ~versions[n].released /\ n \in 1 .. n /\ n # c
  BY <1>1, <1>2 DEF IRefs, IBuilt, Built
<1>4. ~versions[c].released
  BY CurrentHeld
<1>5. Unreffed(s, c)
  BY <1>2, UnrefLockedIs
<1>6. /\ s.versions \in Seq(VersionType) /\ Len(s.versions) = n
      /\ \A k \in 1 .. n : k # c => s.versions[k] = versions[k]
      /\ s.versions[c].tables = versions[c].tables
  BY <1>5 DEF Unreffed
<1>7. x \in VersionType /\ x.tables = versions[n].tables /\ x.released = versions[n].released
  <2>1. s.versions[n] = versions[n] /\ versions[n] \in VersionType
    BY <1>2, <1>3, <1>6, VersionFacts
  <2> QED BY <2>1 DEF VersionType
<1>8. versions'[n] = x /\ \A k \in 1 .. n : k # n => versions'[k] = s.versions[k]
  <2>1. versions' = [s.versions EXCEPT ![n] = x]
    BY <1>1, <1>3, <1>6
  <2> QED BY <1>2, <1>3, <1>6, <1>7, <2>1
<1>9. /\ \A k \in 1 .. n : versions'[k].tables = versions[k].tables
      /\ \A k \in 1 .. n : k # c => versions'[k].released = versions[k].released
      /\ versions'[c].released = s.versions[c].released
  BY <1>2, <1>3, <1>6, <1>7, <1>8, ZenonT(60)
<1>10. \/ list' = list \union {n} /\ obsolete' = obsolete /\ ~versions'[c].released
       \/ list' = (list \ {c}) \union {n} /\ obsolete' = obsolete \union LastReferences(versions, c) /\ versions'[c].released
  BY <1>1, <1>3, <1>4, <1>5, <1>9 DEF Unreffed
<1>11. current' = n
  <2>1. \A y \in list' : y \in 1 .. n
    BY <1>2, <1>3, <1>10
  <2>2. list' \subseteq Nat /\ n \in list' /\ \A y \in list' : y <= n
    BY <1>2, <1>10, <2>1
  <2>3. Max(list') = n
    BY <2>2, MaxIs
  <2> QED BY <2>3 DEF current
<1>12. \/ Listed' = Listed \union {n} /\ obsolete' = obsolete
       \/ Listed' = (Listed \ {c}) \union {n} /\ obsolete' = obsolete \union LastReferences(versions, c)
  <2>1. CASE list' = list \union {n} /\ obsolete' = obsolete /\ ~versions'[c].released
    <3>1. \A v : v \in Listed' <=> v \in Listed \union {n}
      BY <1>2, <1>3, <1>4, <1>9, <2>1 DEF Listed
    <3> QED BY <2>1, <3>1
  <2>2. CASE list' = (list \ {c}) \union {n} /\ obsolete' = obsolete \union LastReferences(versions, c) /\ versions'[c].released
    <3>1. \A v : v \in Listed' <=> v \in (Listed \ {c}) \union {n}
      BY <1>2, <1>3, <1>9, <2>2 DEF Listed
    <3> QED BY <2>2, <3>1
  <2> QED BY <1>10, <2>1, <2>2
<1> QED BY <1>2, <1>3, <1>4, <1>9, <1>11, <1>12 DEF Installs, Listed

LEMMA InstallFiles ==
  ASSUME IControl, IRefs, IFiles, RestType', NEW j \in Jobs, Install(j)
  PROVE  IFiles'
<1> PICK n, c, S : n = Len(versions) /\ c = current /\ S = LastReferences(versions, c)
  OBVIOUS
<1>1. /\ pc[j] = "install" /\ Goto(j, "state") /\ zombies' = zombies \union (job[j].in \ job[j].out)
      /\ oldManifests' = (IF job[j].manifest = 0 THEN oldManifests ELSE oldManifests \union {manifestNum})
      /\ manifestNum' = (IF job[j].manifest = 0 THEN manifestNum ELSE job[j].manifest)
      /\ job' = [job EXCEPT ![j].in = {}]
      /\ UNCHANGED <<disk, linked, manifests, currentFile, taken, todo, pacing>>
      /\ UNCHANGED <<nextFile, reader, ckpt>>
  BY DEF Install, diskVars, cleanerVars
<1>2. Moves(j) /\ pc'[j] = "state"
  BY <1>1, JobIs, GotoMoves DEF IControl, IType
<1>3. (\A k \in Jobs : k # j => job'[k] = job[k]) /\ job'[j].in = {}
  BY <1>1, JobKnown DEF JobType
<1>4. /\ \A k \in Jobs : k # j => pc'[k] = pc[k] /\ job'[k] = job[k]
      /\ \A d \in Checkpoints : SameCopy(d)
      /\ \A r \in Readers : pc'[r] = pc[r]
      /\ CkptStep
  BY <1>1, <1>2, <1>3, JobStepFrame
<1>5. Installs(n, c) /\ job[j].version = n /\ IRefType /\ Listed \subseteq 1 .. Len(versions)
  <2>1. Installs(n, c) /\ job[j].version = n
    BY InstallIs
  <2>2. IRefType /\ list \subseteq 1 .. Len(versions)
    BY DEF IRefs, IRefType
  <2> QED BY <2>1, <2>2 DEF Listed
<1>6. JobOK(j) /\ ManifestOK(j) /\ IManifests /\ job[j].in \subseteq Tables /\ job[j].out \subseteq linked
  BY <1>1, JobKnown DEF JobOK, Built, IFiles, IManifests
<1>7. Tables' = (Tables \ job[j].in) \union job[j].out
  BY <1>1, <1>5, <1>6 DEF JobOK, Built, Installs, Tables
<1>8. \A t \in job[j].out : (t \in job[j].pending \/ t \in job[j].in)
  BY <1>1, <1>6 DEF JobOK, Owning, Built
<1>9. \A t \in job[j].pending : Left(t) /\ OwnedOK(j, t)
  BY <1>1, <1>2, OwnedFacts DEF Left, Owning, Built
<1>10. \A t \in Tables : IsLive(t)
  BY LiveFacts
<1>11. ASSUME NEW t, IsLive(t)' PROVE t \in Tables' \/ IsLive(t)
  BY <1>5, <1>11, ZenonT(60) DEF IsLive, Installs, Tables
<1>12. ASSUME NEW t \in S, obsolete' = obsolete \union S, Listed' = (Listed \ {c}) \union {n} PROVE IsLive(t) /\ ~IsLive(t)'
  <2>1. /\ t \in versions[c].tables
        /\ \A k \in 1 .. Len(versions) : k # c /\ ~versions[k].released => t \notin versions[k].tables
    BY <1>5, LastReferencesAre DEF Installs
  <2>2. IsLive(t)
    BY <1>5, <2>1 DEF IsLive, Installs
  <2>3. ASSUME NEW k \in Listed' PROVE t \notin versions'[k].tables
    <3>1. k \in 1 .. Len(versions) /\ k # c /\ ~versions[k].released
      BY <1>5, <1>12, <2>3 DEF Installs, Listed
    <3> QED BY <1>5, <2>1, <3>1 DEF Installs
  <2> QED BY <2>2, <2>3 DEF IsLive
<1>13. ASSUME NEW t \in obsolete' PROVE t \in obsolete \/ (IsLive(t) /\ ~IsLive(t)')
  BY <1>5, <1>12, <1>13 DEF Installs
<1>14. RolesStep
  <2>1. JobsRoles
    BY <1>2, <1>4 DEF JobsRoles, NewManifest, Owning, Built
  <2>2. DoomStep
    <3>1. Given' = Given
      BY <1>1 DEF Given
    <3>2. job[j].manifest # 0 => manifestNum' # manifestNum
      BY <1>1, <1>6 DEF ManifestOK, NewManifest, Built
    <3>3. ASSUME NEW t \in Doomed' PROVE t \in Doomed \/ t \in obsolete' \/ (t = manifestNum /\ manifestNum' # manifestNum)
      BY <1>1, <3>1, <3>2, <3>3 DEF Doomed
    <3>4. obsolete \subseteq Doomed
      BY DEF Doomed
    <3> QED BY <1>13, <3>3, <3>4 DEF DoomStep
  <2>3. DiskStep /\ DirStep
    BY <1>1 DEF DiskStep, DirStep
  <2>4. LiveStep
    BY <1>6, <1>7, <1>8, <1>9, <1>10, <1>11 DEF LiveStep
  <2>5. ZombieStep
    BY <1>1, <1>6, <1>10 DEF ZombieStep
  <2>6. CurrentStep
    <3>1. ASSUME NEW t, IsLive(t)' PROVE t \in Tables' \/ t \in zombies'
      <4>1. CASE IsLive(t)
        <5>1. t \in Tables \/ t \in zombies
          BY <4>1, LiveFacts DEF LiveOK
        <5> QED BY <1>1, <1>7, <5>1
      <4> QED BY <1>11, <3>1, <4>1
    <3>2. Tables' \subseteq linked'
      BY <1>1, <1>6, <1>7 DEF IFiles, ITables
    <3>3. \A t \in job[j].out : t \notin zombies
      BY <1>6, <1>8, <1>9 DEF OwnedOK, IFiles, ITables
    <3>4. Tables' \intersect zombies' = {}
      BY <1>1, <1>7, <3>3 DEF IFiles, ITables
    <3> QED BY <3>1, <3>2, <3>4 DEF CurrentStep
  <2> QED BY <1>4, <2>1, <2>2, <2>3, <2>4, <2>5, <2>6 DEF RolesStep
<1>15. \A k \in Jobs : pc'[k] \notin Built
  BY <1>1, <1>2, <1>4, OnlyBuilder DEF Locking, Built
<1>16. IJobs'
  <2>1. JobOK(j)'
    BY <1>2, <1>3, DoneOK DEF Owning, Built
  <2>2. \A i, k \in Jobs : i # k => job[i].in \intersect job[k].in = {}
    BY DEF IFiles, IJobs
  <2>3. ASSUME NEW k \in Jobs, k # j PROVE JobOK(k)'
    <3>1. JobOK(k) /\ pc'[k] = pc[k] /\ job'[k] = job[k] /\ pc[k] \notin Built
      BY <1>4, <1>15, <2>3, JobKnown
    <3>2. job[k].in \subseteq Tables'
      <4>1. job[k].in \subseteq Tables
        BY <3>1 DEF JobOK
      <4> QED BY <1>7, <2>2, <2>3, <4>1
    <3> QED BY <1>1, <3>1, <3>2 DEF JobOK
  <2>4. \A i, k \in Jobs : i # k => job'[i].in \intersect job'[k].in = {}
    BY <1>3, <2>2
  <2> QED BY <2>1, <2>3, <2>4 DEF IJobs
<1>17. IManifests'
  <2>1. \A k \in Jobs : ManifestOK(k)'
    BY <1>15, NotBuiltManifest
  <2>2. DoomStep
    BY <1>14 DEF RolesStep
  <2>3. \A m \in DOMAIN manifests' : manifests'[m] # <<>>
    BY <1>1, <1>6 DEF IManifests
  <2>4. versions[job[j].version].tables = Tables'
    BY <1>1, <1>6, <1>7 DEF JobOK, Built
  <2>5. CASE job[j].manifest = 0
    <3>1. manifestNum' \in DOMAIN manifests' /\ manifestNum' \notin Doomed'
      BY <1>1, <1>6, <2>2, <2>5, ManifestSpared DEF IManifests
    <3>2. End(manifestNum)' = Tables'
      BY <1>1, <1>6, <2>4, <2>5 DEF ManifestOK, End
    <3>3. \A k \in Jobs : ~(pc[k] = "install" /\ job[k].manifest # 0)
      BY <1>1, <2>5, OnlyBuilder DEF Locking, Built
    <3>4. currentFile' = manifestNum'
      BY <1>1, <1>6, <2>5, <3>3 DEF IManifests
    <3> QED BY <2>1, <2>3, <3>1, <3>2, <3>4 DEF IManifests
  <2>6. CASE job[j].manifest # 0
    <3>0. NewManifest(j) /\ manifestNum' = job[j].manifest
      BY <1>1, <2>6 DEF NewManifest, Built
    <3>1. job[j].manifest \in DOMAIN manifests /\ job[j].manifest \notin Doomed /\ job[j].manifest # manifestNum
      BY <1>1, <1>6, <3>0 DEF ManifestOK
    <3>2. job[j].manifest \notin Doomed'
      BY <2>2, <3>0, <3>1, ManifestSpared
    <3>3. End(manifestNum)' = Tables'
      BY <1>1, <1>6, <2>4, <3>0 DEF ManifestOK, End
    <3>4. currentFile' = manifestNum'
      BY <1>1, <1>6, <2>6, <3>0 DEF ManifestOK
    <3> QED BY <1>1, <2>1, <2>3, <3>0, <3>1, <3>2, <3>3, <3>4 DEF IManifests
  <2> QED BY <2>5, <2>6
<1>18. ICopies'
  BY <1>1, <1>4, SameFilesCopies, CopiesFrame DEF ICopies
<1>19. IObsolete'
  <2>1. \A t : IsLive(t) => \A r \in Readers : t \notin reader[r].obsolete
    BY LiveFacts, GivenIs DEF LiveOK, Doomed
  <2>2. \A r \in Readers : reader[r].obsolete \subseteq zombies
    BY DEF IFiles, IObsolete, ObsoleteOK
  <2>3. ObsoleteStep
    BY <1>1, <1>4, <1>13, <2>1, <2>2 DEF ObsoleteStep
  <2> QED BY <2>3, ObsoleteFrame
<1>20. nextFile \in Nat
  BY DEF IRefs, IRefType
<1> QED BY <1>1, <1>14, <1>16, <1>17, <1>18, <1>19, <1>20, FilesParts

-----------------------------------------------------------------------------
(* The invariant. *)

LEMMA InitFiles ==
  ASSUME Init
  PROVE  IFiles
<1>1. /\ disk = LiveTables /\ linked = LiveTables /\ manifests = [m \in {FirstManifest} |-> <<LiveTables>>]
      /\ currentFile = FirstManifest /\ manifestNum = FirstManifest /\ nextFile = FirstManifest + 1
      /\ versions = <<[tables |-> LiveTables, refs |-> 2, released |-> FALSE]>> /\ list = {1}
      /\ zombies = {} /\ obsolete = {} /\ oldManifests = {} /\ taken = {} /\ todo = {} /\ pacing = {}
      /\ job = [j \in Jobs |-> NoJob] /\ reader = [r \in Readers |-> NoReader]
      /\ ckpt = [c \in Checkpoints |-> NoCkpt]
  BY DEF Init
<1>2. /\ \A w \in Workers \union Readers : pc[w] = "idle"
      /\ \A j \in Jobs : pc[j] = "idle" /\ job[j] = NoJob
      /\ \A r \in Readers : pc[r] = "idle" /\ reader[r].obsolete = {}
      /\ \A c \in Checkpoints : pc[c] = "idle" /\ ckpt[c] = NoCkpt
  BY JobIs, ReaderIs, CheckpointIs DEF Init, NoReader
<1>3. FirstManifest \in Nat /\ LiveTables \subseteq Nat /\ \A t \in LiveTables : t < FirstManifest
  BY FilesAssumption
<1>4. current = 1
  <2>1. \A y \in {1} : y <= 1
    OBVIOUS
  <2> QED BY <1>1, <2>1, MaxIs DEF current
<1>5. Tables = LiveTables /\ Listed = {1} /\ versions[1].tables = LiveTables
  BY <1>1, <1>4 DEF Tables, Listed
<1>6. Given = {}
  BY <1>2 DEF Given
<1>7. Doomed = {}
  BY <1>1, <1>6 DEF Doomed
<1>8. \A j \in Jobs : /\ ~NewManifest(j) /\ pc[j] \notin Owning
                      /\ job[j].in = {} /\ job[j].out = {} /\ job[j].pending = {}
  BY <1>2 DEF NewManifest, Built, Owning, NoJob
<1>9. DOMAIN manifests = {FirstManifest} /\ manifests[FirstManifest] = <<LiveTables>>
  BY <1>1
<1>10. IFileType
  <2>1. <<LiveTables>> \in Seq(SUBSET Nat)
    BY <1>3
  <2>2. manifests \in [DOMAIN manifests -> Seq(SUBSET Nat)]
    BY <1>1, <2>1
  <2>3. ckpt \in [Checkpoints -> CkptType]
    BY <1>1, NoCkptType
  <2> QED BY <1>1, <1>3, <1>9, <2>2, <2>3 DEF IFileType
<1>11. IJobs
  BY <1>2, <1>8 DEF IJobs, JobOK, Owning, Built
<1>12. IOwned
  BY <1>8 DEF IOwned
<1>13. ITables
  <2>1. \A t \in LiveTables : t # FirstManifest
    BY <1>3
  <2> QED BY <1>1, <1>5, <1>7, <1>8, <1>9, <2>1 DEF ITables, LiveOK
<1>14. IFresh
  <2>1. FirstManifest < FirstManifest + 1 /\ \A t \in LiveTables : t < FirstManifest + 1
    BY <1>3
  <2> QED BY <1>1, <1>7, <1>8, <1>9, <2>1 DEF IFresh
<1>15. IManifests
  <2>1. End(FirstManifest) = LiveTables /\ <<LiveTables>> # <<>>
    BY <1>9 DEF End
  <2>2. \A j \in Jobs : ManifestOK(j)
    BY <1>2, <1>8 DEF ManifestOK
  <2> QED BY <1>1, <1>5, <1>7, <1>9, <2>1, <2>2 DEF IManifests
<1>16. ICopies
  BY <1>2 DEF ICopies, CopyOK, Copying
<1>17. IObsolete
  BY <1>2 DEF IObsolete, ObsoleteOK
<1> QED BY <1>10, <1>11, <1>12, <1>13, <1>14, <1>15, <1>16, <1>17 DEF IFiles

LEMMA NextFiles ==
  ASSUME IControl, IRefs, IFiles, [Next]_vars
  PROVE  IFiles'
<1>1. IControl' /\ IRefs' /\ RestType' /\ job' \in [Jobs -> JobType] /\ nextFile' \in Nat \ {0}
  BY NextControl, NextRefs, NextRestType, NextJobType
<1>2. ASSUME NEW j \in Jobs, JobStep(j) PROVE IFiles'
  <2>1. CASE LogLock(j) \/ Pick(j) \/ PickNothing(j) \/ NewOutput(j) \/ NoOutput(j) \/ SyncOutputs(j) \/ FailOutputs(j)
             \/ FailIngest(j)
    BY <1>1, <2>1, LogLockFiles, PickFiles, PickNothingFiles, NewOutputFiles, NoOutputFiles, SyncOutputsFiles,
       FailOutputsFiles, FailIngestFiles
  <2>2. CASE \E replace \in BOOLEAN : Edit(j, replace)
    BY <1>1, <2>2, EditFiles
  <2>3. CASE CreateManifest(j) \/ FailManifest(j) \/ IngestCleanup(j) \/ AppendEdit(j) \/ SetCurrentFile(j)
             \/ Install(j) \/ SwapState(j)
    BY <1>1, <2>3, CreateManifestFiles, FailManifestFiles, IngestCleanupFiles, AppendEditFiles, SetCurrentFiles,
       InstallFiles, SwapStateFiles
  <2>4. CASE UnrefOld(j)
    <3>1. current' = current
      BY <1>1, <2>4, UnrefOldRefs
    <3> QED BY <1>1, <2>4, <3>1, UnrefOldFiles
  <2> QED BY <1>2, <2>1, <2>2, <2>3, <2>4 DEF JobStep
<1>3. ASSUME NEW j \in Jobs, NEW kind \in {"flush", "compaction", "ingest", "rotation"}, Begin(j, kind) PROVE IFiles'
  BY <1>1, <1>3, BeginFiles
<1>4. ASSUME NEW w \in Workers, CleaningStep(w) PROVE IFiles'
  BY <1>1, <1>4, AcquireFiles, DeleteFiles, ReleaseFiles DEF CleaningStep
<1>5. ASSUME NEW r \in Readers, Load(r) \/ UnrefState(r) \/ UnrefStep(r) PROVE IFiles'
  BY <1>1, <1>5, LoadFiles, UnrefStateFiles, UnrefVersionFiles, UnrefFilesFiles, RemoveVersionFiles, ScheduleFiles
     DEF UnrefStep
<1>6. ASSUME NEW c \in Checkpoints, CheckpointStep(c) \/ Disable(c) PROVE IFiles'
  BY <1>1, <1>6, CheckpointFiles, SnapshotFiles, CopyManifestFiles, LinkTableFiles DEF CheckpointStep
<1>7. CASE BeginClose \/ CloseStep
  <2>1. CASE CloseState
    <3>1. current' = current
      BY <1>1, <2>1, CloseStateRefs
    <3> QED BY <1>1, <2>1, <3>1, CloseStateFiles
  <2>2. CASE BeginClose \/ Drain \/ AwaitDeleters
    BY <1>1, <2>2, CloserFiles
  <2> QED BY <1>7, <2>1, <2>2 DEF CloseStep
<1>8. CASE PacedDelete
  BY <1>1, <1>8, PacedFiles
<1>9. CASE CleanerStart
  BY <1>1, <1>9, CleanerStartFiles
<1>10. CASE Terminated \/ UNCHANGED vars
  BY <1>1, <1>10, StutterFiles DEF Terminated
<1> QED BY <1>2, <1>3, <1>4, <1>5, <1>6, <1>7, <1>8, <1>9, <1>10 DEF Next

(* In every state each file has one role (owned by the job that wrote it, live in a version of the list, or *)
(* on its way to deletion), manifests end in the tables of the version they describe, and what a checkpoint *)
(* of checkpoint.go still copies is not deleted.                                                            *)
THEOREM FilesInvariant == Spec => []IFiles
<1>1. Init => IFiles
  BY InitFiles
<1>2. IControl /\ IRefs /\ IFiles /\ [Next]_vars => IFiles'
  BY NextFiles
<1> QED BY <1>1, <1>2, ControlInvariant, RefsInvariant, PTL DEF Spec

-----------------------------------------------------------------------------
(* What the invariant means. *)

LEMMA FilesTablesExist ==
  ASSUME IControl, IRefs, IFiles
  PROVE  TablesExist
<1>1. ASSUME NEW r \in Readers, pc[r] = "reading" PROVE versions[states[reader[r].state].version].tables \subseteq disk
  <2> PICK i : i = reader[r].state
    OBVIOUS
  <2>1. i \in 1 .. Len(states) /\ r \in StateHolders(i)
    BY <1>1 DEF StateHolders, IRefs, IRefType
  <2>2. states[i].refs > 0
    BY <2>1, StateRefs
  <2>3. states[i].version \in Listed
    BY <2>1, <2>2, LiveListed DEF Listed
  <2> QED BY <2>3 DEF IFiles, ITables, LiveOK
<1>2. \A j \in Jobs : job[j].in \subseteq disk \intersect versions[current].tables
  BY JobKnown, LiveFacts DEF JobOK, LiveOK, Tables
<1>3. \A j \in Jobs : pc[j] \in {"sync", "lock", "edit", "create", "append", "setcurrent", "install"} =>
                        job[j].out \subseteq disk
  BY OutputsExist DEF Owning, Built
<1> QED BY <1>1, <1>2, <1>3 DEF TablesExist

(* deleteObsoleteFile never takes a table from a reader, from a running compaction or from the job that     *)
(* wrote it, whatever the interleaving of releases and turns.                                               *)
THEOREM TablesExistAlways == Spec => []TablesExist
BY FilesTablesExist, ControlInvariant, RefsInvariant, FilesInvariant, PTL

LEMMA FilesRecoverable ==
  ASSUME IControl, IRefs, IFiles
  PROVE  Recoverable
<1>1. IManifests /\ Tables \subseteq disk \intersect linked
  BY LiveFacts DEF IFiles, ITables, LiveOK
<1>2. \A m \in DOMAIN manifests : Last(manifests[m]) = End(m)
  BY DEF Last, End
<1>3. ASSUME NEW j \in Jobs, pc[j] = "install"
      PROVE  /\ versions[job[j].version].tables \subseteq disk \intersect linked
             /\ versions[job[j].version].tables \in Installing
  <2>1. job[j].out \subseteq disk /\ job[j].out \subseteq linked
    BY <1>3, OutputsExist, JobKnown DEF JobOK, Owning, Built
  <2>2. versions[job[j].version].tables = (Tables \ job[j].in) \union job[j].out
    BY <1>3, JobKnown DEF JobOK, Built
  <2> QED BY <1>1, <1>3, <2>1, <2>2 DEF Installing
<1>4. CASE \E j \in Jobs : pc[j] = "install" /\ job[j].manifest # 0
  <2>1. PICK j \in Jobs : pc[j] = "install" /\ job[j].manifest # 0
    BY <1>4
  <2>2. /\ currentFile = job[j].manifest /\ currentFile \in DOMAIN manifests
        /\ End(currentFile) = versions[job[j].version].tables
    BY <1>1, <2>1 DEF IManifests, ManifestOK, NewManifest, Built
  <2> QED BY <1>2, <1>3, <2>1, <2>2 DEF Recoverable
<1>5. CASE ~\E j \in Jobs : pc[j] = "install" /\ job[j].manifest # 0
  <2>1. currentFile = manifestNum /\ currentFile \in DOMAIN manifests
    BY <1>1, <1>5 DEF IManifests
  <2>2. CASE \E j \in Jobs : pc[j] = "install" /\ job[j].manifest = 0
    <3>1. PICK j \in Jobs : pc[j] = "install" /\ job[j].manifest = 0
      BY <2>2
    <3>2. End(currentFile) = versions[job[j].version].tables
      BY <1>1, <2>1, <3>1 DEF IManifests, ManifestOK
    <3> QED BY <1>2, <1>3, <2>1, <3>1, <3>2 DEF Recoverable
  <2>3. CASE ~\E j \in Jobs : pc[j] = "install" /\ job[j].manifest = 0
    <3>1. End(currentFile) = Tables
      BY <1>1, <2>1, <2>3 DEF IManifests
    <3> QED BY <1>1, <1>2, <2>1, <3>1 DEF Recoverable, Tables
  <2> QED BY <2>2, <2>3
<1> QED BY <1>4, <1>5

(* At every point of logAndApply, and of everything that runs beside it, a crash leaves a manifest that     *)
(* CURRENT names, with an end whose tables are durable: the current version or the one being installed.     *)
THEOREM RecoverableAlways == Spec => []Recoverable
BY FilesRecoverable, ControlInvariant, RefsInvariant, FilesInvariant, PTL

LEMMA FilesCheckpoints ==
  ASSUME IFiles
  PROVE  CheckpointConsistent
BY DEF CheckpointConsistent, IFiles, ICopies, CopyOK, Copying

(* Checkpoint copies the manifest up to the edit of the version it links the tables of, and all of them     *)
(* still exist, as disableFileDeletions waits out the turn of a cleaner.                                    *)
THEOREM CheckpointsConsistent == Spec => []CheckpointConsistent
BY FilesCheckpoints, FilesInvariant, PTL

LEMMA FilesPanicFree ==
  ASSUME IControl, IRefs, IFiles
  PROVE  PanicFree
<1>1. \A i \in DOMAIN versions : versions[i].refs >= 0
  <2>1. DOMAIN versions = 1 .. Len(versions)
    BY DEF IRefs, IRefType
  <2> QED BY <2>1, RefsHolders
<1>2. \A i \in DOMAIN states : states[i].refs >= 0
  <2>1. DOMAIN states = 1 .. Len(states)
    BY DEF IRefs, IRefType
  <2> QED BY <2>1, StateRefs
<1>3. Cardinality({w \in Workers : pc[w] \in {"start", "delete"}}) = IF cleaning THEN 1 ELSE 0
  <2>1. CASE cleaning
    <3>1. PICK w \in Workers : pc[w] \in Turning
      BY <2>1 DEF IControl, ITurn
    <3>2. {v \in Workers : pc[v] \in {"start", "delete"}} = {w}
      BY <3>1 DEF IControl, ITurn, Turning
    <3>3. Cardinality({w}) = 1
      BY FS_Singleton
    <3> QED BY <2>1, <3>2, <3>3
  <2>2. CASE ~cleaning
    <3>1. {v \in Workers : pc[v] \in {"start", "delete"}} = {}
      BY <2>2 DEF IControl, ITurn, Turning
    <3>2. Cardinality({}) = 0
      BY FS_EmptySet
    <3> QED BY <2>2, <3>1, <3>2
  <2> QED BY <2>1, <2>2
<1>4. \A i \in list : ~versions[i].released => versions[i].tables \subseteq versions[current].tables \union zombies
  BY DEF IFiles, ITables, LiveOK, Listed, Tables
<1>5. \A r \in Readers : reader[r].obsolete \subseteq zombies
  BY DEF IFiles, IObsolete, ObsoleteOK
<1>6. ASSUME NEW c \in Checkpoints, pc[c] \in {"lock", "snapshot", "copy", "link", "enable"} PROVE disabled > 0 /\ ~cleaning
  <2>1. ~cleaning /\ IsFiniteSet(Disablers) /\ disabled = Cardinality(Disablers) /\ disabled \in Nat
    BY <1>6 DEF IControl, IType, IDisabled, Disabling
  <2>2. Disablers # {}
    BY <1>6 DEF Disablers, Disabling
  <2>3. disabled # 0
    BY <2>1, <2>2, FS_EmptySet
  <2> QED BY <2>1, <2>3
<1> QED BY <1>1, <1>2, <1>3, <1>4, <1>5, <1>6 DEF PanicFree

(* addObsoleteLocked, enableFileDeletions and the reference counts never reach their panics, and one        *)
(* goroutine at a time deletes.                                                                             *)
THEOREM NeverPanics == Spec => []PanicFree
BY FilesPanicFree, ControlInvariant, RefsInvariant, FilesInvariant, PTL

LEMMA ControlWakes ==
  ASSUME IControl
  PROVE  NoLostWakeup
BY DEF IControl, ITurn, ILock, Coming, NoLostWakeup

(* No goroutine sleeps on cleaner.cond or writerCond with nobody left to wake it.                           *)
THEOREM WakeupsArrive == Spec => []NoLostWakeup
BY ControlWakes, ControlInvariant, PTL
=============================================================================
