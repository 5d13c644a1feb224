-------------------------- MODULE StateFileProofs --------------------------
(***************************************************************************)
(* Proofs about StateFile, for any number of savers, documents, temp names *)
(* and inodes: the state file is never corrupt, saves have their temp      *)
(* files to themselves and leave none behind, and Save as a whole is the   *)
(* atomic replacement that AtomicFile promises.                            *)
(*                                                                         *)
(* NeverCorrupt is not inductive: that the rename puts a whole document in *)
(* place depends on what the calls before it have done to a temp file that *)
(* nobody else can reach.  IInv adds what a save has achieved so far       *)
(* (TempsReady), that temp names are not shared (NamesOwn), and that the   *)
(* target is on disk before the directory that names it (TargetSynced).    *)
(***************************************************************************)
EXTENDS StateFile, TLAPS

-----------------------------------------------------------------------------
(***************************************************************************)
(* The inductive invariant.                                                *)
(***************************************************************************)

Written == {"written", "synced", "closed", "chmodded"}
OnDisk  == {"synced", "closed", "chmodded"}

\* What a save in progress has made of its temp file so far.
TempsReady ==
  \A w \in Writer : Running(w) =>
    /\ save[w].at \in Written => mem[save[w].ino] = save[w].doc
    /\ save[w].at \in OnDisk => save[w].ino \in synced

\* No two saves in progress have the same temp name.
NamesOwn ==
  \A v, w \in Writer : Running(v) /\ Running(w) /\ v # w => save[v].name # save[w].name

\* The next write-back of the directory cannot expose what is not on disk.
TargetSynced == dir[Target] # NoInode => dir[Target] \in synced

IInv ==
  /\ TypeOK /\ NeverCorrupt /\ NoLitter /\ OpenFilesPrivate
  /\ TempsReady /\ NamesOwn /\ TargetSynced

\* There is no file and no save at first.
LEMMA IInvInit == Init => IInv
<1> SUFFICES ASSUME Init PROVE IInv
  OBVIOUS
<1> USE StateFileAssumption DEF Init, Running, Entry
<1>1. TypeOK
  BY DEF TypeOK, Content
<1>2. NeverCorrupt /\ TargetSynced
  BY DEF NeverCorrupt, LoadOK, ReadTarget, TargetSynced
<1>3. NoLitter /\ OpenFilesPrivate /\ TempsReady /\ NamesOwn
  BY DEF NoLitter, OpenFilesPrivate, TempsReady, NamesOwn
<1> QED BY <1>1, <1>2, <1>3 DEF IInv

-----------------------------------------------------------------------------
(***************************************************************************)
(* The calls keep the invariant.                                           *)
(***************************************************************************)

\* A call that returns moves its own save on, and nothing else of any save.
LEMMA AtMoves ==
  ASSUME TypeOK, NEW w \in Writer, NEW from \in Before,
         NEW to \in Before \cup {"renamed", "failed"}, At(w, from, to)
  PROVE  /\ save' \in [Writer -> Locals \cup {NoSave}]
         /\ Running(w) /\ save[w].at = from /\ save'[w].at = to
         /\ save'[w].doc = save[w].doc
         /\ save'[w].name = save[w].name
         /\ save'[w].ino = save[w].ino
         /\ \A v \in Writer : v # w => save'[v] = save[v]
         /\ \A v \in Writer : Running(v)' <=> Running(v)
         /\ \A v \in Writer : Running(v) =>
              save'[v].name = save[v].name /\ save'[v].ino = save[v].ino
         /\ save[w] \in Locals
BY StateFileAssumption DEF At, TypeOK, Running, Locals, Before

\* A running save has well-typed locals.
LEMMA RunningType ==
  ASSUME TypeOK, NEW w \in Writer, Running(w)
  PROVE  /\ save[w] \in Locals /\ save[w].doc \in Doc /\ save[w].name \in TempName
         /\ save[w].ino \in Inode
BY DEF TypeOK, Running, Locals

\* The content that is reachable through an entry or an open file stays.
LEMMA ContentsKept ==
  ASSUME TypeOK, NEW m \in [Inode -> Content], NEW s \in SUBSET Inode,
         Contents(m, s)
  PROVE  /\ mem' \in [Inode -> Content] /\ synced' \subseteq Inode
         /\ \A e \in Entry : dir'[e] \in Inode =>
              /\ mem'[dir'[e]] = m[dir'[e]]
              /\ dir'[e] \in s => dir'[e] \in synced'
         /\ \A e \in Entry : dirDisk'[e] \in Inode =>
              /\ mem'[dirDisk'[e]] = m[dirDisk'[e]]
              /\ dirDisk'[e] \in s => dirDisk'[e] \in synced'
         /\ \A w \in Writer : Running(w)' /\ save'[w].ino \in Inode =>
              /\ mem'[save'[w].ino] = m[save'[w].ino]
              /\ save'[w].ino \in s => save'[w].ino \in synced'
<1>1. ASSUME NEW i \in Inode,
             \/ \E e \in Entry : dir'[e] = i \/ dirDisk'[e] = i
             \/ \E w \in Writer : Running(w)' /\ save'[w].ino = i
      PROVE  mem'[i] = m[i] /\ (i \in s => i \in synced')
  <2>1. ~FreeInode(i)'
    BY <1>1 DEF FreeInode
  <2> QED BY <2>1 DEF Contents
<1>2. mem' \in [Inode -> Content] /\ synced' \subseteq Inode
  BY DEF Contents, Content
<1> QED BY <1>1, <1>2

\* A call that returns before the rename: it may write the save's own temp file
\* or put it on disk, and touches nothing that anybody else can reach.
LEMMA CallStep ==
  ASSUME IInv, NEW w \in Writer, NEW from \in Before,
         NEW to \in Before \cup {"failed"}, At(w, from, to),
         UNCHANGED << dir, dirDisk, orphans >>,
         mem' \in [Inode -> Content],
         \A i \in Inode : i # save[w].ino => mem'[i] = mem[i],
         synced \subseteq synced', synced' \subseteq Inode,
         to \in Written => mem'[save[w].ino] = save[w].doc,
         to \in OnDisk => save[w].ino \in synced'
  PROVE  IInv'
<1>1. TypeOK /\ NeverCorrupt /\ NoLitter /\ OpenFilesPrivate /\ TempsReady
      /\ NamesOwn /\ TargetSynced
  BY DEF IInv
<1>2. /\ save' \in [Writer -> Locals \cup {NoSave}]
      /\ Running(w) /\ save[w].at = from /\ save'[w].at = to
      /\ save'[w].doc = save[w].doc
      /\ save'[w].name = save[w].name
      /\ save'[w].ino = save[w].ino
      /\ \A v \in Writer : v # w => save'[v] = save[v]
      /\ \A v \in Writer : Running(v)' <=> Running(v)
      /\ \A v \in Writer : Running(v) =>
           save'[v].name = save[v].name /\ save'[v].ino = save[v].ino
      /\ save[w] \in Locals
  BY <1>1, AtMoves
<1>3. save[w].name \in TempName /\ save[w].ino \in Inode /\ save[w].doc \in Doc
  BY <1>1, <1>2, RunningType
<1>4. TypeOK'
  BY <1>1, <1>2 DEF TypeOK
\* nobody else reaches the temp file
<1>5. /\ dir[Target] # save[w].ino /\ dirDisk[Target] # save[w].ino
      /\ \A v \in Writer \ {w} : Running(v) => save[v].ino # save[w].ino
  BY <1>1, <1>2, <1>3, StateFileAssumption DEF OpenFilesPrivate, Entry
<1>6. NeverCorrupt' /\ TargetSynced'
  <2>1. dir[Target] \in Inode \cup {NoInode} /\ dirDisk[Target] \in Inode \cup {NoInode}
    BY <1>1 DEF TypeOK, Entry
  <2> QED BY <1>1, <1>5, <2>1 DEF NeverCorrupt, LoadOK, ReadTarget, TargetSynced
<1>7. NoLitter'
  BY <1>1, <1>2 DEF NoLitter
<1>8. OpenFilesPrivate'
  BY <1>1, <1>2 DEF OpenFilesPrivate, Before
<1>9. TempsReady'
  <2> SUFFICES ASSUME NEW v \in Writer, Running(v)
               PROVE  /\ save'[v].at \in Written => mem'[save'[v].ino] = save'[v].doc
                      /\ save'[v].at \in OnDisk => save'[v].ino \in synced'
    BY <1>2 DEF TempsReady
  <2>1. CASE v = w
    BY <1>2, <2>1
  <2>2. CASE v # w
    <3>1. save[v].ino \in Inode
      BY <1>1, RunningType
    <3> QED BY <1>1, <1>2, <1>5, <2>2, <3>1 DEF TempsReady
  <2> QED BY <2>1, <2>2
<1>10. NamesOwn'
  BY <1>1, <1>2 DEF NamesOwn
<1> QED BY <1>4, <1>6, <1>7, <1>8, <1>9, <1>10 DEF IInv

\* Every call of Save before the rename is of that kind.
LEMMA CallsStep ==
  ASSUME IInv, NEW w \in Writer,
         \/ Write(w) \/ WriteFails(w) \/ Sync(w) \/ SyncFails(w)
         \/ Close(w) \/ CloseFails(w) \/ Chmod(w) \/ ChmodFails(w) \/ RenameFails(w)
  PROVE  IInv'
<1>1. TypeOK /\ TempsReady
  BY DEF IInv
<1>2. mem \in [Inode -> Content] /\ synced \subseteq Inode
  BY <1>1 DEF TypeOK
<1>3. Running(w) => /\ save[w].ino \in Inode /\ save[w].doc \in Content
                    /\ save[w].at \in Written => mem[save[w].ino] = save[w].doc
                    /\ save[w].at \in OnDisk => save[w].ino \in synced
  BY <1>1, RunningType DEF TempsReady, Content
<1>4. CASE Write(w)
  BY <1>2, <1>3, <1>4, CallStep DEF Write, At, Before, Written, OnDisk
<1>5. CASE Sync(w)
  BY <1>2, <1>3, <1>5, CallStep DEF Sync, At, Before, Written, OnDisk
<1>6. CASE Close(w)
  BY <1>2, <1>3, <1>6, CallStep DEF Close, At, Before, Written, OnDisk
<1>7. CASE Chmod(w)
  BY <1>2, <1>3, <1>7, CallStep DEF Chmod, At, Before, Written, OnDisk
<1>8. ASSUME NEW from \in Before, Errs(w, from), UNCHANGED mem
      PROVE  IInv'
  BY <1>2, <1>3, <1>8, CallStep DEF Errs, At, Before, Written, OnDisk
<1> QED BY <1>4, <1>5, <1>6, <1>7, <1>8
        DEF WriteFails, SyncFails, CloseFails, ChmodFails, RenameFails, Before

\* A new temp file: its name and its inode are nobody's.
LEMMA CreateTempStep ==
  ASSUME IInv, NEW w \in Writer, NEW d \in Doc, NEW t \in TempName, NEW i \in Inode,
         CreateTemp(w, d, t, i)
  PROVE  IInv'
<1>1. TypeOK /\ NeverCorrupt /\ NoLitter /\ OpenFilesPrivate /\ TempsReady
      /\ NamesOwn /\ TargetSynced
  BY DEF IInv
<1>2. /\ save'[w] = [at |-> "created", doc |-> d, name |-> t, ino |-> i]
      /\ \A v \in Writer : v # w => save'[v] = save[v]
      /\ dir'[t] = i
      /\ \A e \in Entry : e # t => dir'[e] = dir[e]
      /\ UNCHANGED << dirDisk, mem, synced >>
      /\ orphans' = orphans \ {t}
  BY <1>1 DEF CreateTemp, TypeOK, Entry
<1>3. save'[w] \in Locals
  BY <1>2 DEF Locals, Before
<1>4. Running(w)' /\ ~Running(w) /\ \A v \in Writer : v # w => (Running(v)' <=> Running(v))
  BY <1>2, <1>3, StateFileAssumption DEF Running, CreateTemp
<1>5. t # Target
  BY StateFileAssumption
<1>6. /\ \A e \in Entry : dir[e] # i /\ dirDisk[e] # i
      /\ \A v \in Writer : Running(v) => save[v].ino # i /\ save[v].name # t
  BY DEF CreateTemp, FreeInode, FreeName
<1>7. TypeOK'
  BY <1>1, <1>3 DEF TypeOK, CreateTemp, Entry
<1>8. NeverCorrupt' /\ TargetSynced'
  BY <1>1, <1>2, <1>5 DEF NeverCorrupt, LoadOK, ReadTarget, TargetSynced, Entry
<1>9. NoLitter'
  <2> SUFFICES ASSUME NEW u \in TempName, dir'[u] # NoInode
               PROVE  u \in orphans' \/ \E v \in Writer : Running(v)' /\ save'[v].name = u
    BY DEF NoLitter
  <2>1. CASE u = t
    BY <1>2, <1>4, <2>1
  <2>2. CASE u # t
    <3>1. u \in orphans \/ \E v \in Writer : Running(v) /\ save[v].name = u
      BY <1>1, <1>2, <2>2 DEF NoLitter, Entry
    <3> QED BY <1>2, <1>4, <2>2, <3>1
  <2> QED BY <2>1, <2>2
<1>10. OpenFilesPrivate'
  <2> SUFFICES ASSUME NEW v \in Writer, Running(v)', save'[v].at \in Before
               PROVE  /\ dir'[save'[v].name] = save'[v].ino
                      /\ \A e \in Entry \ {save'[v].name} : dir'[e] # save'[v].ino
                      /\ dirDisk'[Target] # save'[v].ino
                      /\ \A u \in Writer \ {v} : Running(u)' => save'[u].ino # save'[v].ino
    BY DEF OpenFilesPrivate
  <2>1. CASE v = w
    BY <1>2, <1>4, <1>6, <2>1 DEF Entry
  <2>2. CASE v # w
    <3>1. /\ Running(v) /\ save'[v] = save[v]
          /\ save[v].name \in TempName /\ save[v].name # t /\ save[v].ino # i
      BY <1>1, <1>2, <1>4, <1>6, <2>2, RunningType
    <3>2. /\ dir[save[v].name] = save[v].ino
          /\ \A e \in Entry \ {save[v].name} : dir[e] # save[v].ino
          /\ dirDisk[Target] # save[v].ino
          /\ \A u \in Writer \ {v} : Running(u) => save[u].ino # save[v].ino
      BY <1>1, <3>1 DEF OpenFilesPrivate
    <3>3. save'[w].ino = i
      BY <1>2
    <3> QED BY <1>2, <1>4, <2>2, <3>1, <3>2, <3>3 DEF Entry
  <2> QED BY <2>1, <2>2
<1>11. TempsReady'
  BY <1>1, <1>2, <1>4 DEF TempsReady, Written, OnDisk
<1>12. NamesOwn'
  <2>1. save'[w].name = t
    BY <1>2
  <2> QED BY <1>1, <1>2, <1>4, <1>6, <2>1 DEF NamesOwn
<1> QED BY <1>7, <1>8, <1>9, <1>10, <1>11, <1>12 DEF IInv

\* The rename: the target becomes the temp file, which is written and on disk.
LEMMA RenameStep ==
  ASSUME IInv, NEW w \in Writer, Rename(w)
  PROVE  /\ IInv'
         /\ dir'[Target] = save[w].ino
         /\ mem'[save[w].ino] = save[w].doc
<1>1. TypeOK /\ NeverCorrupt /\ NoLitter /\ OpenFilesPrivate /\ TempsReady
      /\ NamesOwn /\ TargetSynced
  BY DEF IInv
<1>2. /\ save' \in [Writer -> Locals \cup {NoSave}]
      /\ Running(w) /\ save[w].at = "chmodded" /\ save'[w].at = "renamed"
      /\ save'[w].doc = save[w].doc
      /\ save'[w].name = save[w].name
      /\ save'[w].ino = save[w].ino
      /\ \A v \in Writer : v # w => save'[v] = save[v]
      /\ \A v \in Writer : Running(v)' <=> Running(v)
      /\ \A v \in Writer : Running(v) =>
           save'[v].name = save[v].name /\ save'[v].ino = save[v].ino
  BY <1>1, AtMoves DEF Rename, Before
<1>3. save[w].name \in TempName /\ save[w].ino \in Inode /\ save[w].doc \in Doc
  BY <1>1, <1>2, RunningType
<1>4. save[w].name # Target /\ Target \in Entry /\ save[w].name \in Entry
  BY <1>3, StateFileAssumption DEF Entry
<1>5. /\ dir[save[w].name] = save[w].ino
      /\ \A v \in Writer \ {w} : Running(v) => save[v].ino # save[w].ino
      /\ mem[save[w].ino] = save[w].doc /\ save[w].ino \in synced
  BY <1>1, <1>2 DEF OpenFilesPrivate, TempsReady, Before, Written, OnDisk
<1>6. /\ dir' \in [Entry -> Inode \cup {NoInode}]
      /\ dir'[Target] = save[w].ino
      /\ dir'[save[w].name] = NoInode
      /\ \A e \in Entry : e # Target /\ e # save[w].name => dir'[e] = dir[e]
      /\ UNCHANGED << dirDisk, orphans >>
  BY <1>1, <1>3, <1>4, <1>5 DEF Rename, TypeOK
<1>7. mem \in [Inode -> Content] /\ synced \in SUBSET Inode /\ Contents(mem, synced)
  BY <1>1 DEF TypeOK, Rename
<1>8. /\ mem' \in [Inode -> Content] /\ synced' \subseteq Inode
      /\ mem'[save[w].ino] = save[w].doc /\ save[w].ino \in synced'
  BY <1>1, <1>3, <1>4, <1>5, <1>6, <1>7, ContentsKept
<1>9. /\ dirDisk[Target] \in Inode =>
           /\ mem'[dirDisk[Target]] = mem[dirDisk[Target]]
           /\ dirDisk[Target] \in synced => dirDisk[Target] \in synced'
      /\ \A v \in Writer : Running(v) =>
           /\ mem'[save[v].ino] = mem[save[v].ino]
           /\ save[v].ino \in synced => save[v].ino \in synced'
  BY <1>1, <1>2, <1>4, <1>6, <1>7, ContentsKept, RunningType
<1>10. TypeOK'
  BY <1>1, <1>2, <1>6, <1>8 DEF TypeOK
<1>11. NeverCorrupt' /\ TargetSynced'
  <2>1. dirDisk[Target] \in Inode \cup {NoInode}
    BY <1>1, <1>4 DEF TypeOK
  <2>2. dir'[Target] # NoInode
    BY <1>3, <1>6, StateFileAssumption
  <2> QED BY <1>1, <1>3, <1>6, <1>8, <1>9, <2>1, <2>2
          DEF NeverCorrupt, LoadOK, ReadTarget, TargetSynced
<1>12. NoLitter'
  <2> SUFFICES ASSUME NEW u \in TempName, dir'[u] # NoInode
               PROVE  u \in orphans' \/ \E v \in Writer : Running(v)' /\ save'[v].name = u
    BY DEF NoLitter
  <2>1. u \in Entry /\ u # Target /\ u # save[w].name
    BY <1>6, StateFileAssumption DEF Entry
  <2> QED BY <1>1, <1>2, <1>6, <2>1 DEF NoLitter
<1>13. OpenFilesPrivate'
  <2> SUFFICES ASSUME NEW v \in Writer, Running(v), save'[v].at \in Before
               PROVE  /\ dir'[save'[v].name] = save'[v].ino
                      /\ \A e \in Entry \ {save'[v].name} : dir'[e] # save'[v].ino
                      /\ dirDisk'[Target] # save'[v].ino
                      /\ \A u \in Writer \ {v} : Running(u) => save'[u].ino # save'[v].ino
    BY <1>2 DEF OpenFilesPrivate
  <2>1. v # w /\ save'[v] = save[v]
    BY <1>2 DEF Before
  <2>2. /\ save[v].name \in TempName /\ save[v].name # save[w].name
        /\ save[v].ino \in Inode /\ save[v].ino # save[w].ino
    BY <1>1, <1>2, <1>5, <2>1, RunningType DEF NamesOwn
  <2>3. /\ dir[save[v].name] = save[v].ino
        /\ \A e \in Entry \ {save[v].name} : dir[e] # save[v].ino
        /\ dirDisk[Target] # save[v].ino
        /\ \A u \in Writer \ {v} : Running(u) => save[u].ino # save[v].ino
    BY <1>1, <2>1 DEF OpenFilesPrivate
  <2>4. save[v].name # Target /\ save[v].name \in Entry /\ save[v].ino # NoInode
    BY <2>2, StateFileAssumption DEF Entry
  <2> QED BY <1>2, <1>6, <2>1, <2>2, <2>3, <2>4
<1>14. TempsReady'
  BY <1>1, <1>2, <1>9 DEF TempsReady, Written, OnDisk
<1>15. NamesOwn'
  BY <1>1, <1>2 DEF NamesOwn
<1> QED BY <1>6, <1>8, <1>10, <1>11, <1>12, <1>13, <1>14, <1>15 DEF IInv

\* What ends a save, removes an entry or writes the directory back takes
\* references away and adds none but that of the target on disk.
LEMMA ReleaseStep ==
  ASSUME IInv, Contents(mem, synced),
         save' \in [Writer -> Locals \cup {NoSave}],
         \A v \in Writer : Running(v)' => Running(v) /\ save'[v] = save[v],
         dir' \in [Entry -> Inode \cup {NoInode}],
         \A e \in Entry : dir'[e] \in {dir[e], NoInode},
         \A v \in Writer : Running(v)' => dir'[save[v].name] = dir[save[v].name],
         dirDisk' \in {dirDisk, dir},
         orphans' \subseteq TempName, NoLitter'
  PROVE  IInv'
<1>1. TypeOK /\ NeverCorrupt /\ NoLitter /\ OpenFilesPrivate /\ TempsReady
      /\ NamesOwn /\ TargetSynced
  BY DEF IInv
<1>2. mem \in [Inode -> Content] /\ synced \in SUBSET Inode /\ Target \in Entry
      /\ dirDisk' \in [Entry -> Inode \cup {NoInode}]
  BY <1>1 DEF TypeOK, Entry
<1>3. /\ mem' \in [Inode -> Content] /\ synced' \subseteq Inode
      /\ dir'[Target] \in Inode =>
           /\ mem'[dir'[Target]] = mem[dir'[Target]]
           /\ dir'[Target] \in synced => dir'[Target] \in synced'
      /\ dirDisk'[Target] \in Inode =>
           /\ mem'[dirDisk'[Target]] = mem[dirDisk'[Target]]
           /\ dirDisk'[Target] \in synced => dirDisk'[Target] \in synced'
      /\ \A v \in Writer : Running(v)' /\ save'[v].ino \in Inode =>
           /\ mem'[save'[v].ino] = mem[save'[v].ino]
           /\ save'[v].ino \in synced => save'[v].ino \in synced'
  BY <1>1, <1>2, ContentsKept
<1>4. TypeOK'
  BY <1>2, <1>3 DEF TypeOK
<1>5. dir[Target] # NoInode => dir[Target] \in synced /\ mem[dir[Target]] \in Doc
  BY <1>1, <1>2, StateFileAssumption DEF NeverCorrupt, LoadOK, ReadTarget, TargetSynced, TypeOK, Content
<1>6. NeverCorrupt' /\ TargetSynced'
  <2>1. dirDisk'[Target] \in {dirDisk[Target], dir[Target]} /\ dir'[Target] \in {dir[Target], NoInode}
    BY <1>2
  <2>2. dir'[Target] \in Inode \cup {NoInode} /\ dirDisk'[Target] \in Inode \cup {NoInode}
    BY <1>2
  <2> QED BY <1>1, <1>3, <1>5, <2>1, <2>2
          DEF NeverCorrupt, LoadOK, ReadTarget, TargetSynced
<1>7. OpenFilesPrivate'
  <2> SUFFICES ASSUME NEW v \in Writer, Running(v)', save'[v].at \in Before
               PROVE  /\ dir'[save'[v].name] = save'[v].ino
                      /\ \A e \in Entry \ {save'[v].name} : dir'[e] # save'[v].ino
                      /\ dirDisk'[Target] # save'[v].ino
                      /\ \A u \in Writer \ {v} : Running(u)' => save'[u].ino # save'[v].ino
    BY DEF OpenFilesPrivate
  <2>1. Running(v) /\ save'[v] = save[v] /\ save[v].name \in TempName /\ save[v].ino \in Inode
    BY <1>1, RunningType
  <2>2. /\ dir[save[v].name] = save[v].ino
        /\ \A e \in Entry \ {save[v].name} : dir[e] # save[v].ino
        /\ dirDisk[Target] # save[v].ino
        /\ \A u \in Writer \ {v} : Running(u) => save[u].ino # save[v].ino
    BY <1>1, <2>1 DEF OpenFilesPrivate
  <2>3. save[v].ino # NoInode /\ save[v].name # Target
    BY <2>1, StateFileAssumption
  <2> QED BY <1>2, <2>1, <2>2, <2>3
<1>8. TempsReady'
  BY <1>1, <1>3, RunningType DEF TempsReady, Written, OnDisk
<1>9. NamesOwn'
  BY <1>1 DEF NamesOwn
<1> QED BY <1>4, <1>6, <1>7, <1>8, <1>9 DEF IInv

\* The deferred Remove takes away the name of this save and of no other.
LEMMA FinishStep ==
  ASSUME IInv, NEW w \in Writer, Finish(w)
  PROVE  IInv'
<1>1. TypeOK /\ NoLitter /\ NamesOwn
  BY DEF IInv
<1>2. /\ save' \in [Writer -> Locals \cup {NoSave}]
      /\ ~Running(w)'
      /\ \A v \in Writer : v # w => save'[v] = save[v]
      /\ \A v \in Writer : v # w => (Running(v)' <=> Running(v))
  BY <1>1 DEF Finish, TypeOK, Running
<1>3. /\ Running(w) /\ save[w].name \in TempName /\ save[w].name \in Entry
      /\ save[w].name # Target
  BY <1>1, RunningType, StateFileAssumption DEF Finish, Entry
<1>4. /\ dir' \in [Entry -> Inode \cup {NoInode}]
      /\ dir'[save[w].name] = NoInode
      /\ \A e \in Entry : e # save[w].name => dir'[e] = dir[e]
      /\ UNCHANGED << dirDisk, orphans >> /\ Contents(mem, synced)
  BY <1>1, <1>3 DEF Finish, TypeOK
<1>5. \A v \in Writer : Running(v)' =>
        /\ Running(v) /\ save'[v] = save[v]
        /\ dir'[save[v].name] = dir[save[v].name]
  <2> SUFFICES ASSUME NEW v \in Writer, Running(v)'
               PROVE  /\ Running(v) /\ save'[v] = save[v]
                      /\ dir'[save[v].name] = dir[save[v].name]
    OBVIOUS
  <2>1. v # w /\ Running(v)
    BY <1>2
  <2>2. save[v].name # save[w].name /\ save[v].name \in Entry
    BY <1>1, <1>3, <2>1, RunningType DEF NamesOwn, Entry
  <2> QED BY <1>2, <1>4, <2>1, <2>2
<1>6. NoLitter'
  <2> SUFFICES ASSUME NEW u \in TempName, dir'[u] # NoInode
               PROVE  u \in orphans \/ \E v \in Writer : Running(v)' /\ save'[v].name = u
    BY <1>4 DEF NoLitter
  <2>1. u # save[w].name /\ u \in Entry
    BY <1>4 DEF Entry
  <2> QED BY <1>1, <1>2, <1>4, <2>1 DEF NoLitter
<1>7. orphans' \subseteq TempName /\ dirDisk' \in {dirDisk, dir}
  BY <1>1, <1>4 DEF TypeOK
<1>8. \A e \in Entry : dir'[e] \in {dir[e], NoInode}
  BY <1>4
<1> QED BY <1>2, <1>4, <1>5, <1>6, <1>7, <1>8, ReleaseStep

\* What a killed process leaves behind is an orphan.
LEMMA KillStep ==
  ASSUME IInv, NEW w \in Writer, Kill(w)
  PROVE  IInv'
<1>1. TypeOK /\ NoLitter
  BY DEF IInv
<1>2. /\ save' \in [Writer -> Locals \cup {NoSave}]
      /\ \A v \in Writer : v # w => save'[v] = save[v]
      /\ \A v \in Writer : v # w => (Running(v)' <=> Running(v))
      /\ ~Running(w)' /\ Running(w) /\ save[w].name \in TempName
  BY <1>1, RunningType DEF Kill, TypeOK, Running
<1>3. /\ dir' = dir /\ dirDisk' = dirDisk /\ Contents(mem, synced)
      /\ orphans' = orphans \cup {save[w].name}
  BY DEF Kill
<1>4. NoLitter'
  BY <1>1, <1>2, <1>3 DEF NoLitter
<1>5. /\ orphans' \subseteq TempName
      /\ dir' \in [Entry -> Inode \cup {NoInode}]
  BY <1>1, <1>2, <1>3 DEF TypeOK
<1>6. \A v \in Writer : Running(v)' => Running(v) /\ save'[v] = save[v]
  BY <1>2
<1> QED BY <1>2, <1>3, <1>4, <1>5, <1>6, ReleaseStep

\* Deleting the target touches no temp file.
LEMMA DeleteTargetStep ==
  ASSUME IInv, DeleteTarget
  PROVE  IInv'
<1>1. TypeOK /\ NoLitter
  BY DEF IInv
<1>2. /\ dir' \in [Entry -> Inode \cup {NoInode}]
      /\ \A e \in Entry : dir'[e] \in {dir[e], NoInode}
      /\ \A e \in TempName : e \in Entry /\ dir'[e] = dir[e]
      /\ UNCHANGED << save, dirDisk, orphans >> /\ Contents(mem, synced)
  BY <1>1, StateFileAssumption DEF DeleteTarget, TypeOK, Entry
<1>3. \A v \in Writer : (Running(v)' <=> Running(v)) /\ (Running(v) => save[v].name \in TempName)
  BY <1>1, <1>2, RunningType DEF Running
<1>4. NoLitter'
  BY <1>1, <1>2, <1>3 DEF NoLitter
<1>5. orphans' \subseteq TempName /\ save' \in [Writer -> Locals \cup {NoSave}]
  BY <1>1, <1>2 DEF TypeOK
<1> QED BY <1>2, <1>3, <1>4, <1>5, ReleaseStep

\* The directory goes to disk with a target that is on disk already.
LEMMA WriteBackDirStep ==
  ASSUME IInv, WriteBackDir
  PROVE  IInv'
<1>1. TypeOK /\ NoLitter
  BY DEF IInv
<1>2. /\ dirDisk' = dir
      /\ UNCHANGED << save, dir, orphans >> /\ Contents(mem, synced)
  BY DEF WriteBackDir
<1>3. /\ orphans' \subseteq TempName /\ save' \in [Writer -> Locals \cup {NoSave}]
      /\ dir' \in [Entry -> Inode \cup {NoInode}]
  BY <1>1, <1>2 DEF TypeOK
<1>4. \A v \in Writer : Running(v)' <=> Running(v)
  BY <1>2 DEF Running
<1>5. NoLitter'
  BY <1>1, <1>2, <1>4 DEF NoLitter
<1> QED BY <1>2, <1>3, <1>4, <1>5, ReleaseStep

\* A power loss ends all saves; what the directory on disk names is on disk.
LEMMA PowerLossStep ==
  ASSUME IInv, PowerLoss
  PROVE  /\ IInv' /\ \A w \in Writer : ~Running(w)'
         /\ dirDisk[Target] # NoInode => mem'[dirDisk[Target]] = mem[dirDisk[Target]]
<1>1. TypeOK /\ NeverCorrupt
  BY DEF IInv
<1>2. PICK lost \in SUBSET (Inode \ synced) :
        Contents([i \in Inode |-> IF i \in lost THEN Torn ELSE mem[i]], Inode)
  BY DEF PowerLoss
<1> DEFINE m == [i \in Inode |-> IF i \in lost THEN Torn ELSE mem[i]]
<1>3. m \in [Inode -> Content] /\ Target \in Entry
  BY <1>1 DEF TypeOK, Content, Entry
<1>4. /\ save' \in [Writer -> Locals \cup {NoSave}] /\ \A w \in Writer : ~Running(w)'
      /\ dir' = dirDisk /\ dirDisk' = dirDisk
      /\ orphans' = {t \in TempName : dirDisk[t] # NoInode}
      /\ dirDisk \in [Entry -> Inode \cup {NoInode}]
  BY <1>1 DEF PowerLoss, TypeOK, Running
<1>5. dirDisk[Target] # NoInode =>
        dirDisk[Target] \in Inode /\ m[dirDisk[Target]] = mem[dirDisk[Target]]
  BY <1>1, <1>3, <1>4 DEF NeverCorrupt
<1> HIDE DEF m
<1>6. /\ mem' \in [Inode -> Content] /\ synced' \subseteq Inode
      /\ dirDisk[Target] \in Inode =>
           mem'[dirDisk[Target]] = m[dirDisk[Target]] /\ dirDisk[Target] \in synced'
  <2>1. Contents(m, Inode)
    BY <1>2 DEF m
  <2> QED BY <1>1, <1>3, <1>4, <2>1, ContentsKept
<1>7. TypeOK'
  BY <1>4, <1>6 DEF TypeOK
<1>8. NeverCorrupt' /\ TargetSynced'
  BY <1>1, <1>4, <1>5, <1>6 DEF NeverCorrupt, LoadOK, ReadTarget, TargetSynced
<1>9. NoLitter' /\ OpenFilesPrivate' /\ TempsReady' /\ NamesOwn'
  BY <1>4 DEF NoLitter, OpenFilesPrivate, TempsReady, NamesOwn
<1> QED BY <1>4, <1>5, <1>6, <1>7, <1>8, <1>9 DEF IInv

\* Every step keeps the invariant.
LEMMA IInvStep ==
  ASSUME IInv, [Next]_vars
  PROVE  IInv'
<1>1. ASSUME NEW w \in Writer, Save(w)
      PROVE  IInv'
  BY <1>1, CreateTempStep, CallsStep, RenameStep, FinishStep DEF Save
<1>2. CASE UNCHANGED vars
  BY <1>2 DEF vars, IInv, TypeOK, NeverCorrupt, LoadOK, ReadTarget, NoLitter,
     OpenFilesPrivate, TempsReady, NamesOwn, TargetSynced, Running
<1> QED BY <1>1, <1>2, KillStep, DeleteTargetStep, WriteBackDirStep, PowerLossStep DEF Next

\* It holds in every reachable state.
LEMMA IInvAlways == Spec => []IInv
<1>1. IInv /\ [Next]_vars => IInv'
  BY IInvStep
<1> QED BY IInvInit, <1>1, PTL DEF Spec

-----------------------------------------------------------------------------
(***************************************************************************)
(* The safety of the state file.                                           *)
(***************************************************************************)

\* The variables have their types in every reachable state.
THEOREM TypeCorrect == Spec => []TypeOK
<1>1. IInv => TypeOK
  BY DEF IInv
<1> QED BY <1>1, IInvAlways, PTL

\* However many processes save at once and wherever calls fail, processes are
\* killed or the power goes: Load finds a whole document or no file, now and
\* after the next power loss.
THEOREM NeverCorrupted == Spec => []NeverCorrupt
<1>1. IInv => NeverCorrupt
  BY DEF IInv
<1> QED BY <1>1, IInvAlways, PTL

\* A temp file is that of a save in progress, or a kill or a power loss left it.
THEOREM NoLitterLeft == Spec => []NoLitter
<1>1. IInv => NoLitter
  BY DEF IInv
<1> QED BY <1>1, IInvAlways, PTL

\* Until the rename nobody else can reach the file a save is writing.
THEOREM PrivateFiles == Spec => []OpenFilesPrivate
<1>1. IInv => OpenFilesPrivate
  BY DEF IInv
<1> QED BY <1>1, IInvAlways, PTL

-----------------------------------------------------------------------------
(***************************************************************************)
(* StateFile implements AtomicFile.  The values of the abstract variables: *)
(***************************************************************************)
Durable == IF dirDisk[Target] = NoInode THEN NoDoc ELSE mem[dirDisk[Target]]
Phases  == [w \in Writer |-> Phase(w)]
Jobs    == [w \in Writer |-> IF Running(w) THEN save[w].doc ELSE NoDoc]

\* A call moves the phase of its own save, and no save changes its document.
LEMMA CallMaps ==
  ASSUME TypeOK, NEW w \in Writer, NEW from \in Before,
         NEW to \in Before \cup {"renamed", "failed"}, At(w, from, to)
  PROVE  /\ Jobs' = Jobs
         /\ Phases[w] = "saving"
         /\ Phases' = [Phases EXCEPT ![w] =
                        IF to \in Before THEN "saving"
                        ELSE IF to = "renamed" THEN "saved" ELSE "failed"]
<1>1. /\ Running(w) /\ save[w].at = from /\ save'[w].at = to
      /\ save'[w].doc = save[w].doc
      /\ \A v \in Writer : v # w => save'[v] = save[v]
      /\ \A v \in Writer : Running(v)' <=> Running(v)
  BY AtMoves
<1>2. Jobs' = Jobs
  BY <1>1 DEF Jobs
<1>3. Phases[w] = "saving"
  BY <1>1 DEF Phases, Phase
<1>4. Phases' = [Phases EXCEPT ![w] =
                  IF to \in Before THEN "saving"
                  ELSE IF to = "renamed" THEN "saved" ELSE "failed"]
  BY <1>1 DEF Phases, Phase
<1> QED BY <1>2, <1>3, <1>4

\* A save that ends is idle and has no document.
LEMMA EndMaps ==
  ASSUME TypeOK, NEW w \in Writer, save' = [save EXCEPT ![w] = NoSave]
  PROVE  /\ Phases' = [Phases EXCEPT ![w] = "idle"]
         /\ Jobs' = [Jobs EXCEPT ![w] = NoDoc]
<1>1. ~Running(w)' /\ \A v \in Writer : v # w => save'[v] = save[v]
  BY DEF TypeOK, Running
<1>2. \A v \in Writer : v # w => (Running(v)' <=> Running(v))
  BY <1>1 DEF Running
<1>3. \A v \in Writer : Phase(v)' = IF v = w THEN "idle" ELSE Phase(v)
  BY <1>1, <1>2 DEF Phase
<1>4. Phases' = [Phases EXCEPT ![w] = "idle"]
  BY <1>3 DEF Phases
<1>5. Jobs' = [Jobs EXCEPT ![w] = NoDoc]
  <2> DEFINE Job(v) == IF Running(v) THEN save[v].doc ELSE NoDoc
  <2>1. \A v \in Writer : Job(v)' = IF v = w THEN NoDoc ELSE Job(v)
    BY <1>1, <1>2
  <2>2. Jobs = [v \in Writer |-> Job(v)] /\ Jobs' = [v \in Writer |-> Job(v)']
    BY DEF Jobs
  <2> HIDE DEF Job
  <2> QED BY <2>1, <2>2
<1> QED BY <1>4, <1>5

\* What readers find, now and after a power loss, stays unless a call says
\* otherwise: the inodes of the two targets keep their content.
LEMMA ReadersKeep ==
  ASSUME IInv, dir'[Target] = dir[Target], dirDisk'[Target] = dirDisk[Target],
         \/ \E w \in Writer : /\ Running(w) /\ save[w].at \in Before
                              /\ \A i \in Inode : i # save[w].ino => mem'[i] = mem[i]
         \/ mem' = mem
         \/ Contents(mem, synced)
  PROVE  ReadTarget' = ReadTarget /\ Durable' = Durable
<1>1. TypeOK /\ OpenFilesPrivate /\ Target \in Entry
  BY DEF IInv, Entry
<1>2. dir[Target] \in Inode \cup {NoInode} /\ dirDisk[Target] \in Inode \cup {NoInode}
  BY <1>1 DEF TypeOK
<1>3. CASE mem' = mem
  BY <1>3 DEF ReadTarget, Durable
<1>4. ASSUME NEW w \in Writer, Running(w), save[w].at \in Before,
             \A i \in Inode : i # save[w].ino => mem'[i] = mem[i]
      PROVE  ReadTarget' = ReadTarget /\ Durable' = Durable
  <2>1. dir[Target] # save[w].ino /\ dirDisk[Target] # save[w].ino
    BY <1>1, <1>4, RunningType, StateFileAssumption DEF OpenFilesPrivate
  <2> QED BY <1>2, <1>4, <2>1 DEF ReadTarget, Durable
<1>5. CASE Contents(mem, synced)
  <2>1. mem \in [Inode -> Content] /\ synced \in SUBSET Inode
    BY <1>1 DEF TypeOK
  <2>2. /\ dir'[Target] \in Inode => mem'[dir'[Target]] = mem[dir'[Target]]
        /\ dirDisk'[Target] \in Inode => mem'[dirDisk'[Target]] = mem[dirDisk'[Target]]
    BY <1>1, <1>5, <2>1, ContentsKept
  <2> QED BY <1>2, <2>2 DEF ReadTarget, Durable
<1> QED BY <1>3, <1>4, <1>5

\* The variables and the actions of AtomicFile under the mapping.
LEMMA AtomicVarsAre ==
  /\ Atomic!vars = << ReadTarget, Durable, Phases, Jobs >>
  /\ Atomic!vars' = << ReadTarget', Durable', Phases', Jobs' >>
BY DEF Atomic!vars, Durable, Phases, Jobs

\* (Its actions are stated of Phases, Jobs, ReadTarget and Durable.)
LEMMA AtomicActionsAre ==
  ASSUME NEW w \in Writer, NEW d \in Doc
  PROVE  /\ Atomic!Begin(w, d) <=>
              /\ Phases[w] = "idle" /\ Phases' = [Phases EXCEPT ![w] = "saving"]
              /\ Jobs' = [Jobs EXCEPT ![w] = d]
              /\ ReadTarget' = ReadTarget /\ Durable' = Durable
         /\ Atomic!Commit(w) <=>
              /\ Phases[w] = "saving" /\ Phases' = [Phases EXCEPT ![w] = "saved"]
              /\ ReadTarget' = Jobs[w] /\ Durable' = Durable /\ Jobs' = Jobs
         /\ Atomic!Fail(w) <=>
              /\ Phases[w] = "saving" /\ Phases' = [Phases EXCEPT ![w] = "failed"]
              /\ ReadTarget' = ReadTarget /\ Durable' = Durable /\ Jobs' = Jobs
         /\ Atomic!Leave(w) <=>
              /\ Phases' = [Phases EXCEPT ![w] = "idle"]
              /\ Jobs' = [Jobs EXCEPT ![w] = NoDoc]
              /\ ReadTarget' = ReadTarget /\ Durable' = Durable
<1>1. Atomic!Begin(w, d) <=>
              /\ Phases[w] = "idle" /\ Phases' = [Phases EXCEPT ![w] = "saving"]
              /\ Jobs' = [Jobs EXCEPT ![w] = d]
              /\ ReadTarget' = ReadTarget /\ Durable' = Durable
  BY DEF Atomic!Begin, Durable, Phases, Jobs
<1>2. Atomic!Commit(w) <=>
              /\ Phases[w] = "saving" /\ Phases' = [Phases EXCEPT ![w] = "saved"]
              /\ ReadTarget' = Jobs[w] /\ Durable' = Durable /\ Jobs' = Jobs
  BY DEF Atomic!Commit, Durable, Phases, Jobs
<1>3. Atomic!Fail(w) <=>
              /\ Phases[w] = "saving" /\ Phases' = [Phases EXCEPT ![w] = "failed"]
              /\ ReadTarget' = ReadTarget /\ Durable' = Durable /\ Jobs' = Jobs
  BY DEF Atomic!Fail, Durable, Phases, Jobs
<1>4. Atomic!Leave(w) <=>
              /\ Phases' = [Phases EXCEPT ![w] = "idle"]
              /\ Jobs' = [Jobs EXCEPT ![w] = NoDoc]
              /\ ReadTarget' = ReadTarget /\ Durable' = Durable
  BY DEF Atomic!Leave, Durable, Phases, Jobs
<1> QED BY <1>1, <1>2, <1>3, <1>4

\* Every call of a save is a step of AtomicFile or invisible.
LEMMA SaveMaps ==
  ASSUME IInv, NEW w \in Writer, Save(w) \/ Kill(w)
  PROVE  Atomic!Next \/ Atomic!vars' = Atomic!vars
<1> DEFINE Goal == Atomic!Next \/ Atomic!vars' = Atomic!vars
<1>1. TypeOK
  BY DEF IInv
<1>2. ASSUME NEW from \in Before, NEW to \in Before, At(w, from, to),
             UNCHANGED << dir, dirDisk >>,
             \A i \in Inode : i # save[w].ino => mem'[i] = mem[i]
      PROVE  Goal
  <2>1. Jobs' = Jobs /\ Phases' = Phases
    BY <1>1, <1>2, CallMaps DEF Phases
  <2>2. Running(w) /\ save[w].at \in Before
    BY <1>1, <1>2, AtMoves
  <2>3. ReadTarget' = ReadTarget /\ Durable' = Durable
    BY <1>2, <2>2, ReadersKeep
  <2> QED BY <2>1, <2>3, AtomicVarsAre
<1>3. ASSUME NEW from \in Before, Errs(w, from), UNCHANGED mem
      PROVE  Goal
  <2>1. /\ Jobs' = Jobs /\ Phases[w] = "saving"
        /\ Phases' = [Phases EXCEPT ![w] = "failed"]
    BY <1>1, <1>3, CallMaps DEF Errs, Before
  <2>2. ReadTarget' = ReadTarget /\ Durable' = Durable
    BY <1>3, ReadersKeep DEF Errs
  <2>3. PICK d : d \in Doc
    BY <1>1, <1>3, AtMoves DEF Errs, Locals
  <2>4. Atomic!Fail(w)
    BY <2>1, <2>2, <2>3, AtomicActionsAre
  <2> QED BY <2>4 DEF Atomic!Next
<1>4. ASSUME NEW d \in Doc, NEW t \in TempName, NEW i \in Inode, CreateTemp(w, d, t, i)
      PROVE  Goal
  <2>1. /\ dir'[Target] = dir[Target] /\ dirDisk' = dirDisk /\ mem' = mem
        /\ save' = [save EXCEPT ![w] = [at |-> "created", doc |-> d, name |-> t, ino |-> i]]
        /\ ~Running(w)
    BY <1>1, <1>4, StateFileAssumption DEF CreateTemp, TypeOK, Entry
  <2>2. [at |-> "created", doc |-> d, name |-> t, ino |-> i] \in Locals
    BY DEF Locals, Before
  <2>3. /\ save'[w].at = "created" /\ save'[w].doc = d /\ Running(w)'
        /\ \A v \in Writer : v # w => save'[v] = save[v] /\ (Running(v)' <=> Running(v))
    BY <1>1, <2>1, <2>2, StateFileAssumption DEF TypeOK, Running
  <2>4. \A v \in Writer : Phase(v)' = IF v = w THEN "saving" ELSE Phase(v)
    BY <2>3 DEF Phase, Before
  <2>5. Phases[w] = "idle" /\ Phases' = [Phases EXCEPT ![w] = "saving"]
    BY <2>1, <2>4 DEF Phases, Phase
  <2>6. Jobs' = [Jobs EXCEPT ![w] = d]
    BY <2>3 DEF Jobs
  <2>7. ReadTarget' = ReadTarget /\ Durable' = Durable
    BY <2>1, ReadersKeep
  <2>8. Atomic!Begin(w, d)
    BY <2>5, <2>6, <2>7, AtomicActionsAre
  <2> QED BY <2>8 DEF Atomic!Next
<1>5. CASE Rename(w)
  <2>1. /\ Jobs' = Jobs /\ Phases[w] = "saving"
        /\ Phases' = [Phases EXCEPT ![w] = "saved"]
    BY <1>1, <1>5, CallMaps DEF Rename, Before
  <2>2. Running(w) /\ save[w].ino \in Inode /\ save[w].doc \in Doc
    BY <1>1, <1>5, RunningType DEF Rename, At
  <2>3. ReadTarget' = Jobs[w]
    BY <1>5, <2>2, RenameStep, StateFileAssumption DEF ReadTarget, Jobs
  <2>4. Durable' = Durable
    <3>1. /\ dirDisk' = dirDisk /\ Contents(mem, synced) /\ Target \in Entry
          /\ mem \in [Inode -> Content] /\ synced \in SUBSET Inode
          /\ dirDisk[Target] \in Inode \cup {NoInode}
      BY <1>1, <1>5 DEF Rename, TypeOK, Entry
    <3>2. dirDisk'[Target] \in Inode => mem'[dirDisk'[Target]] = mem[dirDisk'[Target]]
      BY <1>1, <3>1, ContentsKept
    <3> QED BY <3>1, <3>2 DEF Durable
  <2>5. Atomic!Commit(w)
    BY <2>1, <2>2, <2>3, <2>4, AtomicActionsAre
  <2> QED BY <2>5 DEF Atomic!Next
<1>6. CASE Finish(w) \/ Kill(w)
  <2>1. /\ save' = [save EXCEPT ![w] = NoSave] /\ Running(w)
        /\ dirDisk' = dirDisk /\ Contents(mem, synced)
    BY <1>6 DEF Finish, Kill
  <2>2. save[w].name \in TempName /\ save[w].doc \in Doc
    BY <1>1, <2>1, RunningType
  <2>3. dir'[Target] = dir[Target]
    BY <1>1, <1>6, <2>2, StateFileAssumption DEF Finish, Kill, TypeOK, Entry
  <2>4. ReadTarget' = ReadTarget /\ Durable' = Durable
    BY <2>1, <2>3, ReadersKeep
  <2>5. Phases' = [Phases EXCEPT ![w] = "idle"] /\ Jobs' = [Jobs EXCEPT ![w] = NoDoc]
    BY <1>1, <2>1, EndMaps
  <2>6. Atomic!Leave(w)
    BY <2>2, <2>4, <2>5, AtomicActionsAre
  <2> QED BY <2>6 DEF Atomic!Next
<1>7. CASE Write(w)
  <2>1. \A i \in Inode : i # save[w].ino => mem'[i] = mem[i]
    BY <1>1, <1>7 DEF Write, TypeOK
  <2> QED BY <1>2, <1>7, <2>1 DEF Write, Before
<1>8. CASE Sync(w) \/ Close(w) \/ Chmod(w)
  BY <1>2, <1>8 DEF Sync, Close, Chmod, Before
<1>9. CASE WriteFails(w) \/ SyncFails(w) \/ CloseFails(w) \/ ChmodFails(w) \/ RenameFails(w)
  BY <1>3, <1>9 DEF WriteFails, SyncFails, CloseFails, ChmodFails, RenameFails, Before
<1> QED BY <1>4, <1>5, <1>6, <1>7, <1>8, <1>9 DEF Save

\* So are a deletion, a write-back of the directory and a power loss.
LEMMA OthersMap ==
  ASSUME IInv, DeleteTarget \/ WriteBackDir \/ PowerLoss
  PROVE  Atomic!Next
<1>1. TypeOK /\ NeverCorrupt /\ Target \in Entry
  BY DEF IInv, Entry
<1>2. /\ mem \in [Inode -> Content] /\ synced \in SUBSET Inode
      /\ dir[Target] \in Inode \cup {NoInode} /\ dirDisk[Target] \in Inode \cup {NoInode}
  BY <1>1 DEF TypeOK
<1>3. CASE DeleteTarget
  <2>1. /\ dir'[Target] = NoInode /\ dirDisk' = dirDisk /\ save' = save
        /\ Contents(mem, synced)
    BY <1>1, <1>3 DEF DeleteTarget, TypeOK
  <2>2. dirDisk'[Target] \in Inode => mem'[dirDisk'[Target]] = mem[dirDisk'[Target]]
    BY <1>1, <1>2, <2>1, ContentsKept
  <2>3. ReadTarget' = NoDoc /\ Durable' = Durable
    BY <1>2, <2>1, <2>2 DEF ReadTarget, Durable
  <2>4. Phases' = Phases /\ Jobs' = Jobs
    BY <2>1 DEF Phases, Jobs, Phase, Running
  <2>5. Atomic!Reset
    BY <2>3, <2>4 DEF Atomic!Reset, Durable, Phases, Jobs
  <2> QED BY <2>5 DEF Atomic!Next
<1>4. CASE WriteBackDir
  <2>1. /\ dir' = dir /\ dirDisk' = dir /\ save' = save /\ Contents(mem, synced)
    BY <1>4 DEF WriteBackDir
  <2>2. dir'[Target] \in Inode => mem'[dir'[Target]] = mem[dir'[Target]]
    BY <1>1, <1>2, <2>1, ContentsKept
  <2>3. ReadTarget' = ReadTarget /\ Durable' = ReadTarget
    BY <1>2, <2>1, <2>2 DEF ReadTarget, Durable
  <2>4. Phases' = Phases /\ Jobs' = Jobs
    BY <2>1 DEF Phases, Jobs, Phase, Running
  <2>5. Atomic!Persist
    BY <2>3, <2>4 DEF Atomic!Persist, Durable, Phases, Jobs
  <2> QED BY <2>5 DEF Atomic!Next
<1>5. CASE PowerLoss
  <2>1. /\ dir' = dirDisk /\ dirDisk' = dirDisk
        /\ \A w \in Writer : ~Running(w)'
        /\ dirDisk[Target] # NoInode => mem'[dirDisk[Target]] = mem[dirDisk[Target]]
    BY <1>5, PowerLossStep DEF PowerLoss
  <2>2. ReadTarget' = Durable /\ Durable' = Durable
    BY <2>1 DEF ReadTarget, Durable
  <2>3. Phases' = [w \in Writer |-> "idle"] /\ Jobs' = [w \in Writer |-> NoDoc]
    BY <2>1 DEF Phases, Jobs, Phase
  <2>4. Atomic!PowerLoss
    BY <2>2, <2>3 DEF Atomic!PowerLoss, Durable, Phases, Jobs
  <2> QED BY <2>4 DEF Atomic!Next
<1> QED BY <1>3, <1>4, <1>5

\* Save implements its promise: in every behaviour, it replaces the file at one
\* instant by its own document, or leaves it alone; the rename is that instant.
THEOREM SaveIsAtomic == Spec => ImplementsAtomicFile
<1>1. Init => Atomic!Init
  <2> SUFFICES ASSUME Init PROVE Atomic!Init
    OBVIOUS
  <2>1. \A w \in Writer : ~Running(w)
    BY DEF Init, Running
  <2>2. dir[Target] = NoInode /\ dirDisk[Target] = NoInode
    BY DEF Init, Entry
  <2>3. Phases = [w \in Writer |-> "idle"] /\ Jobs = [w \in Writer |-> NoDoc]
    BY <2>1 DEF Phases, Jobs, Phase
  <2> QED BY <2>2, <2>3 DEF Atomic!Init, ReadTarget, Phases, Jobs
<1>2. IInv /\ [Next]_vars => [Atomic!Next]_(Atomic!vars)
  <2> SUFFICES ASSUME IInv, [Next]_vars
               PROVE  Atomic!Next \/ Atomic!vars' = Atomic!vars
    OBVIOUS
  <2>1. CASE UNCHANGED vars
    BY <2>1 DEF vars, Atomic!vars, ReadTarget, Phase, Running
  <2>2. CASE Next
    BY <2>2, SaveMaps, OthersMap DEF Next
  <2> QED BY <2>1, <2>2
<1> QED BY <1>1, <1>2, IInvAlways, PTL DEF Spec, ImplementsAtomicFile, Atomic!Spec
=============================================================================
