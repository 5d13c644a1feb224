----------------------------- MODULE StateFile -----------------------------
(***************************************************************************)
(* state.Save, call by call, by several processes sharing one state file:  *)
(* CreateTemp, Write, Sync, Close, Chmod, Rename, each of which may fail,  *)
(* and the deferred Remove; processes killed between any two calls, power  *)
(* losses, and an operator who deletes the file.  Load reads the target.   *)
(*                                                                         *)
(* The file system is external: inodes with their content, and a directory *)
(* as processes see it (dir) and as a power loss would leave it (dirDisk). *)
(* A power loss keeps the content of a synced inode; of another it keeps   *)
(* all or not.  Content is a document, or Torn: a part of one, or nothing, *)
(* which json.Unmarshal refuses.                                           *)
(***************************************************************************)
CONSTANTS
  Writer,     \* processes that save
  Doc,        \* encoded states
  TempName,   \* names CreateTemp may pick (.lastbeat-state-*)
  Inode,
  NoDoc, Torn, NoInode, NoSave, Target      \* distinct model values

VARIABLES
  save,      \* per writer: the locals of the Save in progress, or NoSave
  dir,       \* directory entries, as processes see them
  dirDisk,   \* directory entries that survive a power loss
  mem,       \* content of each inode
  synced,    \* inodes whose content survives a power loss
  orphans    \* history: temp names left by killed processes or power losses

vars == << save, dir, dirDisk, mem, synced, orphans >>

Entry   == TempName \cup {Target}
Content == Doc \cup {Torn}

\* The last call that has returned; the rename still to come in Before.
Before == {"created", "written", "synced", "closed", "chmodded"}
Locals == [at : Before \cup {"renamed", "failed"},
           doc : Doc, name : TempName, ino : Inode]

ASSUME StateFileAssumption ==
  /\ NoDoc \notin Doc /\ Torn \notin Doc /\ NoDoc # Torn
  /\ NoInode \notin Inode
  /\ Target \notin TempName
  /\ NoSave \notin Locals

Running(w) == save[w] # NoSave

\* os.ReadFile(path) as the caller of Load sees it.
ReadTarget == IF dir[Target] = NoInode THEN NoDoc ELSE mem[dir[Target]]

\* Load: a missing file is a fresh state, anything but a document an error.
LoadOK == ReadTarget \in Doc \cup {NoDoc}

-----------------------------------------------------------------------------
Init ==
  /\ save = [w \in Writer |-> NoSave]
  /\ dir = [e \in Entry |-> NoInode]
  /\ dirDisk = dir
  /\ mem = [i \in Inode |-> Torn]
  /\ synced = {}
  /\ orphans = {}

FreeInode(i) ==
  /\ \A e \in Entry : dir[e] # i /\ dirDisk[e] # i
  /\ \A w \in Writer : Running(w) => save[w].ino # i

\* The content of an inode is gone with the last reference to it.
Contents(m, s) ==
  /\ mem' = [i \in Inode |-> IF FreeInode(i)' THEN Torn ELSE m[i]]
  /\ synced' = {i \in s : ~FreeInode(i)'}

\* mutant: os.Create instead of O_EXCL
FreeNameBug(t) == TRUE

\* O_EXCL: the name does not exist.  The random suffix is also taken to differ
\* from those of saves in progress (2^32 of them; the code relies on it when
\* the deferred Remove runs after the rename).
FreeName(t) == dir[t] = NoInode /\ \A w \in Writer : Running(w) => save[w].name # t

At(w, from, to) ==
  /\ Running(w) /\ save[w].at = from
  /\ save' = [save EXCEPT ![w].at = to]

Errs(w, from) == At(w, from, "failed") /\ UNCHANGED << dir, dirDisk, synced, orphans >>

\* Errors of MarshalIndent and CreateTemp leave nothing behind: Save returns
\* at once, which is no step here.
CreateTemp(w, d, t, i) ==
  /\ ~Running(w)
  /\ FreeName(t) /\ FreeInode(i)
  /\ save' = [save EXCEPT ![w] = [at |-> "created", doc |-> d, name |-> t, ino |-> i]]
  /\ dir' = [dir EXCEPT ![t] = i]
  /\ orphans' = orphans \ {t}
  /\ UNCHANGED << dirDisk, mem, synced >>

Write(w) ==
  /\ At(w, "created", "written")
  /\ mem' = [mem EXCEPT ![save[w].ino] = save[w].doc]
  /\ UNCHANGED << dir, dirDisk, synced, orphans >>

\* mutant: the error of a short write is not looked at
WriteFailsBug(w) ==
  At(w, "created", "written") /\ UNCHANGED << dir, dirDisk, mem, synced, orphans >>

\* A full disk: none or some of the document is in the file.
WriteFails(w) == Errs(w, "created") /\ UNCHANGED mem

\* mutant: Save without tmp.Sync
SyncBug(w) ==
  At(w, "written", "synced") /\ UNCHANGED << dir, dirDisk, mem, synced, orphans >>

Sync(w) ==
  /\ At(w, "written", "synced")
  /\ synced' = synced \cup {save[w].ino}
  /\ UNCHANGED << dir, dirDisk, mem, orphans >>

SyncFails(w) == Errs(w, "written") /\ UNCHANGED mem

Close(w) ==
  At(w, "synced", "closed") /\ UNCHANGED << dir, dirDisk, mem, synced, orphans >>

CloseFails(w) == Errs(w, "synced") /\ UNCHANGED mem

\* Chmod and Rename go by the name, which FreeName keeps the save's own.
Chmod(w) ==
  /\ At(w, "closed", "chmodded")
  /\ UNCHANGED << dir, dirDisk, mem, synced, orphans >>

ChmodFails(w) == Errs(w, "closed") /\ UNCHANGED mem

Rename(w) ==
  /\ At(w, "chmodded", "renamed")
  /\ dir' = [dir EXCEPT ![Target] = dir[save[w].name], ![save[w].name] = NoInode]
  /\ UNCHANGED << dirDisk, orphans >>
  /\ Contents(mem, synced)

RenameFails(w) == Errs(w, "chmodded") /\ UNCHANGED mem

\* mutant: no deferred Remove
FinishBug(w) ==
  /\ Running(w) /\ save[w].at \in {"renamed", "failed"}
  /\ save' = [save EXCEPT ![w] = NoSave]
  /\ UNCHANGED << dir, dirDisk, mem, synced, orphans >>

\* mutant: the save is never over
FinishOpenBug(w) ==
  /\ Running(w) /\ save[w].at \in {"renamed", "failed"}
  /\ save' = [save EXCEPT ![w].at = "finished"]
  /\ dir' = [dir EXCEPT ![save[w].name] = NoInode]
  /\ UNCHANGED << dirDisk, mem, synced, orphans >>

\* The deferred os.Remove(tmpName), then Save returns: a no-op after a rename.
Finish(w) ==
  /\ Running(w) /\ save[w].at \in {"renamed", "failed"}
  /\ save' = [save EXCEPT ![w] = NoSave]
  /\ dir' = [dir EXCEPT ![save[w].name] = NoInode]
  /\ UNCHANGED << dirDisk, orphans >>
  /\ Contents(mem, synced)

\* The process is killed: no deferred call runs.
Kill(w) ==
  /\ Running(w)
  /\ save' = [save EXCEPT ![w] = NoSave]
  /\ orphans' = orphans \cup {save[w].name}
  /\ UNCHANGED << dir, dirDisk >>
  /\ Contents(mem, synced)

\* "Delete the file to reset all history."
DeleteTarget ==
  /\ dir[Target] # NoInode
  /\ dir' = [dir EXCEPT ![Target] = NoInode]
  /\ UNCHANGED << save, dirDisk, orphans >>
  /\ Contents(mem, synced)

\* The kernel gets to writing the directory back.
WriteBackDir ==
  /\ dirDisk' = dir
  /\ UNCHANGED << save, dir, orphans >>
  /\ Contents(mem, synced)

PowerLoss ==
  /\ save' = [w \in Writer |-> NoSave]
  /\ dir' = dirDisk
  /\ orphans' = {t \in TempName : dirDisk[t] # NoInode}
  /\ UNCHANGED dirDisk
  /\ \E lost \in SUBSET (Inode \ synced) :
       Contents([i \in Inode |-> IF i \in lost THEN Torn ELSE mem[i]], Inode)

Save(w) ==
  \/ \E d \in Doc, t \in TempName, i \in Inode : CreateTemp(w, d, t, i)
  \/ Write(w)  \/ WriteFails(w)
  \/ Sync(w)   \/ SyncFails(w)
  \/ Close(w)  \/ CloseFails(w)
  \/ Chmod(w)  \/ ChmodFails(w)
  \/ Rename(w) \/ RenameFails(w)
  \/ Finish(w)

Next ==
  \/ \E w \in Writer : Save(w) \/ Kill(w)
  \/ DeleteTarget
  \/ WriteBackDir
  \/ PowerLoss

Spec == Init /\ [][Next]_vars

-----------------------------------------------------------------------------
(***************************************************************************)
(* Properties.                                                             *)
(***************************************************************************)

\* Types of all variables.
TypeOK ==
  /\ save \in [Writer -> Locals \cup {NoSave}]
  /\ dir \in [Entry -> Inode \cup {NoInode}]
  /\ dirDisk \in [Entry -> Inode \cup {NoInode}]
  /\ mem \in [Inode -> Content]
  /\ synced \subseteq Inode
  /\ orphans \subseteq TempName

\* "A crash mid-write cannot corrupt it": after any failures, kills and power
\* losses, and with several processes saving at once, Load finds a whole
\* document or no file; so it would after a power loss now.
NeverCorrupt ==
  /\ LoadOK
  /\ dirDisk[Target] # NoInode =>
       dirDisk[Target] \in synced /\ mem[dirDisk[Target]] \in Doc

\* Temp files do not pile up: one exists only for a save in progress or
\* because a process was killed or the power failed.
NoLitter ==
  \A t \in TempName : dir[t] # NoInode =>
    t \in orphans \/ \E w \in Writer : Running(w) /\ save[w].name = t

\* Savers never share a temp file nor write into the file in place: the inode
\* a save has open is reached by its own temp name only, until it is renamed.
OpenFilesPrivate ==
  \A w \in Writer : Running(w) /\ save[w].at \in Before =>
    /\ dir[save[w].name] = save[w].ino
    /\ \A e \in Entry \ {save[w].name} : dir[e] # save[w].ino
    /\ dirDisk[Target] # save[w].ino
    /\ \A v \in Writer \ {w} : Running(v) => save[v].ino # save[w].ino

\* What Save guarantees to its callers, step by step: it replaces the file in
\* one instant, by its own document, or not at all.
Phase(w) ==
  IF ~Running(w) THEN "idle"
  ELSE IF save[w].at \in Before THEN "saving"
  ELSE IF save[w].at = "renamed" THEN "saved"
  ELSE "failed"

Atomic == INSTANCE AtomicFile WITH
  file    <- ReadTarget,
  durable <- IF dirDisk[Target] = NoInode THEN NoDoc ELSE mem[dirDisk[Target]],
  phase   <- [w \in Writer |-> Phase(w)],
  job     <- [w \in Writer |-> IF Running(w) THEN save[w].doc ELSE NoDoc]

ImplementsAtomicFile == Atomic!Spec
=============================================================================
