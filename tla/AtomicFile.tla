----------------------------- MODULE AtomicFile -----------------------------
(***************************************************************************)
(* What state.Save promises its callers, whatever the file system does in  *)
(* between: the state file holds a whole document or does not exist; a     *)
(* save replaces it at one instant and only then returns success; a save   *)
(* that returns an error, or that is killed, has replaced it or left it    *)
(* alone, never half; a power loss may take the file back to a document it *)
(* held before (nothing syncs the directory) but not to anything else.     *)
(***************************************************************************)
CONSTANTS
  Writer,    \* the processes that save
  Doc,       \* the documents they save
  NoDoc      \* there is no state file

VARIABLES
  file,      \* what a reader finds
  durable,   \* what a reader would find after a power loss
  phase,     \* per writer: "idle", "saving", "saved", "failed"
  job        \* per writer: the document of the save in progress, or NoDoc

vars == << file, durable, phase, job >>

Init ==
  /\ file = NoDoc
  /\ durable = NoDoc
  /\ phase = [w \in Writer |-> "idle"]
  /\ job = [w \in Writer |-> NoDoc]

Begin(w, d) ==
  /\ phase[w] = "idle"
  /\ phase' = [phase EXCEPT ![w] = "saving"]
  /\ job' = [job EXCEPT ![w] = d]
  /\ UNCHANGED << file, durable >>

Commit(w) ==
  /\ phase[w] = "saving"
  /\ phase' = [phase EXCEPT ![w] = "saved"]
  /\ file' = job[w]
  /\ UNCHANGED << durable, job >>

Fail(w) ==
  /\ phase[w] = "saving"
  /\ phase' = [phase EXCEPT ![w] = "failed"]
  /\ UNCHANGED << file, durable, job >>

\* Save returns, or its process is killed.
Leave(w) ==
  /\ phase' = [phase EXCEPT ![w] = "idle"]
  /\ job' = [job EXCEPT ![w] = NoDoc]
  /\ UNCHANGED << file, durable >>

\* Somebody deletes the file to reset all history.
Reset ==
  /\ file' = NoDoc
  /\ UNCHANGED << durable, phase, job >>

Persist ==
  /\ durable' = file
  /\ UNCHANGED << file, phase, job >>

PowerLoss ==
  /\ file' = durable
  /\ phase' = [w \in Writer |-> "idle"]
  /\ job' = [w \in Writer |-> NoDoc]
  /\ UNCHANGED durable

Next ==
  \/ \E w \in Writer, d \in Doc : Begin(w, d)
  \/ \E w \in Writer : Commit(w) \/ Fail(w) \/ Leave(w)
  \/ Reset \/ Persist \/ PowerLoss

Spec == Init /\ [][Next]_vars
=============================================================================
