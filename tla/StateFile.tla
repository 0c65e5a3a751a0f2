-------------------------- MODULE StateFile --------------------------
(***************************************************************************)
(* fsio.py: jobs.json as the calls of the helper's processes see it.  A      *)
(* change opens, checks and reads the file under the jobs lock, then writes  *)
(* a temporary file, syncs it and renames it over the name; a read of the     *)
(* panel takes no lock.  Every call creates at most one file, which carries   *)
(* the call's name; what a file holds is the set of changes in it.            *)
(***************************************************************************)
EXTENDS Naturals

CONSTANTS
  Changes,      \* calls that change the store: verbs, runners, passes
  Reads,        \* calls that only read it, without the lock
  NoFile,
  MaxCuts       \* bound: power cuts

Calls == Changes \cup Reads
ASSUME StateFileAssumption == Changes \cap Reads = {} /\ NoFile \notin Calls /\ MaxCuts \in Nat

VARIABLES
  pc,           \* where a call is
  lock,         \* the call that holds the flock, or NoFile
  dir,          \* the file jobs.json names, or NoFile
  disk,         \* the files the name may be on after a power cut
  temps,        \* temporary files in the folder
  holds,        \* what was written to each file
  synced,       \* the files that are whole on the disk
  fd, got,      \* the file a call has open, and what it read
  saved,        \* calls that returned with the folder synced
  cuts
fileVars == <<dir, disk, temps, holds, synced>>
vars == <<pc, lock, dir, disk, temps, holds, synced, fd, got, saved, cuts>>

Under == {"locked", "opened", "checked", "loaded", "writing", "written", "renamed"}
Init ==
  /\ pc = [c \in Calls |-> "idle"] /\ lock = NoFile
  /\ dir = NoFile /\ disk = {NoFile} /\ temps = {} /\ synced = {}
  /\ holds = [c \in Calls \cup {NoFile} |-> {}]
  /\ fd = [c \in Calls |-> NoFile] /\ got = [c \in Calls |-> {}]
  /\ saved = {} /\ cuts = 0

Goes(c, at) == pc' = [pc EXCEPT ![c] = at]
Unlock(c) == lock' = IF lock = c THEN NoFile ELSE lock

-----------------------------------------------------------------------------
(* Mutant: the lock is taken whoever holds it. *)
AcquireAnyway(c) ==
  /\ c \in Changes /\ pc[c] = "idle"
  /\ lock' = c
  /\ Goes(c, "locked")
  /\ UNCHANGED <<fileVars, fd, got, saved, cuts>>
(* lock: an flock that is waited for, and given up as lock_busy. *)
Acquire(c) ==
  /\ c \in Changes /\ pc[c] = "idle" /\ lock = NoFile
  /\ lock' = c
  /\ Goes(c, "locked")
  /\ UNCHANGED <<fileVars, fd, got, saved, cuts>>
LockBusy(c) ==
  /\ c \in Changes /\ pc[c] = "idle" /\ lock # NoFile
  /\ Goes(c, "failed")
  /\ UNCHANGED <<lock, fileVars, fd, got, saved, cuts>>

(* read_bytes: a missing file is an empty store. *)
Open(c) ==
  /\ pc[c] = IF c \in Changes THEN "locked" ELSE "idle"
  /\ fd' = [fd EXCEPT ![c] = dir]
  /\ IF dir = NoFile THEN Goes(c, "loaded") /\ got' = [got EXCEPT ![c] = {}]
     ELSE Goes(c, "opened") /\ UNCHANGED got
  /\ UNCHANGED <<lock, fileVars, saved, cuts>>

(* fstat: a file that was renamed over has no link left. *)
Check(c) ==
  /\ pc[c] = "opened" /\ fd[c] = dir
  /\ Goes(c, "checked")
  /\ UNCHANGED <<lock, fileVars, fd, got, saved, cuts>>
CheckRefused(c) ==
  /\ pc[c] = "opened" /\ fd[c] # dir
  /\ Goes(c, "failed") /\ Unlock(c)
  /\ UNCHANGED <<fileVars, fd, got, saved, cuts>>

Load(c) ==
  /\ pc[c] = "checked"
  /\ got' = [got EXCEPT ![c] = holds[fd[c]]]
  /\ Goes(c, "loaded")
  /\ UNCHANGED <<lock, fileVars, fd, saved, cuts>>

ReadDone(c) ==
  /\ c \in Reads /\ pc[c] = "loaded"
  /\ Goes(c, "done")
  /\ UNCHANGED <<lock, fileVars, fd, got, saved, cuts>>

-----------------------------------------------------------------------------
(* A pass removes old temporary files, of any call, before it saves. *)
PruneTemp(c) ==
  /\ c \in Changes /\ pc[c] = "loaded"
  /\ \E f \in temps : temps' = temps \ {f}
  /\ UNCHANGED <<pc, lock, dir, disk, holds, synced, fd, got, saved, cuts>>

(* write_atomic *)
Create(c) ==
  /\ c \in Changes /\ pc[c] = "loaded"
  /\ temps' = temps \cup {c}
  /\ holds' = [holds EXCEPT ![c] = got[c] \cup {c}]
  /\ Goes(c, "writing")
  /\ UNCHANGED <<lock, dir, disk, synced, fd, got, saved, cuts>>

Sync(c) ==
  /\ pc[c] = "writing"
  /\ synced' = synced \cup {c}
  /\ Goes(c, "written")
  /\ UNCHANGED <<lock, dir, disk, temps, holds, fd, got, saved, cuts>>

Rename(c) ==
  /\ pc[c] = "written" /\ c \in temps
  /\ dir' = c
  /\ disk' = disk \cup {c}
  /\ temps' = temps \ {c}
  /\ Goes(c, "renamed")
  /\ UNCHANGED <<lock, holds, synced, fd, got, saved, cuts>>

(* Mutant: the folder is not synced. *)
ReturnsEarly(c) ==
  /\ pc[c] = "renamed"
  /\ saved' = saved \cup {c}
  /\ Goes(c, "done") /\ Unlock(c)
  /\ UNCHANGED <<fileVars, fd, got, cuts>>
(* The folder is synced, or that failed, which is not an error; then the lock goes. *)
Returns(c) ==
  /\ pc[c] = "renamed"
  /\ \/ disk' = {dir} /\ saved' = saved \cup {c}
     \/ UNCHANGED <<disk, saved>>
  /\ Goes(c, "done") /\ Unlock(c)
  /\ UNCHANGED <<dir, temps, holds, synced, fd, got, cuts>>

(* A system call fails: the temporary file is discarded, where that works. *)
Fails(c) ==
  /\ pc[c] \in {"locked", "opened", "checked", "loaded", "writing", "written"}
  /\ temps' \in {temps, temps \ {c}}
  /\ Goes(c, "failed") /\ Unlock(c)
  /\ UNCHANGED <<dir, disk, holds, synced, fd, got, saved, cuts>>

(* The process is killed; the kernel drops its lock. *)
Dies(c) ==
  /\ pc[c] \in Under
  /\ Goes(c, "dead") /\ Unlock(c)
  /\ UNCHANGED <<fileVars, fd, got, saved, cuts>>

(* Every process ends, the name is on one of the files the disk may have it on, and a file that
   was not synced is not whole. *)
PowerCut ==
  /\ cuts < MaxCuts /\ cuts' = cuts + 1
  /\ pc' = [c \in Calls |-> IF pc[c] \in Under THEN "dead" ELSE pc[c]]
  /\ lock' = NoFile
  /\ dir' \in disk /\ disk' = {dir'}
  /\ \E lost \in SUBSET temps : temps' = temps \ lost
  /\ holds' = [f \in Calls \cup {NoFile} |-> IF f \in synced \cup {NoFile} THEN holds[f] ELSE {NoFile}]
  /\ UNCHANGED <<synced, fd, got, saved>>

Step(c) ==
  \/ Acquire(c) \/ LockBusy(c) \/ Open(c) \/ Check(c) \/ CheckRefused(c) \/ Load(c) \/ ReadDone(c)
  \/ PruneTemp(c) \/ Create(c) \/ Sync(c) \/ Rename(c) \/ Returns(c) \/ Fails(c) \/ Dies(c)
Next == (\E c \in Calls : Step(c)) \/ PowerCut
Spec == Init /\ [][Next]_vars

-----------------------------------------------------------------------------
TypeOK ==
  /\ pc \in [Calls -> Under \cup {"idle", "done", "failed", "dead"}]
  /\ lock \in Changes \cup {NoFile}
  /\ dir \in Changes \cup {NoFile} /\ disk \subseteq Changes \cup {NoFile}
  /\ temps \subseteq Changes /\ synced \subseteq Changes /\ saved \subseteq Changes
  /\ holds \in [Calls \cup {NoFile} -> SUBSET (Changes \cup {NoFile})]
  /\ fd \in [Calls -> Changes \cup {NoFile}] /\ got \in [Calls -> SUBSET (Changes \cup {NoFile})]
  /\ cuts \in 0..MaxCuts

(* A change whose call returned with its folder synced is in the store ever after, whatever call
   fails, is killed or works beside it, and after a power cut (write_atomic, StateDir.lock). *)
SavesStay == saved \subseteq holds[dir]

(* What a call that has opened the file works from. *)
Took(c) ==
  CASE pc[c] \in {"opened", "checked"}                       -> holds[fd[c]]
    [] pc[c] \in {"loaded", "writing", "written", "renamed"} -> got[c]
    [] OTHER                                                 -> {NoFile}

(* The file is the one value the rest of the helper takes it for: every call reads the whole of one
   value, every change is made to the value that stands, and none is lost (read_bytes, write_atomic). *)
Store == INSTANCE AtomicStore
           WITH Nothing <- {NoFile}, value <- holds[dir], unsettled <- {holds[f] : f \in disk},
                took <- [c \in Calls |-> Took(c)]
OneValue == Store!Spec
=======================================================================
