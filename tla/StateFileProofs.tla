------------------------ MODULE StateFileProofs ------------------------
(***************************************************************************)
(* The state file is an atomic store, for any number of calls and of power  *)
(* cuts: the inductive invariant, the saves that stay, and the refinement.   *)
(***************************************************************************)
EXTENDS StateFile, TLAPS

(* Only the call that holds the lock is between its locking and its return. *)
HolderAlone ==
  /\ \A c \in Changes : pc[c] \in Under => lock = c
  /\ \A c \in Calls : pc[c] \in {"locked", "writing", "written", "renamed"} => c \in Changes

(* The file of a call is nobody's until the call renames it. *)
Unpublished == {"idle", "locked", "opened", "checked", "loaded", "writing", "written"}
FilesAreNew ==
  \A c \in Calls : pc[c] \in Unpublished =>
    c # dir /\ c \notin disk /\ \A x \in Calls : fd[x] # c

(* The holder works from the file that stands. *)
HolderIsCurrent ==
  \A c \in Changes :
    /\ pc[c] \in {"opened", "checked"} => fd[c] = dir
    /\ pc[c] \in {"loaded", "writing", "written"} => got[c] = holds[dir]
    /\ pc[c] \in {"writing", "written", "renamed"} => holds[c] = got[c] \cup {c}
    /\ pc[c] \in {"written", "renamed"} => c \in synced
    /\ pc[c] = "renamed" => dir = c

(* Every file the name may be on is whole and has every change that stays. *)
DiskIsWhole ==
  /\ holds[NoFile] = {}
  /\ dir \in disk /\ disk \subseteq synced \cup {NoFile}
  /\ \A f \in disk : saved \subseteq holds[f]

IInv == TypeOK /\ HolderAlone /\ FilesAreNew /\ HolderIsCurrent /\ DiskIsWhole

LEMMA InitHolds == Init => IInv
  BY StateFileAssumption DEF Init, IInv, TypeOK, HolderAlone, FilesAreNew, HolderIsCurrent, DiskIsWhole,
     Calls, Under, Unpublished

(* Every step of a call preserves the invariant. *)
LEMMA StepKeeps == ASSUME NEW c \in Calls, IInv, Step(c) PROVE IInv'
<1> USE StateFileAssumption DEF Calls
<1>t. TypeOK /\ HolderAlone /\ FilesAreNew /\ HolderIsCurrent /\ DiskIsWhole
  BY DEF IInv
<1>1. CASE Acquire(c)
  <2>1. TypeOK'
    BY <1>t, <1>1 DEF Acquire, Goes, fileVars, TypeOK, Under
  <2>2. HolderAlone'
    BY <1>t, <1>1 DEF Acquire, Goes, fileVars, HolderAlone
  <2>3. FilesAreNew'
    BY <1>t, <1>1 DEF Acquire, Goes, fileVars, FilesAreNew, Unpublished
  <2>4. HolderIsCurrent'
    BY <1>t, <1>1 DEF Acquire, Goes, fileVars, HolderIsCurrent
  <2>5. DiskIsWhole'
    BY <1>t, <1>1 DEF Acquire, Goes, fileVars, DiskIsWhole
  <2> QED BY <2>1, <2>2, <2>3, <2>4, <2>5 DEF IInv
<1>2. CASE LockBusy(c)
  <2>1. TypeOK'
    BY <1>t, <1>2 DEF LockBusy, Goes, fileVars, TypeOK
  <2>2. HolderAlone'
    BY <1>t, <1>2 DEF LockBusy, Goes, fileVars, HolderAlone, Under
  <2>3. FilesAreNew'
    BY <1>t, <1>2 DEF LockBusy, Goes, fileVars, FilesAreNew, Unpublished
  <2>4. HolderIsCurrent'
    BY <1>t, <1>2 DEF LockBusy, Goes, fileVars, HolderIsCurrent
  <2>5. DiskIsWhole'
    BY <1>t, <1>2 DEF LockBusy, Goes, fileVars, DiskIsWhole
  <2> QED BY <2>1, <2>2, <2>3, <2>4, <2>5 DEF IInv
<1>3. CASE Open(c)
  <2>1. TypeOK'
    BY <1>t, <1>3 DEF Open, Goes, fileVars, TypeOK, Under
  <2>2. HolderAlone'
    BY <1>t, <1>3 DEF Open, Goes, fileVars, TypeOK, HolderAlone
  <2>3. FilesAreNew'
    BY <1>t, <1>3 DEF Open, Goes, fileVars, TypeOK, FilesAreNew, Unpublished
  <2>4. HolderIsCurrent'
    <3>1. CASE dir = NoFile
      <4>1. dir' = NoFile /\ holds' = holds /\ holds[NoFile] = {} /\ synced' = synced
        BY <1>t, <1>3, <3>1 DEF Open, fileVars, DiskIsWhole
      <4>2. pc' = [pc EXCEPT ![c] = "loaded"] /\ got' = [got EXCEPT ![c] = {}] /\ fd' = [fd EXCEPT ![c] = dir]
        BY <1>3, <3>1 DEF Open, Goes
      <4>3. ASSUME NEW x \in Changes, x # c
            PROVE pc'[x] = pc[x] /\ got'[x] = got[x] /\ fd'[x] = fd[x]
        BY <1>t, <4>2, <4>3 DEF TypeOK
      <4>4. pc'[c] = "loaded" /\ got'[c] = holds'[dir']
        BY <1>t, <4>1, <4>2 DEF TypeOK
      <4> QED BY <1>t, <3>1, <4>1, <4>3, <4>4 DEF HolderIsCurrent
    <3>2. CASE dir # NoFile
      BY <1>t, <1>3, <3>2 DEF Open, Goes, fileVars, TypeOK, HolderIsCurrent
    <3> QED BY <3>1, <3>2
  <2>5. DiskIsWhole'
    BY <1>t, <1>3 DEF Open, Goes, fileVars, DiskIsWhole
  <2> QED BY <2>1, <2>2, <2>3, <2>4, <2>5 DEF IInv
<1>4. CASE Check(c)
  <2>1. TypeOK'
    BY <1>t, <1>4 DEF Check, Goes, fileVars, TypeOK, Under
  <2>2. HolderAlone'
    BY <1>t, <1>4 DEF Check, Goes, fileVars, TypeOK, HolderAlone
  <2>3. FilesAreNew'
    BY <1>t, <1>4 DEF Check, Goes, fileVars, FilesAreNew, Unpublished
  <2>4. HolderIsCurrent'
    BY <1>t, <1>4 DEF Check, Goes, fileVars, HolderIsCurrent
  <2>5. DiskIsWhole'
    BY <1>t, <1>4 DEF Check, Goes, fileVars, DiskIsWhole
  <2> QED BY <2>1, <2>2, <2>3, <2>4, <2>5 DEF IInv
<1>5. CASE CheckRefused(c)
  <2>1. TypeOK'
    BY <1>t, <1>5 DEF CheckRefused, Goes, Unlock, fileVars, TypeOK
  <2>2. HolderAlone'
    BY <1>t, <1>5 DEF CheckRefused, Goes, Unlock, fileVars, TypeOK, HolderAlone, Under
  <2>3. FilesAreNew'
    BY <1>t, <1>5 DEF CheckRefused, Goes, Unlock, fileVars, FilesAreNew, Unpublished
  <2>4. HolderIsCurrent'
    BY <1>t, <1>5 DEF CheckRefused, Goes, Unlock, fileVars, HolderIsCurrent
  <2>5. DiskIsWhole'
    BY <1>t, <1>5 DEF CheckRefused, Goes, Unlock, fileVars, DiskIsWhole
  <2> QED BY <2>1, <2>2, <2>3, <2>4, <2>5 DEF IInv
<1>6. CASE Load(c)
  <2>1. TypeOK'
    BY <1>t, <1>6 DEF Load, Goes, fileVars, TypeOK, Under
  <2>2. HolderAlone'
    BY <1>t, <1>6 DEF Load, Goes, fileVars, TypeOK, HolderAlone
  <2>3. FilesAreNew'
    BY <1>t, <1>6 DEF Load, Goes, fileVars, FilesAreNew, Unpublished
  <2>4. HolderIsCurrent'
    BY <1>t, <1>6 DEF Load, Goes, fileVars, TypeOK, HolderIsCurrent
  <2>5. DiskIsWhole'
    BY <1>t, <1>6 DEF Load, Goes, fileVars, DiskIsWhole
  <2> QED BY <2>1, <2>2, <2>3, <2>4, <2>5 DEF IInv
<1>7. CASE ReadDone(c)
  <2>1. TypeOK'
    BY <1>t, <1>7 DEF ReadDone, Goes, fileVars, TypeOK
  <2>2. HolderAlone'
    BY <1>t, <1>7 DEF ReadDone, Goes, fileVars, HolderAlone
  <2>3. FilesAreNew'
    BY <1>t, <1>7 DEF ReadDone, Goes, fileVars, TypeOK, FilesAreNew
  <2>4. HolderIsCurrent'
    BY <1>t, <1>7 DEF ReadDone, Goes, fileVars, HolderIsCurrent
  <2>5. DiskIsWhole'
    BY <1>t, <1>7 DEF ReadDone, Goes, fileVars, DiskIsWhole
  <2> QED BY <2>1, <2>2, <2>3, <2>4, <2>5 DEF IInv
<1>8. CASE PruneTemp(c)
  <2>1. TypeOK'
    BY <1>t, <1>8 DEF PruneTemp, TypeOK
  <2>2. HolderAlone'
    BY <1>t, <1>8 DEF PruneTemp, HolderAlone
  <2>3. FilesAreNew'
    BY <1>t, <1>8 DEF PruneTemp, FilesAreNew
  <2>4. HolderIsCurrent'
    BY <1>t, <1>8 DEF PruneTemp, HolderIsCurrent
  <2>5. DiskIsWhole'
    BY <1>t, <1>8 DEF PruneTemp, DiskIsWhole
  <2> QED BY <2>1, <2>2, <2>3, <2>4, <2>5 DEF IInv
<1>9. CASE Create(c)
  <2>1. TypeOK'
    BY <1>t, <1>9 DEF Create, Goes, TypeOK, Under
  <2>2. HolderAlone'
    BY <1>t, <1>9 DEF Create, Goes, TypeOK, HolderAlone
  <2>3. FilesAreNew'
    BY <1>t, <1>9 DEF Create, Goes, FilesAreNew, Unpublished
  <2>4. HolderIsCurrent'
    BY <1>t, <1>9 DEF Create, Goes, TypeOK, FilesAreNew, HolderIsCurrent, Unpublished
  <2>5. DiskIsWhole'
    BY <1>t, <1>9 DEF Create, Goes, FilesAreNew, DiskIsWhole, Unpublished
  <2> QED BY <2>1, <2>2, <2>3, <2>4, <2>5 DEF IInv
<1>10. CASE Sync(c)
  <2>1. TypeOK'
    BY <1>t, <1>10 DEF Sync, Goes, TypeOK, HolderAlone, Under
  <2>2. HolderAlone'
    BY <1>t, <1>10 DEF Sync, Goes, TypeOK, HolderAlone
  <2>3. FilesAreNew'
    BY <1>t, <1>10 DEF Sync, Goes, FilesAreNew, Unpublished
  <2>4. HolderIsCurrent'
    BY <1>t, <1>10 DEF Sync, Goes, HolderIsCurrent
  <2>5. DiskIsWhole'
    BY <1>t, <1>10 DEF Sync, Goes, DiskIsWhole
  <2> QED BY <2>1, <2>2, <2>3, <2>4, <2>5 DEF IInv
<1>11. CASE Rename(c)
  <2>1. TypeOK'
    BY <1>t, <1>11 DEF Rename, Goes, TypeOK, Under
  <2>2. HolderAlone'
    BY <1>t, <1>11 DEF Rename, Goes, TypeOK, HolderAlone
  <2>3. FilesAreNew'
    BY <1>t, <1>11 DEF Rename, Goes, TypeOK, FilesAreNew, Unpublished
  <2>4. HolderIsCurrent'
    BY <1>t, <1>11 DEF Rename, Goes, TypeOK, HolderAlone, HolderIsCurrent
  <2>5. DiskIsWhole'
    BY <1>t, <1>11 DEF Rename, Goes, TypeOK, HolderIsCurrent, DiskIsWhole
  <2> QED BY <2>1, <2>2, <2>3, <2>4, <2>5 DEF IInv
<1>12. CASE Returns(c)
  <2>1. TypeOK'
    BY <1>t, <1>12 DEF Returns, Goes, Unlock, TypeOK, HolderAlone
  <2>2. HolderAlone'
    BY <1>t, <1>12 DEF Returns, Goes, Unlock, TypeOK, HolderAlone, Under
  <2>3. FilesAreNew'
    BY <1>t, <1>12 DEF Returns, Goes, Unlock, FilesAreNew, Unpublished
  <2>4. HolderIsCurrent'
    BY <1>t, <1>12 DEF Returns, Goes, Unlock, HolderIsCurrent
  <2>5. DiskIsWhole'
    BY <1>t, <1>12 DEF Returns, Goes, Unlock, HolderAlone, HolderIsCurrent, DiskIsWhole
  <2> QED BY <2>1, <2>2, <2>3, <2>4, <2>5 DEF IInv
<1>13. CASE Fails(c)
  <2>1. TypeOK'
    BY <1>t, <1>13 DEF Fails, Goes, Unlock, TypeOK
  <2>2. HolderAlone'
    BY <1>t, <1>13 DEF Fails, Goes, Unlock, TypeOK, HolderAlone, Under
  <2>3. FilesAreNew'
    BY <1>t, <1>13 DEF Fails, Goes, Unlock, FilesAreNew, Unpublished
  <2>4. HolderIsCurrent'
    BY <1>t, <1>13 DEF Fails, Goes, Unlock, HolderIsCurrent
  <2>5. DiskIsWhole'
    BY <1>t, <1>13 DEF Fails, Goes, Unlock, DiskIsWhole
  <2> QED BY <2>1, <2>2, <2>3, <2>4, <2>5 DEF IInv
<1>14. CASE Dies(c)
  <2>1. TypeOK'
    BY <1>t, <1>14 DEF Dies, Goes, Unlock, fileVars, TypeOK
  <2>2. HolderAlone'
    BY <1>t, <1>14 DEF Dies, Goes, Unlock, fileVars, TypeOK, HolderAlone, Under
  <2>3. FilesAreNew'
    BY <1>t, <1>14 DEF Dies, Goes, Unlock, fileVars, FilesAreNew, Unpublished
  <2>4. HolderIsCurrent'
    BY <1>t, <1>14 DEF Dies, Goes, Unlock, fileVars, HolderIsCurrent
  <2>5. DiskIsWhole'
    BY <1>t, <1>14 DEF Dies, Goes, Unlock, fileVars, DiskIsWhole
  <2> QED BY <2>1, <2>2, <2>3, <2>4, <2>5 DEF IInv
<1> QED BY <1>1, <1>2, <1>3, <1>4, <1>5, <1>6, <1>7, <1>8, <1>9, <1>10, <1>11, <1>12, <1>13, <1>14 DEF Step

LEMMA CutKeeps == ASSUME IInv, PowerCut PROVE IInv'
<1> USE StateFileAssumption DEF Calls, PowerCut
<1>1. TypeOK'
  BY DEF IInv, TypeOK, DiskIsWhole, Under
<1>2. HolderAlone'
  BY DEF IInv, TypeOK, HolderAlone, Under
<1>3. FilesAreNew'
  BY DEF IInv, TypeOK, FilesAreNew, Unpublished, Under
<1>4. HolderIsCurrent'
  BY DEF IInv, TypeOK, HolderIsCurrent, Under
<1>5. DiskIsWhole'
  BY DEF IInv, TypeOK, DiskIsWhole
<1> QED BY <1>1, <1>2, <1>3, <1>4, <1>5 DEF IInv

LEMMA Inductive == Spec => []IInv
<1>1. IInv /\ UNCHANGED vars => IInv'
  BY DEF vars, fileVars, IInv, TypeOK, HolderAlone, FilesAreNew, HolderIsCurrent, DiskIsWhole
<1>2. IInv /\ [Next]_vars => IInv'
  BY <1>1, StepKeeps, CutKeeps DEF Next
<1> QED BY InitHolds, <1>2, PTL DEF Spec

(* A change whose call returned with its folder synced is in the store ever after (fsio.py). *)
THEOREM SavesAreKept == Spec => []SavesStay
<1>1. IInv => SavesStay
  BY DEF IInv, DiskIsWhole, SavesStay
<1> QED BY <1>1, Inductive, PTL

-----------------------------------------------------------------------------
(* The refinement: what each step is to the abstract store. *)
Value == holds[dir]
Unsettled == {holds[f] : f \in disk}
Work == [x \in Calls |-> Took(x)]

(* A step that leaves the files and the work of the other calls alone. *)
LEMMA OthersKeepWork ==
  ASSUME IInv, NEW c \in Calls, NEW at, Goes(c, at),
         \A x \in Calls : x # c => fd'[x] = fd[x] /\ got'[x] = got[x],
         \A x \in Calls : x # c /\ pc[x] \in {"opened", "checked"} => holds'[fd[x]] = holds[fd[x]]
  PROVE  Work' = [Work EXCEPT ![c] = Took(c)']
<1>1. \A x \in Calls : x # c => pc'[x] = pc[x]
  BY DEF Goes, IInv, TypeOK
<1>2. \A x \in Calls : x # c => Took(x)' = Took(x)
  BY <1>1 DEF Took
<1> QED BY <1>2 DEF Work

Stutters == UNCHANGED <<Value, Unsettled, Work>>
Leaves(c) == Work' = [Work EXCEPT ![c] = {NoFile}] /\ UNCHANGED <<Value, Unsettled>>

LEMMA Unnoticed ==
  ASSUME IInv, NEW c \in Calls,
         Acquire(c) \/ Check(c) \/ Load(c) \/ PruneTemp(c) \/ Create(c) \/ Sync(c)
  PROVE  Stutters
<1> USE DEF IInv, Goes, fileVars
<1>1. CASE PruneTemp(c)
  BY <1>1 DEF PruneTemp, Stutters, Value, Unsettled, Work, Took
<1>2. CASE Acquire(c) \/ Check(c) \/ Load(c) \/ Sync(c)
  <2>1. UNCHANGED <<Value, Unsettled>>
    BY <1>2 DEF Acquire, Check, Load, Sync, Value, Unsettled
  <2>2. Took(c)' = Took(c)
    BY <1>2 DEF Acquire, Check, Load, Sync, Took, TypeOK
  <2>3. Work' = [Work EXCEPT ![c] = Took(c)']
    BY <1>2, OthersKeepWork DEF Acquire, Check, Load, Sync, TypeOK
  <2> QED BY <2>1, <2>2, <2>3 DEF Stutters, Work
<1>3. CASE Create(c)
  <2>1. \A f \in Calls \cup {NoFile} : f # c => holds'[f] = holds[f]
    BY <1>3 DEF Create, TypeOK
  <2>2. c # dir /\ c \notin disk /\ (\A x \in Calls : fd[x] # c) /\ dir' = dir /\ disk' = disk
    BY <1>3 DEF Create, FilesAreNew, Unpublished
  <2>3. UNCHANGED <<Value, Unsettled>>
    BY <2>1, <2>2 DEF Value, Unsettled, TypeOK, Calls
  <2>4. Took(c)' = Took(c)
    BY <1>3 DEF Create, Took, TypeOK
  <2>5. \A x \in Calls : holds'[fd[x]] = holds[fd[x]]
    BY <2>1, <2>2 DEF TypeOK, Calls
  <2>6. Work' = [Work EXCEPT ![c] = Took(c)']
    BY <1>3, <2>5, OthersKeepWork DEF Create
  <2> QED BY <2>3, <2>4, <2>6 DEF Stutters, Work
<1> QED BY <1>1, <1>2, <1>3

LEMMA Gone ==
  ASSUME IInv, NEW c \in Calls,
         LockBusy(c) \/ CheckRefused(c) \/ ReadDone(c) \/ Fails(c) \/ Dies(c)
  PROVE  Leaves(c)
<1> USE DEF IInv, Goes, fileVars, LockBusy, CheckRefused, ReadDone, Fails, Dies
<1>1. UNCHANGED <<Value, Unsettled>>
  BY DEF Value, Unsettled
<1>2. Took(c)' = {NoFile}
  BY DEF Took, TypeOK
<1>3. Work' = [Work EXCEPT ![c] = Took(c)']
  BY OthersKeepWork
<1> QED BY <1>1, <1>2, <1>3 DEF Leaves

LEMMA OpenTakes == ASSUME IInv, NEW c \in Calls, Open(c) PROVE Took(c)' = holds[dir]
<1> USE DEF IInv, Goes, fileVars, Open
<1>1. CASE dir = NoFile
  <2>1. pc'[c] = "loaded" /\ got'[c] = {}
    BY <1>1 DEF TypeOK
  <2>2. holds[dir] = {}
    BY <1>1 DEF DiskIsWhole
  <2> QED BY <2>1, <2>2 DEF Took
<1>2. CASE dir # NoFile
  <2>1. pc'[c] = "opened" /\ fd'[c] = dir /\ holds' = holds
    BY <1>2 DEF TypeOK
  <2> QED BY <2>1 DEF Took
<1> QED BY <1>1, <1>2

(* Every step of a call is one of the abstract store, or none. *)
LEMMA OpenMaps == ASSUME IInv, NEW c \in Calls, Open(c) PROVE Store!Take(c)
<1> USE DEF IInv, Goes, fileVars
<1>1. Took(c)' = holds[dir]
  BY OpenTakes
<1>2. PICK at : Goes(c, at)
  BY DEF Open
<1>3. \A x \in Calls : x # c => fd'[x] = fd[x] /\ got'[x] = got[x]
  BY DEF Open, TypeOK
<1>4. UNCHANGED <<dir, disk, holds>>
  BY DEF Open
<1>5. Work' = [Work EXCEPT ![c] = Took(c)']
  BY <1>2, <1>3, <1>4, OthersKeepWork
<1> QED BY <1>1, <1>4, <1>5 DEF Store!Take, Work

LEMMA RenameMaps == ASSUME IInv, NEW c \in Calls, Rename(c) PROVE Store!Change(c)
<1> USE DEF IInv, Goes, fileVars
<1>1. c \in Changes /\ got[c] = holds[dir] /\ holds[c] = got[c] \cup {c}
  BY DEF Rename, HolderIsCurrent, HolderAlone
<1>2. pc[c] = "written" /\ pc'[c] = "renamed" /\ got'[c] = got[c]
  BY DEF Rename, TypeOK
<1>3. Took(c) = holds[dir] /\ Took(c)' = Took(c)
  BY <1>1, <1>2 DEF Took
<1>4. Work' = [Work EXCEPT ![c] = Took(c)']
  BY OthersKeepWork DEF Rename
<1>5. Work' = Work /\ Work[c] = holds[dir]
  BY <1>3, <1>4 DEF Work
<1>6. holds'[dir'] = holds[dir] \cup {c}
  BY <1>1 DEF Rename
<1>7. {holds'[f] : f \in disk'} = {holds[f] : f \in disk} \cup {holds'[dir']}
  BY DEF Rename
<1> QED BY <1>5, <1>6, <1>7 DEF Store!Change, Work

LEMMA ReturnsMaps ==
  ASSUME IInv, NEW c \in Calls, Returns(c) PROVE Store!Leave(c) \/ Store!SettleFor(c)
<1> USE DEF IInv, Goes, fileVars
<1>1. Took(c)' = {NoFile}
  BY DEF Returns, Took, TypeOK
<1>2. Work' = [Work EXCEPT ![c] = Took(c)']
  BY OthersKeepWork DEF Returns
<1>3. holds'[dir'] = holds[dir] /\ ({holds'[f] : f \in disk'} = {holds[dir]}
                                     \/ {holds'[f] : f \in disk'} = {holds[f] : f \in disk})
  BY DEF Returns
<1> QED BY <1>1, <1>2, <1>3 DEF Store!Leave, Store!SettleFor, Work

LEMMA StepMaps == ASSUME IInv, NEW c \in Calls, Step(c) PROVE [Store!Next]_(Store!vars)
<1>1. CASE Acquire(c) \/ Check(c) \/ Load(c) \/ PruneTemp(c) \/ Create(c) \/ Sync(c)
  BY <1>1, Unnoticed DEF Stutters, Store!vars, Value, Unsettled, Work
<1>2. CASE LockBusy(c) \/ CheckRefused(c) \/ ReadDone(c) \/ Fails(c) \/ Dies(c)
  <2>1. Store!Leave(c)
    BY <1>2, Gone DEF Leaves, Store!Leave, Value, Unsettled, Work
  <2> QED BY <2>1 DEF Store!Next
<1>3. CASE Open(c)
  BY <1>3, OpenMaps DEF Store!Next
<1>4. CASE Rename(c)
  BY <1>4, RenameMaps DEF Store!Next
<1>5. CASE Returns(c)
  BY <1>5, ReturnsMaps DEF Store!Next
<1> QED BY <1>1, <1>2, <1>3, <1>4, <1>5 DEF Step

LEMMA CutMaps == ASSUME IInv, PowerCut PROVE Store!PowerCut
<1> USE DEF IInv, PowerCut
<1>1. holds'[dir'] \in {holds[f] : f \in disk}
  BY DEF DiskIsWhole, TypeOK, Calls
<1>2. {holds'[f] : f \in disk'} = {holds'[dir']}
  OBVIOUS
<1>3. \A x \in Calls : pc'[x] \notin Under
  BY DEF Under
<1>4. \A x \in Calls : Took(x)' = {NoFile}
  BY <1>3 DEF Took, Under
<1> QED BY <1>1, <1>2, <1>4 DEF Store!PowerCut

(* jobs.json is one atomic value: every read takes the whole of it at one instant, every change is
   made to the value that stands (read_bytes, write_atomic, StateDir.lock). *)
THEOREM OneValueHolds == Spec => OneValue
<1>1. Init => Store!Init
  BY StateFileAssumption DEF Init, Store!Init, Took, Calls
<1>2. IInv /\ UNCHANGED vars => UNCHANGED Store!vars
  BY DEF vars, fileVars, Store!vars, Took
<1>3. IInv /\ [Next]_vars => [Store!Next]_(Store!vars)
  BY <1>2, StepMaps, CutMaps DEF Next, Store!Next
<1> QED BY <1>1, <1>3, Inductive, PTL DEF Spec, OneValue, Store!Spec
=======================================================================
