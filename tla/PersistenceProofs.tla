------------------------- MODULE PersistenceProofs --------------------------
(***************************************************************************)
(* The theorems about what is kept on the disk.  The boot-failure ratchet  *)
(* counts right, over any number of boots, kills, failed saves and power   *)
(* losses, when the daemon is the only process that writes boot_state.json. *)
(* atomic_write_file never exposes a partial file and implements the       *)
(* atomic register, for any number of writers, inodes and blocks.          *)
(***************************************************************************)
EXTENDS AtomicFile, BootState, TLAPS
-----------------------------------------------------------------------------
(* The boot-failure ratchet.                                               *)

Success == [id |-> boot, fails |-> 0, ok |-> TRUE]

\* Both copies of the file lie within the bounds now,
BoundInv ==
  \A s \in {file, stable} : least <= Count(s) /\ Count(s) <= most

\* and will do in the next boot.
NextBootInv ==
  \A s \in {file, stable} :
    /\ s.id = boot /\ ~s.ok => tried
    /\ saved => s.id = boot /\ ~s.ok

\* What the daemon is about to save.
SaveInv ==
  /\ place[daemon] = "save" => file.id # boot /\ st[daemon] = Advanced(file)
  /\ place[daemon] = "save_mark" => st[daemon] = Success /\ least = 0 /\ ~saved

\* What was reported in this boot still stands, or was reset.
ReportInv == report # -1 => Count(file) \in {report, 0}

BootInv ==
  BootTypeOK /\ BoundInv /\ NextBootInv /\ SaveInv /\ ReportInv /\ SuccessSticks

USE BootAssumption DEF history, Processes
-----------------------------------------------------------------------------
\* What collect makes of a state has the type of a state.
LEMMA AdvancedType ==
  ASSUME boot \in Nat \ {0}, NEW s \in States
  PROVE  Advanced(s) \in States
BY DEF Advanced, States

\* Every step keeps the types.
LEMMA BootTypeStep == BootTypeOK /\ [BootNext]_bootVars => BootTypeOK'
<1> SUFFICES ASSUME BootTypeOK, [BootNext]_bootVars PROVE BootTypeOK'
  OBVIOUS
<1>0. Fresh \in States /\ Success \in States
  BY DEF Fresh, Success, States, BootTypeOK
<1>a. boot' \in Nat /\ boot' >= boot => (States \subseteq States')
  BY DEF States, BootTypeOK
<1> USE DEF BootTypeOK, Move, Places
<1>1. ASSUME NEW p \in Processes, Start(p) PROVE BootTypeOK'
  BY <1>0, <1>1 DEF Start, States
<1>2. ASSUME NEW p \in Processes, Collect(p) PROVE BootTypeOK'
  BY <1>0, <1>2, AdvancedType DEF Collect, AfterCollect, States
<1>3. ASSUME NEW p \in Processes, SaveCollect(p) PROVE BootTypeOK'
  BY <1>0, <1>3 DEF SaveCollect, Save, AfterCollect, States
<1>4. ASSUME NEW p \in Processes, Kill(p) PROVE BootTypeOK'
  BY <1>0, <1>4 DEF Kill, States
<1>5. CASE Mark
  BY Zenon, <1>0, <1>5 DEF Mark, Success, States
<1>6. CASE SaveMark
  <2>1. file' \in States /\ stable' \in States /\ boot' = boot
    BY <1>6 DEF SaveMark, Save
  <2>2. \/ most' = 0 /\ tried' = FALSE /\ marked' = TRUE
        \/ UNCHANGED <<most, tried, marked>>
    BY <1>6 DEF SaveMark
  <2>3. most' \in Nat
    BY <2>2
  <2>4. tried' \in BOOLEAN /\ marked' \in BOOLEAN
    BY Zenon, <2>2
  <2>5. place' \in [Processes -> Places] /\ st' \in [Processes -> States]
    BY <1>0, <1>6 DEF SaveMark
  <2> QED
    BY <1>6, <2>1, <2>3, <2>4, <2>5 DEF SaveMark, States
<1>7. CASE Cycle
  BY <1>0, <1>7 DEF Cycle, States
<1>8. CASE WriteBackBoot
  BY <1>8 DEF WriteBackBoot, States
<1>9. CASE Reboot
  <2>1. boot' \in Nat \ {0} /\ States \subseteq States'
    BY <1>9, <1>a DEF Reboot
  <2>2. file' \in States' /\ stable' \in States' /\ st' \in [Processes -> States']
    BY <1>0, <1>9, <2>1 DEF Reboot
  <2>3. most' \in Nat /\ least' \in Nat
    BY <1>9 DEF Reboot
  <2> QED
    BY Zenon, <1>9, <2>1, <2>2, <2>3 DEF Reboot
<1>10. CASE UNCHANGED bootVars
  BY <1>10 DEF bootVars, States
<1> QED
  BY <1>1, <1>2, <1>3, <1>4, <1>5, <1>6, <1>7, <1>8, <1>9, <1>10 DEF BootNext

\* With the daemon alone, every step keeps the rest of the invariant.
LEMMA InvStep ==
  ASSUME Onces = {}
  PROVE  BootInv /\ BootTypeOK' /\ [BootNext]_bootVars =>
           BoundInv' /\ NextBootInv' /\ SaveInv' /\ ReportInv' /\ SuccessSticks'
<1> SUFFICES ASSUME BootInv, BootTypeOK', [BootNext]_bootVars
             PROVE  BoundInv' /\ NextBootInv' /\ SaveInv' /\ ReportInv' /\ SuccessSticks'
  OBVIOUS
<1> USE DEF BootInv, BoundInv, NextBootInv, SaveInv, ReportInv, SuccessSticks,
            Move, Count, Advanced, BootTypeOK, States
<1>1. CASE Start(daemon)
  BY <1>1 DEF Start
<1>2. CASE Collect(daemon)
  BY <1>2 DEF Collect, AfterCollect
<1>3. CASE SaveCollect(daemon)
  BY <1>3 DEF SaveCollect, Save, AfterCollect
<1>4. CASE Kill(daemon)
  BY <1>4 DEF Kill
<1>5. CASE Mark
  BY <1>5 DEF Mark, Success
<1>6. CASE SaveMark
  BY <1>6 DEF SaveMark, Save, Success
<1>7. CASE Cycle
  BY <1>7 DEF Cycle
<1>8. CASE WriteBackBoot
  <2>1. BoundInv' /\ NextBootInv'
    BY <1>8 DEF WriteBackBoot
  <2>2. SaveInv'
    BY <1>8 DEF WriteBackBoot, Success
  <2>3. ReportInv' /\ SuccessSticks'
    BY <1>8 DEF WriteBackBoot
  <2> QED
    BY <2>1, <2>2, <2>3
<1>9. CASE Reboot
  BY <1>9 DEF Reboot
<1>10. CASE UNCHANGED bootVars
  <2>1. BoundInv' /\ NextBootInv'
    BY <1>10 DEF bootVars
  <2>2. SaveInv'
    BY <1>10 DEF bootVars, Success
  <2>3. ReportInv' /\ SuccessSticks'
    BY <1>10 DEF bootVars
  <2> QED
    BY <2>1, <2>2, <2>3
<1> QED
  BY Zenon, <1>1, <1>2, <1>3, <1>4, <1>5, <1>6, <1>7, <1>8, <1>9, <1>10 DEF BootNext

\* The types hold initially.
LEMMA TypeInit == BootInit => BootTypeOK
<1> SUFFICES ASSUME BootInit PROVE BootTypeOK
  OBVIOUS
<1>1. Fresh \in States
  BY DEF BootInit, Fresh, States
<1>2. place \in [Processes -> Places] /\ st \in [Processes -> States]
  BY <1>1 DEF BootInit, Places
<1>3. /\ boot \in Nat \ {0} /\ report \in Nat \cup {-1}
      /\ most \in Nat /\ least \in Nat
  BY DEF BootInit
<1>4. /\ ready \in BOOLEAN /\ tried \in BOOLEAN
      /\ saved \in BOOLEAN /\ marked \in BOOLEAN
  BY Zenon DEF BootInit
<1>5. file \in States /\ stable \in States
  BY <1>1 DEF BootInit
<1> QED
  BY <1>2, <1>3, <1>4, <1>5 DEF BootTypeOK

\* The invariant holds in every reachable state.
LEMMA BootAlways ==
  ASSUME Onces = {}
  PROVE  BootSpec => []BootInv
<1>1. BootInit => BootInv
  BY TypeInit DEF BootInit, BootInv, Fresh, BoundInv, NextBootInv, SaveInv, ReportInv,
                  SuccessSticks, Count, Advanced
<1>2. BootInv /\ [BootNext]_bootVars => BootInv'
  BY BootTypeStep, InvStep DEF BootInv
<1> QED
  BY <1>1, <1>2, PTL DEF BootSpec

\* BootProbe's variables and its file keep their types, --once or not.
THEOREM BootTypeCorrect == BootSpec => []BootTypeOK
BY TypeInit, BootTypeStep, PTL DEF BootSpec

\* With the daemon alone, boot_fail_count never counts a boot that was saved
\* as a success, or any boot twice.
THEOREM CountHasUpperBound ==
  ASSUME Onces = {}
  PROVE  BootSpec => []NeverOvercounts
<1>1. BootInv => NeverOvercounts
  BY DEF BootInv, BoundInv, NeverOvercounts
<1> QED
  BY <1>1, BootAlways, PTL

\* With the daemon alone, boot_fail_count never loses a failed boot that was
\* saved: failed saves and power losses do not mask a boot loop.
THEOREM CountHasLowerBound ==
  ASSUME Onces = {}
  PROVE  BootSpec => []NeverUndercounts
<1>1. BootInv => NeverUndercounts
  BY DEF BootInv, BoundInv, NeverUndercounts, BootTypeOK, States, Count, Advanced
<1> QED
  BY <1>1, BootAlways, PTL

\* With the daemon alone, a success that mark_boot_success has saved stays.
THEOREM SuccessIsKept ==
  ASSUME Onces = {}
  PROVE  BootSpec => []SuccessSticks
BY BootAlways, PTL DEF BootInv

\* With the daemon alone, boot_fail_count only changes within a boot by being
\* reset.
THEOREM CountIsStable ==
  ASSUME Onces = {}
  PROVE  BootSpec => StableWithinBoot
<1>1. BootInv /\ [BootNext]_bootVars =>
        [boot' = boot /\ report # -1 => report' \in {report, 0}]_bootVars
  <2> SUFFICES ASSUME BootInv, BootNext, boot' = boot, report # -1
               PROVE  report' \in {report, 0}
    OBVIOUS
  <2> USE DEF BootInv, ReportInv, Count
  <2>1. CASE Collect(daemon)
    BY <2>1 DEF Collect
  <2>2. CASE SaveCollect(daemon)
    BY <2>2 DEF SaveCollect, SaveInv
  <2>3. CASE ~Collect(daemon) /\ ~SaveCollect(daemon) /\ ~Reboot
    BY <2>3 DEF BootNext, Start, Kill, Mark, SaveMark, Cycle, WriteBackBoot
  <2>4. CASE Reboot
    BY <2>4 DEF Reboot, BootTypeOK
  <2> QED
    BY <2>1, <2>2, <2>3, <2>4
<1> QED
  BY <1>1, BootAlways, PTL DEF BootSpec, StableWithinBoot
-----------------------------------------------------------------------------
(* The atomic file.                                                        *)

USE FileAssumption DEF calls, cache, Names

\* Two names never lead to one inode, neither in the cache nor on the disk,
\* and a temporary file is not the file of another name on the disk.
NameInv ==
  /\ \A m, n \in Names : dir[m] # None /\ dir[m] = dir[n] => m = n
  /\ \A m, n \in Names : disk[m] # None /\ disk[m] = disk[n] => m = n
  /\ \A p \in Procs, n \in Names : dir[p] # None /\ dir[p] = disk[n] => n = p

\* A whole content that has reached the disk
WholeOnDisk(ino) == data[ino] = synced[ino] /\ data[ino].len = Blocks

\* The inodes that Target leads to are whole and synced.
WholeInv ==
  /\ dir[Target] # None => WholeOnDisk(dir[Target])
  /\ disk[Target] # None => WholeOnDisk(disk[Target])

\* What a call has achieved at each place.
CallInv ==
  \A p \in Procs :
    /\ pc[p] = "fsync" => data[dir[p]] = [v |-> val[p], len |-> Blocks]
    /\ pc[p] \in {"close", "rename"} =>
         WholeOnDisk(dir[p]) /\ data[dir[p]].v = val[p]
    /\ p \in safe => pc[p] \in {"dir_open", "dir_fsync", "dir_close", "ok", "error"}
    /\ pc[p] = "dir_close" => p \in safe

IInv == TypeOK /\ NameInv /\ WholeInv /\ CallInv
-----------------------------------------------------------------------------
\* Freeing inodes keeps the ones that a name leads to.
LEMMA FreedKeeps ==
  ASSUME NEW content, NEW d, NEW dd, NEW n \in Names,
         NEW ino \in Inodes, ino \in {d[n], dd[n]}
  PROVE  Freed(content, d, dd)[ino] = content[ino]
BY DEF Freed

\* Freeing inodes keeps the type of the contents.
LEMMA FreedType ==
  ASSUME NEW content \in [Inodes -> Contents], NEW d, NEW dd
  PROVE  Freed(content, d, dd) \in [Inodes -> Contents]
<1>1. Empty \in Contents
  BY DEF Empty, Contents, OptValue
<1> QED
  BY <1>1 DEF Freed

\* The empty content is a content.
LEMMA EmptyType == Empty \in Contents
BY DEF Empty, Contents, OptValue

\* Every step keeps the types and the temporary file of a call.
LEMMA TypeStep ==
  TypeOK /\ [Next]_vars => TypeOK'
<1> SUFFICES ASSUME TypeOK, [Next]_vars
             PROVE  TypeOK'
  OBVIOUS
<1> USE DEF TypeOK, Pcs, OptValue
<1>1. ASSUME NEW p \in Procs, NEW v \in Values, Call(p, v) PROVE TypeOK'
  BY <1>1 DEF Call, Goto
<1>2. ASSUME NEW p \in Procs, Open(p) PROVE TypeOK'
  BY <1>2, EmptyType DEF Open, Goto
<1>3. ASSUME NEW p \in Procs, Write(p) PROVE TypeOK'
  <2>1. CASE FailIn(p)
    BY <2>1, <1>3 DEF Write, FailIn, Goto
  <2>2. CASE ~FailIn(p)
    <3>1. PICK len \in 1..Blocks :
            /\ data' = [data EXCEPT ![dir[p]] = [v |-> val[p], len |-> len]]
            /\ Goto(p, IF len = Blocks THEN "fsync" ELSE "write")
            /\ UNCHANGED <<val, safe, dir, disk, synced>>
      BY <1>3, <2>2 DEF Write
    <3>2. [v |-> val[p], len |-> len] \in Contents
      BY DEF Contents
    <3> QED
      BY <1>3, <3>1, <3>2 DEF Write, Goto
  <2> QED
    BY <2>1, <2>2
<1>4. ASSUME NEW p \in Procs, Fsync(p) PROVE TypeOK'
  BY <1>4 DEF Fsync, FailIn, Goto
<1>5. ASSUME NEW p \in Procs, Close(p) PROVE TypeOK'
  BY <1>5 DEF Close, FailIn, Goto
<1>6. ASSUME NEW p \in Procs, Rename(p) PROVE TypeOK'
  BY <1>6, FreedType DEF Rename, FailIn, Goto
<1>7. ASSUME NEW p \in Procs, Cleanup(p) PROVE TypeOK'
  BY <1>7, FreedType DEF Cleanup, Goto
<1>8. ASSUME NEW p \in Procs, DirOpen(p) PROVE TypeOK'
  BY <1>8 DEF DirOpen, Goto
<1>9. ASSUME NEW p \in Procs, DirFsync(p) PROVE TypeOK'
  BY <1>9, FreedType DEF DirFsync, DirToDisk, Goto
<1>10. ASSUME NEW p \in Procs, DirClose(p) PROVE TypeOK'
  BY <1>10 DEF DirClose, Goto
<1>11. ASSUME NEW p \in Procs, ReturnOrDie(p) PROVE TypeOK'
  BY <1>11 DEF ReturnOrDie, Goto
<1>12. ASSUME NEW ino \in Inodes, WriteBack(ino) PROVE TypeOK'
  BY <1>12 DEF WriteBack, Goto
<1>13. CASE WriteBackDir
  BY <1>13, FreedType DEF WriteBackDir, DirToDisk, Goto
<1>14. CASE PowerLoss
  BY <1>14, FreedType DEF PowerLoss, Goto
<1>15. CASE UNCHANGED vars
  BY <1>15 DEF vars
<1> QED
  BY Zenon, <1>1, <1>2, <1>3, <1>4, <1>5, <1>6, <1>7, <1>8, <1>9, <1>10, <1>11, <1>12, <1>13, <1>14, <1>15 DEF Next, Step

\* No step gives a second name to an inode.
LEMMA NameStep ==
  TypeOK /\ NameInv /\ [Next]_vars => NameInv'
<1> SUFFICES ASSUME TypeOK, NameInv, [Next]_vars
             PROVE  NameInv'
  OBVIOUS
<1> USE DEF NameInv
<1>1. ASSUME NEW p \in Procs, NEW v \in Values, Call(p, v) PROVE NameInv'
  BY <1>1 DEF Call, Goto
<1>2. ASSUME NEW p \in Procs, Open(p) PROVE NameInv'
  BY <1>2 DEF Open, Goto, Unused, TypeOK
<1>3. ASSUME NEW p \in Procs, Write(p) PROVE NameInv'
  BY Zenon, <1>3 DEF Write, FailIn, Goto
<1>4. ASSUME NEW p \in Procs, Fsync(p) PROVE NameInv'
  BY Zenon, <1>4 DEF Fsync, FailIn, Goto
<1>5. ASSUME NEW p \in Procs, Close(p) PROVE NameInv'
  BY <1>5 DEF Close, FailIn, Goto
<1>6. ASSUME NEW p \in Procs, Rename(p) PROVE NameInv'
  BY <1>6 DEF Rename, FailIn, Goto, TypeOK
<1>7. ASSUME NEW p \in Procs, Cleanup(p) PROVE NameInv'
  BY <1>7 DEF Cleanup, Goto, TypeOK
<1>8. ASSUME NEW p \in Procs, DirOpen(p) PROVE NameInv'
  BY <1>8 DEF DirOpen, Goto
<1>9. ASSUME NEW p \in Procs, DirFsync(p) PROVE NameInv'
  BY <1>9 DEF DirFsync, DirToDisk, Goto, TypeOK
<1>10. ASSUME NEW p \in Procs, DirClose(p) PROVE NameInv'
  BY <1>10 DEF DirClose, Goto
<1>11. ASSUME NEW p \in Procs, ReturnOrDie(p) PROVE NameInv'
  BY <1>11 DEF ReturnOrDie, Goto
<1>12. ASSUME NEW ino \in Inodes, WriteBack(ino) PROVE NameInv'
  BY <1>12 DEF WriteBack, Goto
<1>13. CASE WriteBackDir
  BY <1>13 DEF WriteBackDir, DirToDisk, Goto, TypeOK
<1>14. CASE PowerLoss
  BY <1>14 DEF PowerLoss, Goto, TypeOK
<1>15. CASE UNCHANGED vars
  BY <1>15 DEF vars
<1> QED
  BY Zenon, <1>1, <1>2, <1>3, <1>4, <1>5, <1>6, <1>7, <1>8, <1>9, <1>10, <1>11, <1>12, <1>13, <1>14, <1>15 DEF Next, Step

\* A step that only frees inodes keeps a whole target whole.
LEMMA WholeFreed ==
  ASSUME TypeOK', WholeInv,
         data' = Freed(data, dir', disk'), synced' = Freed(synced, dir', disk'),
         dir'[Target] \in {dir[Target], disk[Target]},
         disk'[Target] \in {dir[Target], disk[Target]}
  PROVE  WholeInv'
<1>1. Target \in Names
  BY Zenon
<1>2. dir'[Target] \in Inodes \cup {None} /\ disk'[Target] \in Inodes \cup {None}
  BY Zenon, <1>1 DEF TypeOK
<1>3. ASSUME NEW ino \in Inodes, ino \in {dir'[Target], disk'[Target]}
      PROVE  data'[ino] = synced'[ino] /\ data'[ino].len = Blocks
  <2>1. data[ino] = synced[ino] /\ data[ino].len = Blocks
    BY Zenon, <1>3 DEF WholeInv, WholeOnDisk
  <2>2. \E n \in Names : ino \in {dir'[n], disk'[n]}
    BY Zenon, <1>1, <1>3
  <2>3. data'[ino] = data[ino] /\ synced'[ino] = synced[ino]
    BY Zenon, <1>3, <2>2 DEF Freed
  <2> QED
    BY Zenon, <2>1, <2>3
<1> QED
  BY Zenon, <1>2, <1>3 DEF WholeInv, WholeOnDisk

\* Changing one entry of a function leaves its other entries alone: what cleaning up a temporary
\* file's name does to the target's entry of the directory.
LEMMA OtherEntry ==
  ASSUME NEW S, NEW T, NEW f \in [S -> T], NEW a, NEW b \in S, NEW x, a # b
  PROVE  [f EXCEPT ![a] = x][b] = f[b]
BY Zenon

\* No step touches the inode of Target, which was whole when it got its name.
LEMMA WholeStep ==
  IInv /\ [Next]_vars => WholeInv'
<1> SUFFICES ASSUME IInv, [Next]_vars
             PROVE  WholeInv'
  OBVIOUS
<1>a. TypeOK' /\ WholeInv
  BY Zenon, TypeStep DEF IInv
<1> USE DEF IInv, TypeOK, NameInv, WholeInv, CallInv, WholeOnDisk, Empty
<1>1. ASSUME NEW p \in Procs, NEW v \in Values, Call(p, v) PROVE WholeInv'
  BY <1>1 DEF Call, Goto
<1>2. ASSUME NEW p \in Procs, Open(p) PROVE WholeInv'
  BY <1>2 DEF Open, Goto, Unused
<1>3. ASSUME NEW p \in Procs, Write(p) PROVE WholeInv'
  BY <1>3 DEF Write, FailIn, Goto
<1>4. ASSUME NEW p \in Procs, Fsync(p) PROVE WholeInv'
  BY <1>4 DEF Fsync, FailIn, Goto
<1>5. ASSUME NEW p \in Procs, Close(p) PROVE WholeInv'
  BY <1>5 DEF Close, FailIn, Goto
<1>6. ASSUME NEW p \in Procs, Rename(p) PROVE WholeInv'
  <2>1. CASE FailIn(p)
    BY <2>1 DEF FailIn
  <2>2. CASE ~FailIn(p)
    <3>1. /\ dir' = [dir EXCEPT ![Target] = dir[p], ![p] = None]
          /\ data' = Freed(data, dir', disk) /\ synced' = Freed(synced, dir', disk)
          /\ disk' = disk
      BY <1>6, <2>2 DEF Rename
    <3>2. WholeOnDisk(dir[p]) /\ dir[p] \in Inodes /\ dir'[Target] = dir[p]
      <4>1. pc[p] = "rename"
        BY <1>6 DEF Rename
      <4>2. WholeOnDisk(dir[p])
        BY Zenon, <4>1
      <4>3. dir[p] \in Inodes
        BY <4>1
      <4>4. dir'[Target] = dir[p]
        BY <3>1
      <4> QED
        BY Zenon, <4>2, <4>3, <4>4
    <3>3. data'[dir[p]] = data[dir[p]] /\ synced'[dir[p]] = synced[dir[p]]
      <4>1. \E n \in Names : dir[p] \in {dir'[n], disk[n]}
        BY <3>2
      <4> QED
        BY Zenon, <3>1, <3>2, <4>1 DEF Freed
    <3>4. disk[Target] # None =>
            /\ data'[disk[Target]] = data[disk[Target]]
            /\ synced'[disk[Target]] = synced[disk[Target]]
      BY <3>1, FreedKeeps
    <3> QED
      BY Zenon, <3>1, <3>2, <3>3, <3>4
  <2> QED
    BY Zenon, <2>1, <2>2
<1>7. ASSUME NEW p \in Procs, Cleanup(p) PROVE WholeInv'
  <2>1. dir \in [Names -> Inodes \cup {None}] /\ Target \in Names /\ p # Target
    BY Zenon, <1>7 DEF TypeOK
  <2>2. dir'[Target] = dir[Target]
    <3>1. dir' = dir \/ dir' = [dir EXCEPT ![p] = None]
      BY Zenon, <1>7 DEF Cleanup
    <3>2. [dir EXCEPT ![p] = None][Target] = dir[Target]
      BY Zenon, <2>1, OtherEntry
    <3> QED
      BY Zenon, <3>1, <3>2
  <2> QED
    BY Zenon, <1>7, <1>a, <2>2, WholeFreed DEF Cleanup
<1>8. ASSUME NEW p \in Procs, DirOpen(p) PROVE WholeInv'
  BY <1>8 DEF DirOpen, Goto
<1>9. ASSUME NEW p \in Procs, DirFsync(p) PROVE WholeInv'
  <2>1. CASE DirToDisk
    BY Zenon, <1>9, <1>a, <2>1, WholeFreed DEF DirFsync, DirToDisk
  <2>2. CASE UNCHANGED <<disk, data, synced, safe>>
    BY Zenon, <1>9, <2>2 DEF DirFsync
  <2> QED
    BY Zenon, <1>9, <2>1, <2>2 DEF DirFsync
<1>10. ASSUME NEW p \in Procs, DirClose(p) PROVE WholeInv'
  BY Zenon, <1>10 DEF DirClose, Goto
<1>11. ASSUME NEW p \in Procs, ReturnOrDie(p) PROVE WholeInv'
  BY Zenon, <1>11 DEF ReturnOrDie, Goto
<1>12. ASSUME NEW ino \in Inodes, WriteBack(ino) PROVE WholeInv'
  BY <1>12 DEF WriteBack, Goto
<1>13. CASE WriteBackDir
  BY Zenon, <1>13, <1>a, WholeFreed DEF WriteBackDir, DirToDisk
<1>14. CASE PowerLoss
  <2>1. /\ dir' = disk /\ disk' = disk
        /\ data' = Freed(synced, disk, disk) /\ synced' = data'
    BY Zenon, <1>14 DEF PowerLoss
  <2>2. disk[Target] \in Inodes \cup {None} /\ Target \in Names
    BY Zenon DEF TypeOK
  <2>3. disk[Target] # None => data'[disk[Target]] = synced[disk[Target]]
    BY Zenon, <2>1, <2>2 DEF Freed
  <2> QED
    BY Zenon, <2>1, <2>3
<1>15. CASE UNCHANGED vars
  BY Zenon, <1>15 DEF vars
<1> QED
  BY Zenon, <1>1, <1>2, <1>3, <1>4, <1>5, <1>6, <1>7, <1>8, <1>9, <1>10, <1>11, <1>12, <1>13, <1>14, <1>15 DEF Next, Step

\* Every call keeps what it has achieved, whatever the others do.
LEMMA CallStep ==
  IInv /\ [Next]_vars => CallInv'
<1> SUFFICES ASSUME IInv, [Next]_vars
             PROVE  CallInv'
  OBVIOUS
<1>a. ASSUME DirToDisk, dir' = dir, NEW q \in Procs, pc[q] \in {"fsync", "close", "rename"}
      PROVE  data'[dir'[q]] = data[dir[q]] /\ synced'[dir'[q]] = synced[dir[q]]
  <2>1. q \in Names /\ dir[q] # None
    BY Zenon, <1>a DEF IInv, TypeOK
  <2>2. dir[q] \in Inodes
    BY Zenon, <2>1 DEF IInv, TypeOK
  <2> QED
    BY Zenon, <1>a, <2>1, <2>2 DEF DirToDisk, Freed
<1> USE DEF IInv, TypeOK, NameInv, CallInv, WholeOnDisk, Pcs
<1>1. ASSUME NEW p \in Procs, NEW v \in Values, Call(p, v) PROVE CallInv'
  BY <1>1 DEF Call, Goto
<1>2. ASSUME NEW p \in Procs, Open(p) PROVE CallInv'
  BY <1>2 DEF Open, Goto, Unused
<1>3. ASSUME NEW p \in Procs, Write(p) PROVE CallInv'
  BY <1>3 DEF Write, FailIn, Goto
<1>4. ASSUME NEW p \in Procs, Fsync(p) PROVE CallInv'
  BY <1>4 DEF Fsync, FailIn, Goto
<1>5. ASSUME NEW p \in Procs, Close(p) PROVE CallInv'
  BY <1>5 DEF Close, FailIn, Goto
<1>6. ASSUME NEW p \in Procs, Rename(p) PROVE CallInv'
  BY <1>6, FreedKeeps DEF Rename, FailIn, Goto, TypeOK
<1>7. ASSUME NEW p \in Procs, Cleanup(p) PROVE CallInv'
  BY <1>7, FreedKeeps DEF Cleanup, Goto, TypeOK
<1>8. ASSUME NEW p \in Procs, DirOpen(p) PROVE CallInv'
  BY <1>8 DEF DirOpen, Goto
<1>9. ASSUME NEW p \in Procs, DirFsync(p) PROVE CallInv'
  BY <1>9, FreedKeeps DEF DirFsync, DirToDisk, Goto, TypeOK
<1>10. ASSUME NEW p \in Procs, DirClose(p) PROVE CallInv'
  BY <1>10 DEF DirClose, Goto
<1>11. ASSUME NEW p \in Procs, ReturnOrDie(p) PROVE CallInv'
  BY SMTT(60), <1>11 DEF ReturnOrDie, Goto
<1>12. ASSUME NEW ino \in Inodes, WriteBack(ino) PROVE CallInv'
  BY <1>12 DEF WriteBack, Goto
<1>13. CASE WriteBackDir
  <2>1. /\ DirToDisk /\ UNCHANGED <<pc, val, dir>>
        /\ safe' = safe \cup {q \in Procs : pc[q] \in {"dir_open", "dir_fsync", "dir_close"}}
    BY Zenon, <1>13 DEF WriteBackDir, DirToDisk
  <2>2. \A q \in Procs : pc'[q] = "fsync" => data'[dir'[q]] = [v |-> val'[q], len |-> Blocks]
    BY Zenon, <1>a, <2>1
  <2>3. \A q \in Procs : pc'[q] \in {"close", "rename"} =>
          WholeOnDisk(dir[q])' /\ data'[dir'[q]].v = val'[q]
    BY Zenon, <1>a, <2>1
  <2>4. \A q \in Procs :
          /\ q \in safe' => pc'[q] \in {"dir_open", "dir_fsync", "dir_close", "ok", "error"}
          /\ pc'[q] = "dir_close" => q \in safe'
    BY Zenon, <2>1
  <2> QED
    BY Zenon, <2>2, <2>3, <2>4
<1>14. CASE PowerLoss
  BY Zenon, <1>14, FreedKeeps DEF PowerLoss, Goto, TypeOK
<1>15. CASE UNCHANGED vars
  BY Zenon, <1>15 DEF vars
<1> QED
  BY Zenon, <1>1, <1>2, <1>3, <1>4, <1>5, <1>6, <1>7, <1>8, <1>9, <1>10, <1>11, <1>12, <1>13, <1>14, <1>15 DEF Next, Step

\* The invariant holds initially and in every reachable state.
LEMMA IInvAlways == Spec => []IInv
<1>1. Init => IInv
  BY EmptyType DEF Init, IInv, TypeOK, Pcs, OptValue, NameInv, WholeInv, CallInv
<1>2. IInv /\ [Next]_vars => IInv'
  BY TypeStep, NameStep, WholeStep, CallStep DEF IInv
<1> QED
  BY <1>1, <1>2, PTL DEF Spec

\* The types hold, and a call between open and rename has its temporary file.
THEOREM TypeCorrect == Spec => []TypeOK
BY IInvAlways, PTL DEF IInv

\* What a whole and synced target yields is a value, the same in the cache
\* and on the disk, never a part of one.
LEMMA ReadWhole ==
  ASSUME TypeOK, WholeInv
  PROVE  Read(dir, data) # Partial /\ Read(disk, synced) # Partial
<1>1. ASSUME NEW d \in {dir, disk}, d[Target] # None
      PROVE  /\ data[d[Target]] \in Contents /\ synced[d[Target]] \in Contents
             /\ WholeOnDisk(d[Target])
  BY <1>1 DEF TypeOK, WholeInv
<1> QED
  BY Zenon, <1>1 DEF Read, WholeOnDisk, Contents, OptValue

\* "Readers never observe partial JSON", whichever processes write the file,
\* are killed or fail while they do, and whenever the power goes.
THEOREM NoPartialFile == Spec => []TargetIsWhole
<1>1. IInv => TargetIsWhole
  BY ReadWhole DEF IInv, TargetIsWhole
<1> QED
  BY <1>1, IInvAlways, PTL
-----------------------------------------------------------------------------
\* What a reader finds does not change when the inodes without a name are freed.
LEMMA FreedRead ==
  ASSUME NEW c, NEW d, NEW dd, NEW x \in [Names -> Inodes \cup {None}],
         x[Target] \in {d[Target], dd[Target]}
  PROVE  Read(x, Freed(c, d, dd)) = Read(x, c)
<1>1. Target \in Names
  OBVIOUS
<1>2. x[Target] # None => x[Target] \in Inodes
  BY Zenon, <1>1
<1>3. x[Target] # None => Freed(c, d, dd)[x[Target]] = c[x[Target]]
  <2>1. \E n \in Names : x[Target] \in {d[n], dd[n]}
    BY Zenon, <1>1
  <2> QED
    BY Zenon, <1>2, <2>1 DEF Freed
<1> QED
  BY Zenon, <1>3 DEF Read

\* What readers find, or would find after a power loss, changes only when
\* Target gets another inode.
ReadKept ==
  /\ dir'[Target] = dir[Target] => Read(dir, data)' = Read(dir, data)
  /\ disk'[Target] = disk[Target] => Read(disk, synced)' = Read(disk, synced)

\* So it is for the steps that free inodes.
LEMMA FreeingKeeps ==
  ASSUME TypeOK', data' = Freed(data, dir', disk'), synced' = Freed(synced, dir', disk')
  PROVE  ReadKept
<1>1. dir' \in [Names -> Inodes \cup {None}] /\ disk' \in [Names -> Inodes \cup {None}]
  BY Zenon DEF TypeOK
<1>2. Read(dir', data') = Read(dir', data) /\ Read(disk', synced') = Read(disk', synced)
  <2>1. Read(dir', Freed(data, dir', disk')) = Read(dir', data)
    BY <1>1, FreedRead
  <2>2. Read(disk', Freed(synced, dir', disk')) = Read(disk', synced)
    BY <1>1, FreedRead
  <2> QED
    BY Zenon, <2>1, <2>2
<1>3. dir'[Target] = dir[Target] => Read(dir', data) = Read(dir, data)
  BY Zenon DEF Read
<1>4. disk'[Target] = disk[Target] => Read(disk', synced) = Read(disk, synced)
  BY Zenon DEF Read
<1>5. Read(dir, data)' = Read(dir', data') /\ Read(disk, synced)' = Read(disk', synced')
  BY Zenon DEF Read
<1> QED
  BY Zenon, <1>2, <1>3, <1>4, <1>5 DEF ReadKept

\* And for the steps that change one inode of the cache or the disk.
LEMMA OtherInode ==
  ASSUME dir[Target] # None => data'[dir[Target]] = data[dir[Target]],
         disk[Target] # None => synced'[disk[Target]] = synced[disk[Target]]
  PROVE  ReadKept
BY Zenon DEF ReadKept, Read

\* So it is for every step.
LEMMA ReadStep ==
  ASSUME IInv, [Next]_vars
  PROVE  ReadKept
<1>a. TypeOK /\ NameInv /\ WholeInv /\ TypeOK'
  BY Zenon, TypeStep DEF IInv
<1>b. Target \in Names /\ \A p \in Procs : p # Target /\ p \in Names
  BY Zenon
<1>1. ASSUME UNCHANGED <<dir, data, disk, synced>> PROVE ReadKept
  BY Zenon, <1>1 DEF ReadKept, Read
<1>2. ASSUME NEW p \in Procs, Open(p) PROVE ReadKept
  <2>1. CASE UNCHANGED cache
    BY Zenon, <1>1, <1>2, <2>1 DEF Open
  <2>2. CASE ~UNCHANGED cache
    <3>1. PICK ino \in Inodes : /\ IF dir[p] = None THEN Unused(ino) ELSE ino = dir[p]
                                /\ data' = [data EXCEPT ![ino] = Empty]
      BY Zenon, <1>2, <2>2 DEF Open
    <3>2. dir[Target] # ino
      BY Zenon, <1>a, <1>b, <3>1 DEF NameInv, Unused
    <3>3. data \in [Inodes -> Contents] /\ dir[Target] \in Inodes \cup {None}
      BY Zenon, <1>a, <1>b DEF TypeOK
    <3>4. dir[Target] # None => data'[dir[Target]] = data[dir[Target]]
      BY Zenon, <3>1, <3>2, <3>3
    <3> QED
      BY Zenon, <1>2, <3>4, OtherInode DEF Open
  <2> QED
    BY Zenon, <2>1, <2>2
<1>3. ASSUME NEW p \in Procs, Write(p) PROVE ReadKept
  <2>1. CASE FailIn(p)
    BY Zenon, <1>1, <2>1 DEF FailIn
  <2>2. CASE ~FailIn(p)
    <3>1. PICK x : data' = [data EXCEPT ![dir[p]] = x]
      BY Zenon, <1>3, <2>2 DEF Write
    <3>2. dir[p] # None /\ data \in [Inodes -> Contents] /\ dir[Target] \in Inodes \cup {None}
      BY Zenon, <1>a, <1>b, <1>3 DEF TypeOK, Write
    <3>3. dir[Target] # dir[p]
      BY Zenon, <1>a, <1>b, <3>2 DEF NameInv
    <3>4. dir[Target] # None => data'[dir[Target]] = data[dir[Target]]
      BY Zenon, <3>1, <3>2, <3>3
    <3>5. synced' = synced
      BY Zenon, <1>3, <2>2 DEF Write
    <3> QED
      BY Zenon, <3>4, <3>5, OtherInode
  <2> QED
    BY Zenon, <2>1, <2>2
<1>4. ASSUME NEW p \in Procs, Fsync(p) PROVE ReadKept
  <2>1. CASE FailIn(p)
    BY Zenon, <1>1, <2>1 DEF FailIn
  <2>2. CASE ~FailIn(p)
    <3>1. synced' = [synced EXCEPT ![dir[p]] = data[dir[p]]] /\ data' = data
      BY Zenon, <1>4, <2>2 DEF Fsync
    <3>2. dir[p] # None /\ synced \in [Inodes -> Contents] /\ disk[Target] \in Inodes \cup {None}
      BY Zenon, <1>a, <1>b, <1>4 DEF TypeOK, Fsync
    <3>3. disk[Target] # dir[p]
      BY Zenon, <1>a, <1>b, <3>2 DEF NameInv
    <3>4. disk[Target] # None => synced'[disk[Target]] = synced[disk[Target]]
      BY Zenon, <3>1, <3>2, <3>3
    <3> QED
      BY Zenon, <3>1, <3>4, OtherInode
  <2> QED
    BY Zenon, <2>1, <2>2
<1>5. ASSUME NEW p \in Procs, Rename(p) PROVE ReadKept
  <2>1. CASE FailIn(p)
    BY Zenon, <1>1, <2>1 DEF FailIn
  <2>2. CASE ~FailIn(p)
    BY Zenon, <1>a, <1>5, <2>2, FreeingKeeps DEF Rename
  <2> QED
    BY Zenon, <2>1, <2>2
<1>6. ASSUME NEW p \in Procs, Cleanup(p) PROVE ReadKept
  BY Zenon, <1>a, <1>6, FreeingKeeps DEF Cleanup
<1>7. ASSUME DirToDisk, dir' = dir PROVE ReadKept
  BY Zenon, <1>a, <1>7, FreeingKeeps DEF DirToDisk
<1>8. ASSUME NEW p \in Procs, DirFsync(p) PROVE ReadKept
  BY Zenon, <1>1, <1>7, <1>8 DEF DirFsync
<1>9. ASSUME NEW ino \in Inodes, WriteBack(ino) PROVE ReadKept
  <2>1. synced' = [synced EXCEPT ![ino] = data[ino]] /\ data' = data
    BY Zenon, <1>9 DEF WriteBack
  <2>2. synced \in [Inodes -> Contents] /\ disk[Target] \in Inodes \cup {None}
    BY Zenon, <1>a, <1>b DEF TypeOK
  <2>3. disk[Target] # None => data[disk[Target]] = synced[disk[Target]]
    BY Zenon, <1>a DEF WholeInv, WholeOnDisk
  <2>4. disk[Target] # None => synced'[disk[Target]] = synced[disk[Target]]
    BY Zenon, <2>1, <2>2, <2>3
  <2> QED
    BY Zenon, <2>1, <2>4, OtherInode
<1>10. CASE PowerLoss
  <2>1. /\ dir' = disk /\ disk' = disk
        /\ data' = Freed(synced, disk, disk) /\ synced' = Freed(synced, disk, disk)
    BY Zenon, <1>10 DEF PowerLoss
  <2>2. Read(disk, Freed(synced, disk, disk)) = Read(disk, synced)
    <3>1. disk \in [Names -> Inodes \cup {None}]
      BY Zenon, <1>a DEF TypeOK
    <3> QED
      BY <3>1, FreedRead
  <2>3. dir[Target] # None => synced[dir[Target]] = data[dir[Target]]
    BY Zenon, <1>a DEF WholeInv, WholeOnDisk
  <2>4. disk[Target] = dir[Target] => Read(disk, synced) = Read(dir, data)
    BY Zenon, <2>3 DEF Read
  <2>5. Read(dir, data)' = Read(dir', data') /\ Read(disk, synced)' = Read(disk', synced')
    BY Zenon DEF Read
  <2> QED
    BY Zenon, <2>1, <2>2, <2>4, <2>5 DEF ReadKept
<1>11. ASSUME NEW p \in Procs,
              (\E v \in Values : Call(p, v)) \/ Close(p) \/ DirOpen(p) \/ DirClose(p) \/ ReturnOrDie(p)
       PROVE  ReadKept
  BY Zenon, <1>1, <1>11 DEF Call, Close, FailIn, DirOpen, DirClose, ReturnOrDie
<1>12. CASE WriteBackDir
  BY Zenon, <1>7, <1>12 DEF WriteBackDir
<1>13. CASE UNCHANGED vars
  BY Zenon, <1>1, <1>13 DEF vars
<1> QED
  BY Zenon, <1>2, <1>3, <1>4, <1>5, <1>6, <1>8, <1>9, <1>10, <1>11, <1>12, <1>13 DEF Next, Step

\* Every system call is a step of the register or leaves it alone.
LEMMA RegisterStep ==
  ASSUME IInv, [Next]_vars
  PROVE  Register!Next \/ UNCHANGED Register!vars
<1> DEFINE status == [q \in Procs |-> Status(q)]
           vis == Read(dir, data)
           dur == Read(disk, synced)
           Goal == Register!Next \/ UNCHANGED Register!vars
<1>a. /\ dir'[Target] = dir[Target] => vis' = vis
      /\ disk'[Target] = disk[Target] => dur' = dur
  BY ReadStep DEF ReadKept
<1>b. ASSUME vis' = vis, dur' = dur, status' = status, val' = val
      PROVE  Goal
  BY <1>b DEF Register!vars
<1>c. ASSUME NEW p \in Procs, status[p] \in {"writing", "committed", "safe"},
             status' = [status EXCEPT ![p] = "error"],
             vis' = vis, dur' = dur, val' = val
      PROVE  Goal
  BY Zenon, <1>c DEF Register!Next, Register!Fail
<1>d. ASSUME dur' = vis, vis' = vis, val' = val,
             status' = [q \in Procs |-> IF status[q] = "committed" THEN "safe" ELSE status[q]]
      PROVE  Goal
  BY <1>d DEF Register!Next, Register!Sync
<1>e. ASSUME NEW p \in Procs, FailIn(p),
             pc[p] \in {"write", "fsync", "close", "rename"}
      PROVE  Goal
  <2>1. vis' = vis /\ dur' = dur /\ val' = val
    BY Zenon, <1>a, <1>e DEF FailIn
  <2>2. status' = status
    BY <1>e DEF FailIn, Goto, Status, IInv, TypeOK
  <2> QED
    BY <1>b, <2>1, <2>2
<1> HIDE DEF Goal
<1> USE DEF Goto, Status, IInv, TypeOK
<1>1. ASSUME NEW p \in Procs, NEW v \in Values, Call(p, v) PROVE Goal
  <2>1. vis' = vis /\ dur' = dur /\ val' = [val EXCEPT ![p] = v]
    BY <1>a, <1>1 DEF Call
  <2>2. status[p] = "idle" /\ status' = [status EXCEPT ![p] = "writing"]
    BY Zenon, <1>1 DEF Call
  <2> QED
    BY Zenon, <2>1, <2>2 DEF Register!Next, Register!Invoke, Goal
<1>2. ASSUME NEW p \in Procs, Open(p) PROVE Goal
  <2>1. vis' = vis /\ dur' = dur /\ val' = val
    BY <1>a, <1>2 DEF Open
  <2>2. CASE pc'[p] = "write"
    BY <1>2, <1>b, <2>1, <2>2 DEF Open
  <2>3. CASE pc'[p] = "error"
    <3>1. status[p] = "writing" /\ status' = [status EXCEPT ![p] = "error"]
      BY Zenon, <1>2, <2>3 DEF Open
    <3> QED
      BY <1>c, <2>1, <3>1
  <2> QED
    BY <1>2, <2>2, <2>3 DEF Open
<1>3. ASSUME NEW p \in Procs, Write(p) PROVE Goal
  <2>1. CASE FailIn(p)
    BY <1>3, <1>e, <2>1 DEF Write
  <2>2. CASE ~FailIn(p)
    <3>1. vis' = vis /\ dur' = dur /\ val' = val
      BY Zenon, <1>a, <1>3, <2>2 DEF Write
    <3>2. status' = status
      BY <1>3, <2>2 DEF Write
    <3> QED
      BY <1>b, <3>1, <3>2
  <2> QED
    BY <2>1, <2>2
<1>4. ASSUME NEW p \in Procs, Fsync(p) PROVE Goal
  <2>1. CASE FailIn(p)
    BY <1>4, <1>e, <2>1 DEF Fsync
  <2>2. CASE ~FailIn(p)
    <3>1. vis' = vis /\ dur' = dur /\ val' = val
      BY Zenon, <1>a, <1>4, <2>2 DEF Fsync
    <3>2. status' = status
      BY <1>4, <2>2 DEF Fsync
    <3> QED
      BY <1>b, <3>1, <3>2
  <2> QED
    BY <2>1, <2>2
<1>5. ASSUME NEW p \in Procs, Close(p) PROVE Goal
  <2>1. CASE FailIn(p)
    BY <1>5, <1>e, <2>1 DEF Close
  <2>2. CASE ~FailIn(p)
    <3>1. vis' = vis /\ dur' = dur /\ val' = val
      BY <1>a, <1>5, <2>2 DEF Close
    <3>2. status' = status
      BY <1>5, <2>2 DEF Close
    <3> QED
      BY <1>b, <3>1, <3>2
  <2> QED
    BY <2>1, <2>2
<1>6. ASSUME NEW p \in Procs, Rename(p) PROVE Goal
  <2>1. CASE FailIn(p)
    BY <1>6, <1>e, <2>1 DEF Rename
  <2>2. CASE ~FailIn(p)
    <3>1. dur' = dur /\ val' = val
      BY Zenon, <1>a, <1>6, <2>2 DEF Rename
    <3>2. status[p] = "writing" /\ status' = [status EXCEPT ![p] = "committed"]
      <4>1. pc[p] = "rename" /\ pc' = [pc EXCEPT ![p] = "dir_open"] /\ safe' = safe
        BY <1>6, <2>2 DEF Rename
      <4>2. p \notin safe
        BY Zenon, <4>1 DEF CallInv
      <4> QED
        BY ZenonT(60), <4>1, <4>2
    <3>3. vis' = val[p]
      <4>1. pc[p] = "rename" /\ dir' = [dir EXCEPT ![Target] = dir[p], ![p] = None]
            /\ data' = Freed(data, dir', disk)
        BY Zenon, <1>6, <2>2 DEF Rename
      <4>2. data[dir[p]].len = Blocks /\ data[dir[p]].v = val[p]
        BY Zenon, <4>1 DEF CallInv, WholeOnDisk
      <4>3. dir[p] \in Inodes /\ dir'[Target] = dir[p]
        BY <4>1
      <4>4. \E n \in Names : dir[p] \in {dir'[n], disk[n]}
        BY Zenon, <4>3
      <4>5. data'[dir[p]] = data[dir[p]]
        BY <4>1, <4>3, <4>4 DEF Freed
      <4> QED
        BY Zenon, <4>2, <4>3, <4>5 DEF Read
    <3> QED
      BY Zenon, <3>1, <3>2, <3>3 DEF Register!Next, Register!Commit, Goal
  <2> QED
    BY <2>1, <2>2
<1>7. ASSUME NEW p \in Procs, Cleanup(p) PROVE Goal
  <2>1. vis' = vis /\ dur' = dur /\ val' = val
    BY <1>a, <1>7 DEF Cleanup
  <2>2. status[p] = "writing" /\ status' = [status EXCEPT ![p] = "error"]
    BY Zenon, <1>7 DEF Cleanup
  <2> QED
    BY <1>c, <2>1, <2>2
<1>8. ASSUME NEW p \in Procs, DirOpen(p) PROVE Goal
  <2>1. vis' = vis /\ dur' = dur /\ val' = val
    BY Zenon, <1>a, <1>8 DEF DirOpen
  <2>2. status[p] \in {"committed", "safe"}
    BY <1>8 DEF DirOpen
  <2>3. status' = status \/ status' = [status EXCEPT ![p] = "error"]
    BY ZenonT(60), <1>8 DEF DirOpen
  <2> QED
    BY <1>b, <1>c, <2>1, <2>2, <2>3
<1>9. ASSUME NEW p \in Procs, DirFsync(p) PROVE Goal
  <2>1. CASE DirToDisk /\ Goto(p, "dir_close")
    <3>1. vis' = vis /\ val' = val
      BY <1>a, <1>9, <2>1 DEF DirFsync
    <3>2. dur' = vis
      <4>1. disk' = dir /\ synced' = Freed(synced, dir, dir)
        BY Zenon, <1>9, <2>1 DEF DirFsync, DirToDisk
      <4>2. dir[Target] # None => synced'[dir[Target]] = data[dir[Target]]
        BY SMTT(60), <4>1, FreedKeeps DEF WholeInv, WholeOnDisk
      <4> QED
        BY Zenon, <4>1, <4>2 DEF Read
    <3>3. status' = [q \in Procs |-> IF status[q] = "committed" THEN "safe" ELSE status[q]]
      BY <1>9, <2>1 DEF DirFsync, DirToDisk
    <3> QED
      BY <1>d, <3>1, <3>2, <3>3
  <2>2. CASE Goto(p, "error") /\ UNCHANGED <<disk, data, synced, safe>>
    <3>1. vis' = vis /\ dur' = dur /\ val' = val
      BY <1>a, <1>9, <2>2 DEF DirFsync
    <3>2. status[p] \in {"committed", "safe"} /\ status' = [status EXCEPT ![p] = "error"]
      BY Zenon, <1>9, <2>2 DEF DirFsync
    <3> QED
      BY <1>c, <3>1, <3>2
  <2> QED
    BY <1>9, <2>1, <2>2 DEF DirFsync
<1>10. ASSUME NEW p \in Procs, DirClose(p) PROVE Goal
  <2>1. vis' = vis /\ dur' = dur /\ val' = val
    BY <1>a, <1>10 DEF DirClose
  <2>2. status[p] = "safe" /\ status' = [status EXCEPT ![p] = "ok"]
    BY ZenonT(60), <1>10 DEF DirClose, CallInv
  <2> QED
    BY Zenon, <2>1, <2>2 DEF Register!Next, Register!Succeed, Goal
<1>11. ASSUME NEW p \in Procs, ReturnOrDie(p) PROVE Goal
  <2>1. vis' = vis /\ dur' = dur /\ val' = [val EXCEPT ![p] = NoValue]
    BY <1>a, <1>11 DEF ReturnOrDie
  <2>2. status' = [status EXCEPT ![p] = "idle"]
    BY Zenon, <1>11 DEF ReturnOrDie
  <2> QED
    BY Zenon, <2>1, <2>2 DEF Register!Next, Register!Leave, Goal
<1>12. ASSUME NEW ino \in Inodes, WriteBack(ino) PROVE Goal
  <2>1. vis' = vis /\ dur' = dur /\ val' = val
    BY <1>a, <1>12 DEF WriteBack
  <2>2. status' = status
    BY <1>12 DEF WriteBack
  <2> QED
    BY <1>b, <2>1, <2>2
<1>13. ASSUME WriteBackDir PROVE Goal
  <2>1. vis' = vis /\ val' = val
    BY <1>a, <1>13 DEF WriteBackDir
  <2>2. dur' = vis
    <3>1. disk' = dir /\ synced' = Freed(synced, dir, dir)
      BY <1>13 DEF WriteBackDir, DirToDisk
    <3>2. dir[Target] # None => synced'[dir[Target]] = data[dir[Target]]
      BY <3>1, FreedKeeps DEF WholeInv, WholeOnDisk
    <3> QED
      BY Zenon, <3>1, <3>2 DEF Read
  <2>3. status' = [q \in Procs |-> IF status[q] = "committed" THEN "safe" ELSE status[q]]
    BY <1>13 DEF WriteBackDir, DirToDisk
  <2> QED
    BY <1>d, <2>1, <2>2, <2>3
<1>14. ASSUME PowerLoss PROVE Goal
  <2>1. disk' = disk /\ dir' = disk /\ data' = Freed(synced, disk, disk)
    BY <1>14 DEF PowerLoss
  <2>2. dur' = dur
    BY <1>a, <2>1
  <2>3. vis' = dur
    <3>1. disk[Target] # None => data'[disk[Target]] = synced[disk[Target]]
      BY <2>1, FreedKeeps
    <3> QED
      BY Zenon, <2>1, <3>1 DEF Read
  <2>4. val' = [p \in Procs |-> NoValue] /\ status' = [p \in Procs |-> "idle"]
    BY <1>14 DEF PowerLoss
  <2> QED
    BY <2>2, <2>3, <2>4 DEF Register!Next, Register!PowerLoss, Goal
<1>15. ASSUME UNCHANGED vars PROVE Goal
  <2>1. vis' = vis /\ dur' = dur /\ val' = val
    BY <1>a, <1>15 DEF vars
  <2>2. status' = status
    BY <1>15 DEF vars
  <2> QED
    BY <1>b, <2>1, <2>2
<1> QED
  BY <1>1, <1>2, <1>3, <1>4, <1>5, <1>6, <1>7, <1>8, <1>9, <1>10, <1>11, <1>12, <1>13, <1>14, <1>15 DEF Next, Step, Goal

\* atomic_write_file is an atomic, durable write of the whole file: it takes
\* effect at the rename or not at all, and success means it is on the disk.
THEOREM ImplementsAtomicWrite == Spec => ImplementsRegister
<1>1. Init => Register!Init
  BY DEF Init, Register!Init, Read, Status
<1>2. IInv /\ [Next]_vars => [Register!Next]_(Register!vars)
  BY RegisterStep
<1> QED
  BY <1>1, <1>2, IInvAlways, PTL DEF Spec, ImplementsRegister, Register!Spec
=============================================================================
