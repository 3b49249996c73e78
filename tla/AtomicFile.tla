----------------------------- MODULE AtomicFile -----------------------------
(***************************************************************************)
(* atomic_write_file (src/atomic_file.cpp), system call by system call, on *)
(* a file system that keeps changes in a cache until it is told to sync or *)
(* feels like it.  Several processes may write the same target (the daemon *)
(* and an edge-healthd --once beside it), each through a temporary file of *)
(* its own, named after its pid.  They can be killed anywhere; a power     *)
(* loss leaves what is on the disk.                                        *)
(*                                                                         *)
(* A file's content is [v, len]: len of the Blocks blocks of value v.  The *)
(* directory maps the temporary name of p, and Target, to an inode.        *)
(***************************************************************************)
EXTENDS Naturals

CONSTANTS
  Procs,      \* processes (pids) that write the file
  Values,     \* contents they write
  Inodes,
  Blocks,     \* how many blocks a content has
  Target,     \* the name of the file
  None,       \* no inode
  NoValue,    \* the file does not exist
  Partial     \* the file exists with less than a whole value in it

Names == Procs \cup {Target}
OptValue == Values \cup {NoValue}
Contents == [v : OptValue, len : 0..Blocks]
Empty == [v |-> NoValue, len |-> 0]

ASSUME FileAssumption ==
  /\ Target \notin Procs
  /\ None \notin Inodes
  /\ NoValue \notin Values /\ Partial \notin OptValue
  /\ Blocks \in Nat \ {0}

VARIABLES
  pc,         \* where the call of each process is
  val,        \* content: the value being written
  dir, disk,  \* the directory as processes see it, and as it is on the disk
  data,       \* what the inodes hold, as processes see it,
  synced,     \*   and on the disk
  safe        \* history: processes whose rename is on the disk

calls == <<pc, val, safe>>
cache == <<dir, data>>
vars == <<calls, cache, disk, synced>>

Init ==
  /\ pc = [p \in Procs |-> "idle"]
  /\ val = [p \in Procs |-> NoValue]
  /\ dir = [n \in Names |-> None] /\ disk = dir
  /\ data = [ino \in Inodes |-> Empty] /\ synced = data
  /\ safe = {}

\* The inodes that no name leads to any more are freed.
Freed(content, d, dd) ==
  [ino \in Inodes |->
     IF \E n \in Names : ino \in {d[n], dd[n]} THEN content[ino] ELSE Empty]

Goto(p, l) == pc' = [pc EXCEPT ![p] = l]

\* fail(): any failure before the rename goes there
FailIn(p) == Goto(p, "cleanup") /\ UNCHANGED <<val, safe, cache, disk, synced>>
-----------------------------------------------------------------------------
\* A caller (SnapshotWriter, save_boot_state, AcknowledgeCrash) starts.
Call(p, v) ==
  /\ pc[p] = "idle"
  /\ Goto(p, "open")
  /\ val' = [val EXCEPT ![p] = v]
  /\ UNCHANGED <<safe, cache, disk, synced>>

Unused(ino) == \A n \in Names : dir[n] # ino /\ disk[n] # ino

\* open(tmp, O_CREAT | O_TRUNC): a new inode, or the one a killed process
\* with the same pid has left behind, or an error.
Open(p) ==
  /\ pc[p] = "open"
  /\ \/ /\ Goto(p, "write")
        /\ \E ino \in Inodes :
             /\ IF dir[p] = None THEN Unused(ino) ELSE ino = dir[p]
             /\ dir' = [dir EXCEPT ![p] = ino]
             /\ data' = [data EXCEPT ![ino] = Empty]
     \/ Goto(p, "error") /\ UNCHANGED cache
  /\ UNCHANGED <<val, safe, disk, synced>>

\* One turn of the write loop: some more blocks, or an error (EINTR is a
\* turn without effect).
Write(p) ==
  /\ pc[p] = "write"
  /\ \/ \E len \in 1..Blocks :
          /\ len > data[dir[p]].len
          /\ data' = [data EXCEPT ![dir[p]] = [v |-> val[p], len |-> len]]
          /\ Goto(p, IF len = Blocks THEN "fsync" ELSE "write")
          /\ UNCHANGED <<val, safe, dir, disk, synced>>
     \/ FailIn(p)

Fsync(p) ==
  /\ pc[p] = "fsync"
  /\ \/ /\ synced' = [synced EXCEPT ![dir[p]] = data[dir[p]]]
        /\ Goto(p, "close")
        /\ UNCHANGED <<val, safe, cache, disk>>
     \/ FailIn(p)

Close(p) ==
  /\ pc[p] = "close"
  /\ \/ Goto(p, "rename") /\ UNCHANGED <<val, safe, cache, disk, synced>>
     \/ FailIn(p)

Rename(p) ==
  /\ pc[p] = "rename"
  /\ \/ /\ dir' = [dir EXCEPT ![Target] = dir[p], ![p] = None]
        /\ data' = Freed(data, dir', disk) /\ synced' = Freed(synced, dir', disk)
        /\ Goto(p, "dir_open")
        /\ UNCHANGED <<val, safe, disk>>
     \/ FailIn(p)

\* fs::remove(tmp, ec); its own error is ignored
Cleanup(p) ==
  /\ pc[p] = "cleanup"
  /\ Goto(p, "error")
  /\ dir' \in {dir, [dir EXCEPT ![p] = None]}
  /\ data' = Freed(data, dir', disk) /\ synced' = Freed(synced, dir', disk)
  /\ UNCHANGED <<val, safe, disk>>

\* After the rename an error is only reported.
DirOpen(p) ==
  /\ pc[p] = "dir_open"
  /\ Goto(p, "dir_fsync") \/ Goto(p, "error")
  /\ UNCHANGED <<val, safe, cache, disk, synced>>

\* The directory as it is goes to the disk.
DirToDisk ==
  /\ disk' = dir
  /\ data' = Freed(data, dir, dir) /\ synced' = Freed(synced, dir, dir)
  /\ safe' = safe \cup
               {p \in Procs : pc[p] \in {"dir_open", "dir_fsync", "dir_close"}}

\* Mutant: the directory is opened and closed, not synced.
DirFsyncSkipped(p) ==
  /\ pc[p] = "dir_fsync"
  /\ Goto(p, "dir_close")
  /\ UNCHANGED <<val, safe, cache, disk, synced>>

DirFsync(p) ==
  /\ pc[p] = "dir_fsync"
  /\ \/ DirToDisk /\ Goto(p, "dir_close")
     \/ Goto(p, "error") /\ UNCHANGED <<disk, data, synced, safe>>
  /\ UNCHANGED <<val, dir>>

DirClose(p) ==
  /\ pc[p] = "dir_close"
  /\ Goto(p, "ok")
  /\ UNCHANGED <<val, safe, cache, disk, synced>>

\* The call returns, or the process is killed somewhere in it.
ReturnOrDie(p) ==
  /\ pc[p] # "idle"
  /\ Goto(p, "idle")
  /\ val' = [val EXCEPT ![p] = NoValue]
  /\ safe' = safe \ {p}
  /\ UNCHANGED <<cache, disk, synced>>
-----------------------------------------------------------------------------
(* The file system on its own (external).                                  *)

\* An inode's data, or the directory, is written back when the kernel likes.
WriteBack(ino) ==
  /\ synced' = [synced EXCEPT ![ino] = data[ino]]
  /\ UNCHANGED <<calls, cache, disk>>

WriteBackDir ==
  /\ DirToDisk
  /\ UNCHANGED <<pc, val, dir>>

PowerLoss ==
  /\ dir' = disk
  /\ data' = Freed(synced, disk, disk) /\ synced' = data'
  /\ pc' = [p \in Procs |-> "idle"]
  /\ val' = [p \in Procs |-> NoValue]
  /\ safe' = {}
  /\ UNCHANGED disk

Step(p) ==
  \/ \E v \in Values : Call(p, v)
  \/ Open(p) \/ Write(p) \/ Fsync(p) \/ Close(p) \/ Rename(p) \/ Cleanup(p)
  \/ DirOpen(p) \/ DirFsync(p) \/ DirClose(p) \/ ReturnOrDie(p)

Next ==
  \/ \E p \in Procs : Step(p)
  \/ \E ino \in Inodes : WriteBack(ino)
  \/ WriteBackDir \/ PowerLoss

Spec == Init /\ [][Next]_vars
-----------------------------------------------------------------------------
(* Properties.                                                             *)

Pcs == {"idle", "open", "write", "fsync", "close", "rename", "cleanup",
        "dir_open", "dir_fsync", "dir_close", "ok", "error"}

\* Types; a call between open and rename has its temporary file.
TypeOK ==
  /\ pc \in [Procs -> Pcs]
  /\ val \in [Procs -> OptValue]
  /\ dir \in [Names -> Inodes \cup {None}]
  /\ disk \in [Names -> Inodes \cup {None}]
  /\ data \in [Inodes -> Contents] /\ synced \in [Inodes -> Contents]
  /\ safe \subseteq Procs
  /\ \A p \in Procs :
       pc[p] \in {"write", "fsync", "close", "rename", "cleanup"} => dir[p] # None

\* What following the name Target through a directory and the inodes yields
Read(d, content) ==
  IF d[Target] = None THEN NoValue
  ELSE IF content[d[Target]].len = Blocks THEN content[d[Target]].v ELSE Partial

\* "Readers never observe partial JSON", now or after a power loss: the
\* target's inode is never one that some process is still writing to or has
\* truncated, and its data reached the disk before its name did.
TargetIsWhole ==
  Read(dir, data) # Partial /\ Read(disk, synced) # Partial

\* Where the abstract call is
Status(p) ==
  CASE pc[p] = "idle" -> "idle"
    [] pc[p] \in {"dir_open", "dir_fsync", "dir_close"} ->
         IF p \in safe THEN "safe" ELSE "committed"
    [] pc[p] \in {"ok", "error"} -> pc[p]
    [] OTHER -> "writing"

Register == INSTANCE AtomicRegister WITH
  visible <- Read(dir, data), durable <- Read(disk, synced),
  status <- [p \in Procs |-> Status(p)], arg <- val

\* The system calls implement the register: they take effect at the rename
\* and nowhere else, success is reported only for what survives a power loss,
\* with any number of writers, kills and write-backs in between.
ImplementsRegister == Register!Spec
=============================================================================
