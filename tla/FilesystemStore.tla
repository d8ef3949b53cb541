-------------------------- MODULE FilesystemStore --------------------------
(***************************************************************************)
(* The filesystem adapter (crates/objsds-store-filesystem): get under a    *)
(* shared and create/replace under an exclusive advisory lock of their     *)
(* location, the new object written to a synced temporary file, renamed    *)
(* over the old one and the directory synced.  Any system call may fail,   *)
(* a process may be killed between any two, and the machine may lose       *)
(* power.                                                                  *)
(*                                                                         *)
(* Abstractions.  encode() gives every object a fresh revision, so an      *)
(* object is known by its revision; revision 0 is "no such file".  The     *)
(* temporary file of a write has a name nobody else uses and is known by   *)
(* the revision it holds.  Symbolic links and files put under the root by  *)
(* others are unsupported by the adapter and absent.                       *)
(***************************************************************************)
EXTENDS Integers, FiniteSets

CONSTANTS
    Clients,      \* threads of any number of processes
    Locations,    \* values of type Location
    Paths,        \* object files
    PathOf,       \* the object file of each location
    MaxRevision   \* bound: revisions that are drawn

ASSUME FilesystemAssumption ==
    /\ PathOf \in [Locations -> Paths]
    /\ MaxRevision \in Nat

VARIABLES
    files,     \* the directory entry of each path, as processes see it
    disk,      \* the entries a power loss may leave for each path
    parents,   \* the directory of each path: missing, created or durable
    locks,     \* the clients that hold the lock file of each location
    pc,        \* where each client stands
    call,      \* the local variables of its call
    temps,     \* temporary files
    revision,  \* revisions drawn so far
    visible,   \* history: revisions that were renamed into place
    acked,     \* history: for each path, the last write that returned Ok
               \* in the directory as it is now
    orphans    \* history: temporary files that nobody will remove

vars == <<files, disk, parents, locks, pc, call, temps, revision, visible,
          acked, orphans>>

Temporary == <<temps, orphans>>

----------------------------------------------------------------------------

Revisions == 1..MaxRevision

\* Distinct locations are distinct files: true of the locations that the
\* structure builders make, whose segments are validated one by one.
OneFilePerLocation ==
    \A l, m \in Locations : PathOf[l] = PathOf[m] => l = m

\* A file as the kernel keeps it: its bytes may be in the cache only, and
\* then a power loss tears them.
Entries == [revision : Nat,
            data : {"none", "cached", "synced", "torn"}]

NoFile == [revision |-> 0, data |-> "none"]

Labels == {"idle", "prepare", "lock", "read", "inspect", "write", "sync",
           "rename", "syncdir", "done"}

Calls == [op : {"none", "get", "create", "replace"}, at : Locations,
          expected : Nat, file : Entries,
          result : {"none", "ok", "refused", "error"}, seen : Nat]

Writes == {"create", "replace"}

PathFor(c) == PathOf[call[c].at]

\* The labels at which a call holds its lock.
Locked == {"read", "inspect", "write", "sync", "rename", "syncdir"}

\* Writes that have yet to draw their revision.
Budget == {c \in Clients : /\ call[c].op \in Writes
                           /\ pc[c] \in {"prepare", "lock", "inspect"}}

Goto(c, label) == pc' = [pc EXCEPT ![c] = label]

Unlocked(c) == [l \in Locations |-> locks[l] \ {c}]

\* Faulty variant: an error path that forgets to unlock.
ReturnKeepsLock(c, result, seen) ==
    /\ Goto(c, "done")
    /\ call' = [call EXCEPT ![c].result = result, ![c].seen = seen]
    /\ locks' = IF result = "error" THEN locks ELSE Unlocked(c)

\* The call returns: its lock guard is dropped.
Return(c, result, seen) ==
    /\ Goto(c, "done")
    /\ call' = [call EXCEPT ![c].result = result, ![c].seen = seen]
    /\ locks' = Unlocked(c)

Idle(l) == [op |-> "none", at |-> l, expected |-> 0, file |-> NoFile,
            result |-> "none", seen |-> 0]

Init ==
    /\ files = [p \in Paths |-> NoFile]
    /\ disk = [p \in Paths |-> {NoFile}]
    /\ parents = [p \in Paths |-> "missing"]
    /\ locks = [l \in Locations |-> {}]
    /\ pc = [c \in Clients |-> "idle"]
    /\ \E l \in Locations : call = [c \in Clients |-> Idle(l)]
    /\ temps = {}
    /\ revision = 0
    /\ visible = {}
    /\ acked = [p \in Paths |-> 0]
    /\ orphans = {}

----------------------------------------------------------------------------
(* The calls *)

\* A caller invokes get, create, or replace with a version it has seen.
Start(c) ==
    /\ pc[c] = "idle"
    /\ \E op \in {"get"} \cup Writes, l \in Locations, v \in visible \cup {0} :
         /\ op = "replace" <=> v # 0
         /\ op \in Writes => revision + Cardinality(Budget) < MaxRevision
         /\ call' = [call EXCEPT ![c] = [Idle(l) EXCEPT !.op = op,
                                                        !.expected = v]]
    /\ Goto(c, "prepare")
    /\ UNCHANGED <<files, disk, parents, locks, Temporary, revision, visible,
                   acked>>

\* object_path, or prepare_path, which creates missing directories.
Prepare(c) ==
    /\ pc[c] = "prepare"
    /\ parents' = [parents EXCEPT ![PathFor(c)] =
                     IF call[c].op \in Writes /\ @ = "missing"
                       THEN "created" ELSE @]
    /\ Goto(c, "lock")
    /\ UNCHANGED <<files, disk, locks, call, Temporary, revision, visible,
                   acked>>

\* Faulty variant: writers lock the file in shared mode.
FreeShared(c) == TRUE

\* lock_shared is granted beside other readers, lock_exclusive alone.
Free(c) ==
    IF call[c].op = "get"
      THEN \A d \in locks[call[c].at] : call[d].op = "get"
      ELSE locks[call[c].at] = {}

Acquire(c) ==
    /\ pc[c] = "lock"
    /\ Free(c)
    /\ locks' = [locks EXCEPT ![call[c].at] = @ \cup {c}]
    /\ Goto(c, IF call[c].op = "get" THEN "read" ELSE "inspect")
    /\ UNCHANGED <<files, disk, parents, call, Temporary, revision, visible,
                   acked>>

\* read_path and decode: a missing file is no object, a torn one an error.
Decodes(p) == files[p].data # "torn"

Read(c) ==
    /\ pc[c] = "read"
    /\ IF Decodes(PathFor(c))
         THEN Return(c, "ok", files[PathFor(c)].revision)
         ELSE Return(c, "error", 0)
    /\ UNCHANGED <<files, disk, parents, Temporary, revision, visible, acked>>

\* Faulty variant: replace only checks that there is an object.
MatchesAny(c) == call[c].op = "create" <=> files[PathFor(c)].revision = 0

\* The condition of create and replace on what they read under the lock.
Matches(c) ==
    IF call[c].op = "create"
      THEN files[PathFor(c)].revision = 0
      ELSE files[PathFor(c)].revision = call[c].expected

\* create and replace: read_path and the condition, then encode.
Inspect(c) ==
    /\ pc[c] = "inspect"
    /\ IF Decodes(PathFor(c)) /\ Matches(c)
         THEN /\ revision' = revision + 1
              /\ call' = [call EXCEPT ![c].file = [revision |-> revision + 1,
                                                   data |-> "none"]]
              /\ Goto(c, "write")
              /\ locks' = locks
         ELSE /\ IF Decodes(PathFor(c))
                   THEN Return(c, "refused", files[PathFor(c)].revision)
                   ELSE Return(c, "error", 0)
              /\ revision' = revision
    /\ UNCHANGED <<files, disk, parents, Temporary, visible, acked>>

\* publish: the temporary file is created and written ...
Write(c) ==
    /\ pc[c] = "write"
    /\ call' = [call EXCEPT ![c].file.data = "cached"]
    /\ temps' = temps \cup {call[c].file.revision}
    /\ Goto(c, "sync")
    /\ UNCHANGED <<files, disk, parents, locks, revision, visible, acked,
                   orphans>>

\* Faulty variant: the temporary file is not synced.
SyncNothing(c) ==
    /\ pc[c] = "sync"
    /\ Goto(c, "rename")
    /\ UNCHANGED <<files, disk, parents, locks, call, Temporary, revision, visible,
                   acked>>

\* ... synced ...
Sync(c) ==
    /\ pc[c] = "sync"
    /\ call' = [call EXCEPT ![c].file.data = "synced"]
    /\ Goto(c, "rename")
    /\ UNCHANGED <<files, disk, parents, locks, Temporary, revision, visible,
                   acked>>

\* ... renamed over the object: the write takes effect for other processes,
\* and from now on may or may not survive a power loss ...
Rename(c) ==
    /\ pc[c] = "rename"
    /\ files' = [files EXCEPT ![PathFor(c)] = call[c].file]
    /\ disk' = [disk EXCEPT ![PathFor(c)] = @ \cup {call[c].file}]
    /\ temps' = temps \ {call[c].file.revision}
    /\ visible' = visible \cup {call[c].file.revision}
    /\ Goto(c, "syncdir")
    /\ UNCHANGED <<parents, locks, call, revision, acked, orphans>>

\* Faulty variant: the directory is not synced.
SyncDirNothing(c) ==
    /\ pc[c] = "syncdir"
    /\ acked' = [acked EXCEPT ![PathFor(c)] = call[c].file.revision]
    /\ Return(c, "ok", call[c].file.revision)
    /\ UNCHANGED <<files, disk, parents, Temporary, revision, visible>>

\* ... and the directory that holds the object is synced.
SyncDir(c) ==
    /\ pc[c] = "syncdir"
    /\ disk' = [disk EXCEPT ![PathFor(c)] = {files[PathFor(c)]}]
    /\ acked' = [acked EXCEPT ![PathFor(c)] = call[c].file.revision]
    /\ Return(c, "ok", call[c].file.revision)
    /\ UNCHANGED <<files, parents, Temporary, revision, visible>>

\* A call whose temporary file exists, or may exist, leaves it behind.
Abandon(c) ==
    /\ pc[c] \in {"write", "sync", "rename"}
    /\ temps' = temps \cup {call[c].file.revision}
    /\ orphans' = orphans \cup {call[c].file.revision}

\* Faulty variant: the first failing call of publish returns at once.
FailKeepsTemporary(c) ==
    /\ pc[c] \notin {"idle", "done"}
    /\ Return(c, "error", 0)
    /\ UNCHANGED <<files, disk, parents, Temporary, revision, visible, acked>>

\* Any system call of the operation fails and `?` returns the error; publish
\* removes its temporary file, if remove_file does not fail as well.  After
\* the rename the write stays in place.
Fail(c) ==
    /\ pc[c] \notin {"idle", "done"}
    /\ Return(c, "error", 0)
    /\ \/ Abandon(c)
       \/ /\ temps' = temps \ {call[c].file.revision}
          /\ orphans' = orphans
    /\ UNCHANGED <<files, disk, parents, revision, visible, acked>>

\* The thread is done with its call: no lock of its own is left.
Quit(c) ==
    /\ Goto(c, "idle")
    /\ call' = [call EXCEPT ![c] = Idle(call[c].at)]
    /\ locks' = Unlocked(c)
    /\ UNCHANGED <<files, disk, parents, revision, visible, acked>>

\* The caller takes the result.
Leave(c) == pc[c] = "done" /\ Quit(c) /\ UNCHANGED Temporary

\* Its process is killed: the kernel drops the lock and keeps the files.
Kill(c) ==
    /\ pc[c] \notin {"idle", "done"}
    /\ Quit(c)
    /\ \/ Abandon(c)
       \/ pc[c] \notin {"sync", "rename"} /\ UNCHANGED Temporary

----------------------------------------------------------------------------
(* The kernel and the machine *)

\* Background write-back of an object's directory or of its ancestors, which
\* the adapter creates and never syncs.
WriteBack(p) ==
    /\ \/ disk' = [disk EXCEPT ![p] = {files[p]}] /\ parents' = parents
       \/ /\ parents[p] = "created"
          /\ parents' = [parents EXCEPT ![p] = "durable"]
          /\ disk' = disk
    /\ UNCHANGED <<files, locks, pc, call, Temporary, revision, visible, acked>>

AfterPowerLoss(entry) ==
    IF entry.data = "cached" THEN [entry EXCEPT !.data = "torn"] ELSE entry

\* Every process dies.  The entry of path p is one the disk may hold; a
\* directory that was never written back may be gone, its history with it.
PowerLoss ==
    /\ \E kept \in [Paths -> UNION {disk[p] : p \in Paths}],
          gone \in SUBSET {p \in Paths : parents[p] = "created"} :
         /\ \A p \in Paths : kept[p] \in disk[p]
         /\ files' = [p \in Paths |-> IF p \in gone THEN NoFile
                                      ELSE AfterPowerLoss(kept[p])]
         /\ parents' = [p \in Paths |-> IF p \in gone THEN "missing"
                                        ELSE parents[p]]
         /\ acked' = [p \in Paths |-> IF p \in gone THEN 0 ELSE acked[p]]
    /\ temps' \in SUBSET temps
    /\ orphans' = temps'
    /\ disk' = [p \in Paths |-> {files'[p]}]
    /\ locks' = [l \in Locations |-> {}]
    /\ pc' = [c \in Clients |-> "idle"]
    /\ call' = [c \in Clients |-> Idle(call[c].at)]
    /\ UNCHANGED <<revision, visible>>

----------------------------------------------------------------------------

\* What a client does once its call has started and no system call fails.
Progress(c) ==
    \/ Prepare(c) \/ Acquire(c) \/ Read(c) \/ Inspect(c) \/ Write(c)
    \/ Sync(c) \/ Rename(c) \/ SyncDir(c)

Step(c) == Start(c) \/ Progress(c) \/ Fail(c) \/ Leave(c) \/ Kill(c)

Next ==
    \/ \E c \in Clients : Step(c)
    \/ \E p \in Paths : WriteBack(p)
    \/ PowerLoss

Spec == Init /\ [][Next]_vars

\* A started call keeps running: its system calls return.
FairSpec == Spec /\ \A c \in Clients : WF_vars(Progress(c))

----------------------------------------------------------------------------
(* Properties *)

\* Types of the adapter's state.
TypeOK ==
    /\ files \in [Paths -> Entries]
    /\ disk \in [Paths -> SUBSET Entries]
    /\ parents \in [Paths -> {"missing", "created", "durable"}]
    /\ locks \in [Locations -> SUBSET Clients]
    /\ pc \in [Clients -> Labels]
    /\ call \in [Clients -> Calls]
    /\ revision \in Nat
    /\ visible \subseteq Nat
    /\ acked \in [Paths -> Nat]
    /\ temps \subseteq Nat /\ orphans \subseteq Nat

\* What a rename overwrites is what the call read when it checked its
\* condition: a create finds no object and a replace the expected version,
\* although inspection, write, sync and rename are separate steps and other
\* clients, failures, kills and power losses come between them.
CompareAndSwap ==
    [][\A c \in Clients :
         pc[c] = "rename" /\ pc'[c] = "syncdir" =>
             files[PathFor(c)].revision = call[c].expected]_vars

\* No power loss at any step of any write leaves an object that decode
\* rejects: bytes reach the disk before the name does.
NoTornObject == \A p \in Paths : files[p].data # "torn"

\* A write that returned Ok survives failures, kills and power losses, as long
\* as its directory does: the adapter does not sync a directory it made into
\* the parent, and a power loss that takes the directory takes the write.
\* Otherwise every entry the disk may hold is that write or a later one.
AckedSurvives ==
    \A p \in Paths : \A e \in disk[p] :
        acked[p] > 0 => e.revision >= acked[p]

\* A temporary file is the one its write is about to rename, or was left by a
\* kill, a power loss or a failing remove_file: no other error and no result,
\* of whatever interleaving, leaves files behind.
TemporariesOwned ==
    \A t \in temps : \/ t \in orphans
                     \/ \E c \in Clients : /\ pc[c] \in {"sync", "rename"}
                                           /\ call[c].file.revision = t

\* Every lock is given back: on success, on a refused condition, on any
\* failing system call and when the process is killed.
LocksReleased ==
    \A c \in Clients, l \in Locations : c \in locks[l] ~> c \notin locks[l]

Status(c) ==
    CASE pc[c] = "idle"    -> "idle"
      [] pc[c] = "done"    -> call[c].result
      [] pc[c] = "syncdir" -> "applied"
      [] OTHER             -> "pending"

\* The call of client c as the contract sees it.
View(c) ==
    [op |-> call[c].op, at |-> call[c].at, expected |-> call[c].expected,
     status |-> Status(c),
     seen |-> IF pc[c] = "syncdir" THEN call[c].file.revision
                                   ELSE call[c].seen]

\* No request outlives its call: locks are given back with it.
NoneLate == [c \in Clients |-> [op |-> "none", at |-> CHOOSE l \in Locations : TRUE,
                                expected |-> 0]]

Contract == INSTANCE ObjectStore WITH
    Versions <- Revisions,
    FreshVersions <- TRUE,
    object <- [l \in Locations |-> files[PathOf[l]].revision],
    used   <- visible,
    call   <- [c \in Clients |-> View(c)],
    late   <- NoneLate

\* The lock, temporary file, rename and sync steps provide the contract of
\* the ObjectStore trait between power losses: a coherent get, an atomic
\* create-if-absent and compare-and-swap, fresh versions; the rename is the
\* instant at which a write takes effect, also when it then reports an error.
Linearizable ==
    Contract!Init /\ [][Contract!Next \/ PowerLoss]_(Contract!vars)
============================================================================
