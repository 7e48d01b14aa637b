------------------------------ MODULE DirStore ------------------------------
(***************************************************************************)
(* DirStore (ingest/publish.py): the object store of a dry run, a          *)
(* directory that several processes write.  A write goes through a         *)
(* temporary file and a rename; a conditional one holds the lock of the    *)
(* object's directory, which is that of the directory it opened, whatever  *)
(* its path has come to name since.  The root holds the pointers and       *)
(* stays; the directory of a run goes with the last of its files.          *)
(*                                                                         *)
(* get and list_objects change nothing and are left out: what a caller has *)
(* read is the value it expects.                                           *)
(***************************************************************************)
EXTENDS Integers

CONSTANTS Clients,     \* processes with the same directory
          Swapped,     \* keys that are written on condition only and never deleted
          Statuses,    \* keys that are written without one and never deleted
          Objects,     \* keys of one run, in its directory: created and deleted
          Contents,    \* what a key can hold
          MaxInode     \* bound: directories made for the run

Kept == Swapped \cup Statuses   \* their directory is never empty
Keys == Kept \cup Objects
Absent == "absent"

ASSUME StoreKeys ==
  /\ Swapped \cap Statuses = {} /\ Kept \cap Objects = {}
  /\ Absent \notin Keys \cup Contents /\ MaxInode \in Nat

VARIABLES file,      \* the content of each key, or Absent
          runDir,    \* the directory at the run's path; 0: there is none
          inodes,    \* directories made so far
          litter,    \* a temporary file of a dead process is in it
          client     \* what each process is doing
dirVars == <<file, runDir, inodes, litter, client>>

Root == 0            \* the directory of the keys that are kept
Ops == {"plain", "match", "create", "delete"}
CallStages == {"mkdir", "open", "lock", "exists", "compare", "temp", "replace", "close",
               "look", "unlink", "empty", "rmdir"}
Calls ==
  [at : CallStages, op : Ops, key : Keys, new : Contents \cup {Absent},
   old : Contents \cup {Absent}, fd : 0..MaxInode]
NoCall ==
  [at |-> "rest", op |-> "none", key |-> Absent, new |-> Absent, old |-> Absent, fd |-> Root]
DirTypeOK ==
  /\ file \in [Keys -> Contents \cup {Absent}]
  /\ runDir \in 0..inodes /\ inodes \in 0..MaxInode /\ litter \in BOOLEAN
  /\ client \in [Clients -> Calls \cup {NoCall}]

-----------------------------------------------------------------------------
Doing(c, s) == client[c].at = s
GoTo(c, s) == client' = [client EXCEPT ![c].at = s]
\* A call returns or raises; closing a descriptor releases its lock.
Return(c) == client' = [client EXCEPT ![c] = NoCall]
files == <<file, runDir, inodes, litter>>

Conditional(c) == client[c].op \in {"match", "create"}
InRoot(c) == client[c].key \in Kept
Parent(c) == IF InRoot(c) THEN Root ELSE runDir
ParentThere(c) == InRoot(c) \/ runDir # 0
There(c) == file[client[c].key] # Absent

\* The lock goes with the file descriptor: from flock to close.
Locking(c) == Conditional(c) /\ client[c].at \in {"exists", "compare", "temp", "replace", "close"}
Temporary(c) == ~InRoot(c) /\ Doing(c, "replace")
Empty ==
  /\ ~litter /\ \A k \in Objects : file[k] = Absent
  /\ \A c \in Clients : ~Temporary(c)

-----------------------------------------------------------------------------
\* What the callers ask of each kind of key.
Requests(k) ==
  IF k \in Swapped THEN {"match", "create"}
  ELSE IF k \in Statuses THEN {"plain"} ELSE {"create", "delete"}
BeginCall(c) ==
  /\ Doing(c, "rest")
  /\ \E k \in Keys : \E op \in Requests(k) :
       \E new \in IF op = "delete" THEN {Absent} ELSE Contents,
          old \in IF op = "match" THEN Contents ELSE {Absent} :
         client' = [client EXCEPT ![c] =
           [at |-> IF op = "delete" THEN "look" ELSE "mkdir", op |-> op, key |-> k,
            new |-> new, old |-> old, fd |-> Root]]
  /\ UNCHANGED files

\* path.parent.mkdir(parents=True, exist_ok=True)
Mkdir(c) ==
  /\ Doing(c, "mkdir")
  /\ GoTo(c, IF Conditional(c) THEN "open" ELSE "temp")
  /\ IF ParentThere(c) THEN UNCHANGED <<runDir, inodes>>
     ELSE inodes < MaxInode /\ inodes' = inodes + 1 /\ runDir' = inodes + 1
  /\ UNCHANGED <<file, litter>>

OpenDir(c) ==
  /\ Doing(c, "open")
  /\ IF ParentThere(c)
       THEN client' = [client EXCEPT ![c].at = "lock", ![c].fd = Parent(c)]
       ELSE Return(c)
  /\ UNCHANGED files

Unlocked(c) == TRUE   \* mutant: no lock
LockFree(c) == \A d \in Clients \ {c} : Locking(d) => client[d].fd # client[c].fd
Lock(c) ==
  /\ Doing(c, "lock") /\ LockFree(c)
  /\ GoTo(c, "exists")
  /\ UNCHANGED files

Exists(c) ==
  /\ Doing(c, "exists")
  /\ GoTo(c, IF client[c].op = "create" THEN IF There(c) THEN "close" ELSE "temp"
             ELSE IF There(c) THEN "compare" ELSE "close")
  /\ UNCHANGED files

\* The file that was there may be gone by now.
Compare(c) ==
  /\ Doing(c, "compare")
  /\ GoTo(c, IF There(c) /\ file[client[c].key] = client[c].old THEN "temp" ELSE "close")
  /\ UNCHANGED files

\* _write: the temporary file lies in the directory that the path names now.
WriteTemp(c) ==
  /\ Doing(c, "temp")
  /\ IF ParentThere(c) THEN GoTo(c, "replace") ELSE Return(c)
  /\ UNCHANGED files

Replace(c) ==
  /\ Doing(c, "replace")
  /\ file' = [file EXCEPT ![client[c].key] = client[c].new]
  /\ IF Conditional(c) THEN GoTo(c, "close") ELSE Return(c)
  /\ UNCHANGED <<runDir, inodes, litter>>

Close(c) ==
  /\ Doing(c, "close")
  /\ Return(c)
  /\ UNCHANGED files

\* delete: the file, then its directory if nothing is left in it.
Look(c) ==
  /\ Doing(c, "look")
  /\ IF There(c) THEN GoTo(c, "unlink") ELSE Return(c)
  /\ UNCHANGED files

Unlink(c) ==
  /\ Doing(c, "unlink")
  /\ IF There(c)
       THEN file' = [file EXCEPT ![client[c].key] = Absent] /\ GoTo(c, "empty")
       ELSE Return(c) /\ UNCHANGED file
  /\ UNCHANGED <<runDir, inodes, litter>>

\* iterdir of a directory that is gone raises, as rmdir does of one that is not empty.
LookEmpty(c) ==
  /\ Doing(c, "empty")
  /\ IF runDir # 0 /\ Empty THEN GoTo(c, "rmdir") ELSE Return(c)
  /\ UNCHANGED files

Rmdir(c) ==
  /\ Doing(c, "rmdir")
  /\ runDir' = IF Empty THEN 0 ELSE runDir
  /\ Return(c)
  /\ UNCHANGED <<file, inodes, litter>>

\* A process that dies leaves its temporary file and no lock.
Die(c) ==
  /\ ~Doing(c, "rest")
  /\ litter' = (litter \/ Temporary(c))
  /\ Return(c)
  /\ UNCHANGED <<file, runDir, inodes>>

DirInit ==
  /\ file = [k \in Keys |-> Absent] /\ runDir = 0 /\ inodes = 0 /\ litter = FALSE
  /\ client = [c \in Clients |-> NoCall]
DirStep(c) ==
  \/ BeginCall(c) \/ Mkdir(c) \/ OpenDir(c) \/ Lock(c) \/ Exists(c) \/ Compare(c) \/ WriteTemp(c)
  \/ Replace(c) \/ Close(c) \/ Look(c) \/ Unlink(c) \/ LookEmpty(c) \/ Rmdir(c) \/ Die(c)
DirNext == \E c \in Clients : DirStep(c)
DirSpec == DirInit /\ [][DirNext]_dirVars

-----------------------------------------------------------------------------
\* What a conditional put asked for: its ETag is of the content.
Holds(c) ==
  IF client[c].op = "match" THEN file[client[c].key] = client[c].old
  ELSE file[client[c].key] = Absent
Decided(c) == Conditional(c) /\ client[c].at \in {"temp", "replace"}

\* A pointer is replaced on the condition its writer gave (publish.py:354-357, "atomic
\* across processes as R2's are"): from the comparison to the rename no other process
\* changes it, whoever writes, deletes or dies beside it.  An object of a run has no such
\* promise: its writers may hold the locks of two directories that had the same path.
PointersAreSwapped ==
  \A c \in Clients : Decided(c) /\ client[c].key \in Swapped => Holds(c)

=============================================================================
