---------------------------- MODULE BundleProofs ----------------------------
(***************************************************************************)
(* Theorems of components that MCBundle checks and that need no module of  *)
(* their own.                                                              *)
(*                                                                         *)
(* DirStore.  A pointer is written by conditional puts alone, and its      *)
(* directory is never removed: whoever holds the lock of it holds that of  *)
(* every writer of the pointer.  So what a put has compared holds until it *)
(* renames, although plain puts, deletes and deaths go on beside it.       *)
(*                                                                         *)
(* RegionalWatch.  Whatever is told of a layer is read off what was        *)
(* committed: a report of a publication is written after the commit, so    *)
(* its time bounds the commit's; the two selected cycles after the current *)
(* run exist, and they are the least of those newer than it.               *)
(*                                                                         *)
(* Capacity.  Three runs of a layer at most are named, dropped by a commit *)
(* not yet pruned, or being written: the three that the guard reserves for *)
(* each.  What else is stored was counted by the admission, and can only   *)
(* have shrunk since, or is uncounted.                                     *)
(*                                                                         *)
(* CubeTiles.  A plausible value is within its dtype, so it was not        *)
(* clipped, and rounding is to the nearest: what validation lets through   *)
(* is the provider's data to half a quantum. Its cell is found again in    *)
(* the tile of its point, at the place that the header gives.              *)
(*                                                                         *)
(* Dispatcher.  The minutes of the timetable's entries are five or more    *)
(* apart, so a fire in time finds its own slot and no other. A cycle       *)
(* determines its slot, and slots follow one another as their cycles do:   *)
(* the next dispatch that the schedule computes is the slot of the next    *)
(* cycle.                                                                  *)
(***************************************************************************)
EXTENDS DirStore, RegionalWatch, Capacity, CubeTiles, Dispatcher, FiniteSetTheorems,
        WellFoundedInduction, TLAPS

-----------------------------------------------------------------------------
\* A call on a pointer is conditional and has opened the root, or nothing yet; a delete
\* is of a run's object.
CallsAreAsked ==
  \A c \in Clients :
    /\ client[c].key \in Swapped => Conditional(c) /\ client[c].fd = Root
    /\ client[c].at \in {"look", "unlink"} => client[c].key \in Objects
    /\ client[c].at \in {"open", "lock", "exists"} => Conditional(c)
    /\ client[c].at = "compare" => client[c].op = "match"

\* One process at a time holds the root's lock for a pointer.
Swapping(c) == client[c].key \in Swapped /\ Locking(c)
OneSwaps == \A c, d \in Clients : Swapping(c) /\ Swapping(d) => c = d

DirInv == DirTypeOK /\ CallsAreAsked /\ OneSwaps /\ PointersAreSwapped

-----------------------------------------------------------------------------
\* At the start nobody calls, so nobody holds the root's lock.
LEMMA DirInitially == DirInit => DirInv
<1> SUFFICES ASSUME DirInit PROVE DirInv
  OBVIOUS
<1> USE DEF DirInit
<1>1. DirTypeOK
  <2>1. file \in [Keys -> Contents \cup {Absent}] /\ client \in [Clients -> Calls \cup {NoCall}]
    OBVIOUS
  <2>2. QED
    BY <2>1, StoreKeys, 0 \in 0..inodes, 0 \in 0..MaxInode, FALSE \in BOOLEAN DEF DirTypeOK
<1>2. CallsAreAsked
  BY StoreKeys DEF CallsAreAsked, Kept, Keys, NoCall
<1>3. OneSwaps /\ PointersAreSwapped
  BY DEF NoCall, OneSwaps, Swapping, Locking, Conditional, PointersAreSwapped, Decided
<1>4. QED
  BY <1>1, <1>2, <1>3 DEF DirInv

\* A client that moves on in its call, or ends it.
LEMMA CallMoves ==
  ASSUME DirTypeOK, NEW c \in Clients, NEW s \in CallStages,
         GoTo(c, s), ~Doing(c, "rest")
  PROVE  /\ client' \in [Clients -> Calls \cup {NoCall}]
         /\ client'[c] = [client[c] EXCEPT !.at = s]
         /\ \A d \in Clients \ {c} : client'[d] = client[d]
<1>1. client[c] \in Calls
  BY DEF DirTypeOK, Doing, NoCall
<1>2. [client[c] EXCEPT !.at = s] \in Calls
  BY <1>1 DEF Calls
<1>3. QED
  BY <1>2 DEF GoTo, DirTypeOK

\* A return clears the client's own call and no other.
LEMMA CallEnds ==
  ASSUME DirTypeOK, NEW c \in Clients, Return(c)
  PROVE  /\ client' \in [Clients -> Calls \cup {NoCall}]
         /\ client'[c] = NoCall
         /\ \A d \in Clients \ {c} : client'[d] = client[d]
  BY DEF Return, DirTypeOK

\* One client's step keeps what it does not touch: a client that does not hold a lock it
\* did not hold before, and writes no pointer, leaves the invariant as it is.
LEMMA Beside ==
  ASSUME DirInv, NEW c \in Clients,
         client' \in [Clients -> Calls \cup {NoCall}],
         \A d \in Clients \ {c} : client'[d] = client[d],
         DirTypeOK',
         \A k \in Swapped : file'[k] = file[k],
         client'[c].key \in Swapped => Conditional(c)' /\ client'[c].fd = Root,
         client'[c].at \in {"look", "unlink"} => client'[c].key \in Objects,
         client'[c].at \in {"open", "lock", "exists"} => Conditional(c)',
         client'[c].at = "compare" => client'[c].op = "match",
         Swapping(c)' => Swapping(c) \/ (client'[c].fd = client[c].fd /\ LockFree(c)),
         Swapping(c)' /\ Decided(c)' => Holds(c)'
  PROVE  DirInv'
<1> USE DEF DirInv
<1>1. CallsAreAsked'
  BY DEF CallsAreAsked, Conditional
<1>2. ASSUME NEW d \in Clients \ {c}
      PROVE  (Swapping(d)' <=> Swapping(d)) /\ (Decided(d)' <=> Decided(d))
  BY <1>2 DEF Swapping, Locking, Decided, Conditional
<1>3. ASSUME NEW d \in Clients \ {c}, Swapping(c)', Swapping(d) PROVE FALSE
  <2>1. CASE Swapping(c)
    BY <1>3, <2>1 DEF OneSwaps
  <2>2. CASE client'[c].fd = client[c].fd /\ LockFree(c)
    <3>1. client'[c].fd = Root /\ client[d].fd = Root
      BY <1>3 DEF Swapping, CallsAreAsked
    <3>2. QED
      BY <1>3, <2>2, <3>1 DEF LockFree, Swapping
  <2>3. QED
    BY <1>3, <2>1, <2>2
<1>4. OneSwaps'
  BY <1>2, <1>3 DEF OneSwaps
<1>5. ASSUME NEW d \in Clients, Decided(d)', client'[d].key \in Swapped
      PROVE  Holds(d)'
  <2>1. CASE d = c
    BY <1>5, <2>1 DEF Swapping, Locking, Decided
  <2>2. CASE d # c
    <3>1. Decided(d) /\ client[d].key \in Swapped /\ client'[d] = client[d]
      BY <1>2, <1>5, <2>2
    <3>2. QED
      BY <3>1 DEF PointersAreSwapped, Holds
  <2>3. QED
    BY <2>1, <2>2
<1>6. QED
  BY <1>1, <1>4, <1>5 DEF PointersAreSwapped

\* What a step of a call leaves of the types, when it changes no file.
LEMMA TypesBeside ==
  ASSUME DirTypeOK, UNCHANGED files, client' \in [Clients -> Calls \cup {NoCall}]
  PROVE  DirTypeOK' /\ \A k \in Swapped : file'[k] = file[k]
  BY DEF DirTypeOK, files

\* A call that ends holds nothing any more.
LEMMA EndsBeside ==
  ASSUME DirInv, NEW c \in Clients, Return(c), DirTypeOK',
         \A k \in Swapped : file'[k] = file[k]
  PROVE  DirInv'
<1>1. client' \in [Clients -> Calls \cup {NoCall}] /\ client'[c] = NoCall
      /\ \A d \in Clients \ {c} : client'[d] = client[d]
  BY CallEnds DEF DirInv
<1>2. Absent \notin Swapped
  BY StoreKeys DEF Keys, Kept
<1>3. QED
  BY <1>1, <1>2, Beside DEF NoCall, Swapping

\* A call that goes on, changing no file: to the lock, if it is free, or past it.
LEMMA GoesBeside ==
  ASSUME DirInv, NEW c \in Clients, NEW s \in CallStages, GoTo(c, s), ~Doing(c, "rest"),
         DirTypeOK', \A k \in Swapped : file'[k] = file[k],
         s = "unlink" => client[c].key \in Objects, s # "look",
         s \in {"open", "lock", "exists"} => Conditional(c),
         s = "compare" => client[c].op = "match",
         s \in {"exists", "compare", "temp", "replace", "close"} =>
           ~Conditional(c) \/ Locking(c) \/ LockFree(c),
         s \in {"temp", "replace"} /\ Conditional(c) /\ client[c].key \in Swapped => Holds(c)
  PROVE  DirInv'
<1>1. client' \in [Clients -> Calls \cup {NoCall}] /\ client'[c] = [client[c] EXCEPT !.at = s]
      /\ \A d \in Clients \ {c} : client'[d] = client[d]
  BY CallMoves DEF DirInv
<1>2. client[c] \in Calls
  BY DEF DirInv, DirTypeOK, Doing, NoCall
<1>3. /\ client'[c].at = s /\ client'[c].key = client[c].key /\ client'[c].op = client[c].op
      /\ client'[c].old = client[c].old /\ client'[c].fd = client[c].fd
  BY <1>1, <1>2 DEF Calls
<1>4. client'[c].key \in Swapped => Conditional(c)' /\ client'[c].fd = Root
  BY <1>3 DEF DirInv, CallsAreAsked, Conditional
<1>5. Swapping(c)' => Swapping(c) \/ (client'[c].fd = client[c].fd /\ LockFree(c))
  BY <1>3 DEF Swapping, Locking, Conditional
<1>6. Swapping(c)' /\ Decided(c)' => Holds(c)'
  BY <1>3 DEF Swapping, Decided, Conditional, Holds
<1>7. client'[c].at \in {"open", "lock", "exists"} => Conditional(c)'
  BY <1>3 DEF Conditional
<1>8. QED
  BY <1>1, <1>3, <1>4, <1>5, <1>6, <1>7, Beside

\* Every step of a client, and the death of one, keeps the invariant.
LEMMA DirPreserved == DirInv /\ [DirNext]_dirVars => DirInv'
<1> SUFFICES ASSUME DirInv, [DirNext]_dirVars PROVE DirInv'
  OBVIOUS
<1>1. CASE UNCHANGED dirVars
  BY <1>1 DEF dirVars, DirInv, DirTypeOK, CallsAreAsked, OneSwaps, PointersAreSwapped,
     Swapping, Locking, Conditional, Decided, Holds
<1>2. ASSUME NEW c \in Clients, DirStep(c) PROVE DirInv'
  <2>0. DirTypeOK /\ CallsAreAsked /\ OneSwaps /\ PointersAreSwapped
    BY DEF DirInv
  <2> DEFINE onward(s) ==
        /\ GoTo(c, s) /\ ~Doing(c, "rest")
        /\ UNCHANGED files
        /\ s = "unlink" => client[c].key \in Objects
        /\ s \in {"open", "lock", "exists"} => Conditional(c)
        /\ s = "compare" => client[c].op = "match"
        /\ s \in {"exists", "compare", "temp", "replace", "close"} =>
             ~Conditional(c) \/ Locking(c) \/ LockFree(c)
        /\ s \in {"temp", "replace"} /\ Conditional(c) /\ client[c].key \in Swapped => Holds(c)
  <2>1. ASSUME NEW s \in CallStages, s # "look", onward(s) PROVE DirInv'
    <3>1. client' \in [Clients -> Calls \cup {NoCall}]
      BY <2>0, <2>1, CallMoves
    <3>2. DirTypeOK' /\ \A k \in Swapped : file'[k] = file[k]
      BY <2>0, <2>1, <3>1, TypesBeside
    <3>3. QED
      BY <2>1, <3>2, GoesBeside
  <2>2. ASSUME Return(c), UNCHANGED files PROVE DirInv'
    <3>1. client' \in [Clients -> Calls \cup {NoCall}]
      BY <2>0, <2>2, CallEnds
    <3>2. DirTypeOK' /\ \A k \in Swapped : file'[k] = file[k]
      BY <2>0, <2>2, <3>1, TypesBeside
    <3>3. QED
      BY <2>2, <3>2, EndsBeside
  <2> HIDE DEF onward
  <2>3. CASE BeginCall(c)
    <3>1. PICK k \in Keys : \E op \in Requests(k) :
            \E new \in IF op = "delete" THEN {Absent} ELSE Contents,
               old \in IF op = "match" THEN Contents ELSE {Absent} :
              client' = [client EXCEPT ![c] =
                [at |-> IF op = "delete" THEN "look" ELSE "mkdir", op |-> op, key |-> k,
                 new |-> new, old |-> old, fd |-> Root]]
      BY <2>3 DEF BeginCall
    <3>2. PICK op \in Requests(k) :
            \E new \in IF op = "delete" THEN {Absent} ELSE Contents,
               old \in IF op = "match" THEN Contents ELSE {Absent} :
              client' = [client EXCEPT ![c] =
                [at |-> IF op = "delete" THEN "look" ELSE "mkdir", op |-> op, key |-> k,
                 new |-> new, old |-> old, fd |-> Root]]
      BY <3>1
    <3>3. PICK new \in Contents \cup {Absent}, old \in Contents \cup {Absent} :
            client' = [client EXCEPT ![c] =
              [at |-> IF op = "delete" THEN "look" ELSE "mkdir", op |-> op, key |-> k,
               new |-> new, old |-> old, fd |-> Root]]
      BY <3>2
    <3> DEFINE call == [at |-> IF op = "delete" THEN "look" ELSE "mkdir", op |-> op, key |-> k,
                        new |-> new, old |-> old, fd |-> Root]
    <3>4. /\ op \in Ops
          /\ k \in Swapped => op \in {"match", "create"}
          /\ op = "delete" => k \in Objects
      BY StoreKeys DEF Requests, Ops, Keys, Kept
    <3>5. call \in Calls
      BY <3>4, StoreKeys DEF Calls, CallStages, Root
    <3>6. client' \in [Clients -> Calls \cup {NoCall}] /\ client'[c] = call
          /\ \A d \in Clients \ {c} : client'[d] = client[d]
      BY <2>0, <3>3, <3>5 DEF DirTypeOK
    <3>7. client'[c].at \in {"look", "mkdir"} /\ client'[c].key = k /\ client'[c].op = op
          /\ client'[c].fd = Root /\ (client'[c].at = "look" => op = "delete")
      BY <3>6
    <3>8. DirTypeOK' /\ \A q \in Swapped : file'[q] = file[q]
      BY <2>0, <2>3, <3>6, TypesBeside DEF BeginCall
    <3> HIDE DEF call
    <3>9. client'[c].key \in Swapped => Conditional(c)'
      BY <3>4, <3>7 DEF Conditional
    <3>10. ~Swapping(c)' /\ (client'[c].at \in {"look", "unlink"} => client'[c].key \in Objects)
      BY <3>4, <3>7 DEF Swapping, Locking
    <3>11. QED
      BY <3>6, <3>7, <3>8, <3>9, <3>10, Beside
  <2>4. CASE Mkdir(c)
    <3>1. PICK s \in {"open", "temp"} :
            GoTo(c, s) /\ (IF Conditional(c) THEN s = "open" ELSE s = "temp")
      BY <2>4 DEF Mkdir
    <3>2. DirTypeOK' /\ \A k \in Swapped : file'[k] = file[k]
      <4>1. client' \in [Clients -> Calls \cup {NoCall}]
        BY <2>0, <2>4, <3>1, CallMoves DEF Mkdir, Doing, CallStages
      <4>2. runDir' \in 0..inodes' /\ inodes' \in 0..MaxInode
        BY <2>0, <2>4, StoreKeys DEF Mkdir, DirTypeOK
      <4>3. QED
        BY <2>0, <2>4, <4>1, <4>2 DEF Mkdir, DirTypeOK
    <3>3. QED
      BY <2>0, <2>4, <3>1, <3>2, GoesBeside DEF Mkdir, Doing, CallStages
  <2>5. CASE OpenDir(c)
    <3>1. CASE Return(c)
      BY <2>2, <2>5, <3>1 DEF OpenDir
    <3>2. CASE client' = [client EXCEPT ![c].at = "lock", ![c].fd = Parent(c)]
      <4>1. client[c] \in Calls
        BY <2>0, <2>5 DEF DirTypeOK, OpenDir, Doing, NoCall
      <4>2. Parent(c) \in 0..MaxInode /\ (client[c].key \in Swapped => Parent(c) = Root)
        BY <2>0, StoreKeys DEF Parent, InRoot, Kept, Root, DirTypeOK
      <4> DEFINE call == [client[c] EXCEPT !.at = "lock", !.fd = Parent(c)]
      <4>3. call \in Calls /\ call.at = "lock" /\ call.key = client[c].key
            /\ call.op = client[c].op /\ call.fd = Parent(c)
        BY <4>1, <4>2 DEF Calls, CallStages
      <4>4. client' \in [Clients -> Calls \cup {NoCall}] /\ client'[c] = call
            /\ \A d \in Clients \ {c} : client'[d] = client[d]
        BY <2>0, <3>2, <4>3 DEF DirTypeOK
      <4>5. DirTypeOK' /\ \A q \in Swapped : file'[q] = file[q]
        BY <2>0, <2>5, <4>4, TypesBeside DEF OpenDir
      <4> HIDE DEF call
      <4>6. Conditional(c)' /\ (client'[c].key \in Swapped => client'[c].fd = Root)
        BY <2>0, <2>5, <4>2, <4>3, <4>4 DEF CallsAreAsked, Conditional, OpenDir, Doing
      <4>7. ~Swapping(c)' /\ client'[c].at \notin {"look", "unlink", "compare"}
        BY <4>3, <4>4 DEF Swapping, Locking
      <4>8. QED
        BY <4>4, <4>5, <4>6, <4>7, Beside
    <3>3. QED
      BY <2>5, <3>1, <3>2 DEF OpenDir
  <2>6. CASE Lock(c)
    <3>1. onward("exists")
      BY <2>0, <2>6 DEF onward, Lock, Doing, CallsAreAsked
    <3>2. QED
      BY <2>1, <3>1 DEF CallStages
  <2>7. CASE Exists(c)
    <3>1. PICK s \in {"close", "temp", "compare"} :
            /\ GoTo(c, s)
            /\ s = "temp" => client[c].op = "create" /\ ~There(c)
            /\ s = "compare" => client[c].op = "match"
      BY <2>0, <2>7 DEF Exists, Doing, CallsAreAsked, Conditional
    <3>2. onward(s)
      BY <2>7, <3>1 DEF onward, Exists, Doing, Locking, Holds, There
    <3>3. QED
      BY <2>1, <3>1, <3>2 DEF CallStages
  <2>8. CASE Compare(c)
    <3>1. PICK s \in {"close", "temp"} :
            GoTo(c, s) /\ (s = "temp" => There(c) /\ file[client[c].key] = client[c].old)
      BY <2>8 DEF Compare
    <3>2. s = "temp" /\ Conditional(c) => Holds(c)
      BY <2>0, <2>8, <3>1 DEF Holds, Compare, Doing, CallsAreAsked
    <3>3. onward(s)
      BY <2>8, <3>1, <3>2 DEF onward, Compare, Doing, Locking
    <3>4. QED
      BY <2>1, <3>1, <3>3 DEF CallStages
  <2>9. CASE WriteTemp(c)
    <3>1. CASE GoTo(c, "replace")
      <4>1. onward("replace")
        BY <2>0, <2>9, <3>1 DEF onward, WriteTemp, Doing, Locking, PointersAreSwapped, Decided
      <4>2. QED
        BY <2>1, <4>1 DEF CallStages
    <3>2. QED
      BY <2>2, <2>9, <3>1 DEF WriteTemp
  <2>10. CASE Replace(c)
    <3> DEFINE k == client[c].key
    <3>1. client[c] \in Calls
      BY <2>0, <2>10 DEF DirTypeOK, Replace, Doing, NoCall
    <3>2. DirTypeOK'
      <4>1. client' \in [Clients -> Calls \cup {NoCall}]
        BY <2>0, <2>10, CallMoves, CallEnds DEF Replace, Doing, CallStages
      <4>2. file' \in [Keys -> Contents \cup {Absent}]
        BY <2>0, <2>10, <3>1 DEF Replace, DirTypeOK, Calls
      <4>3. QED
        BY <2>0, <2>10, <4>1, <4>2 DEF Replace, DirTypeOK
    <3>3. CASE k \notin Swapped
      <4>1. \A q \in Swapped : file'[q] = file[q]
        BY <2>0, <2>10, <3>3 DEF Replace, DirTypeOK, Keys, Kept
      <4>2. CASE Return(c)
        BY <3>2, <4>1, <4>2, EndsBeside
      <4>3. CASE Conditional(c) /\ GoTo(c, "close")
        BY <2>10, <3>2, <4>1, <4>3, GoesBeside DEF Replace, Doing, Locking, CallStages
      <4>4. QED
        BY <2>10, <4>2, <4>3 DEF Replace
    <3>4. CASE k \in Swapped
      <4>1. Conditional(c) /\ GoTo(c, "close") /\ Swapping(c)
        BY <2>0, <2>10, <3>4 DEF Replace, CallsAreAsked, Doing, Swapping, Locking
      <4>2. client'[c] = [client[c] EXCEPT !.at = "close"]
            /\ \A d \in Clients \ {c} : client'[d] = client[d]
        BY <2>0, <2>10, <4>1, CallMoves DEF Replace, Doing, CallStages
      <4>3. /\ client'[c].at = "close" /\ client'[c].key = client[c].key
            /\ client'[c].op = client[c].op /\ client'[c].fd = client[c].fd
        BY <3>1, <4>2 DEF Calls
      <4>4. CallsAreAsked'
        <5> SUFFICES ASSUME NEW d \in Clients
                     PROVE /\ client'[d].key \in Swapped
                                => Conditional(d)' /\ client'[d].fd = Root
                           /\ client'[d].at \in {"look", "unlink"} => client'[d].key \in Objects
                           /\ client'[d].at \in {"open", "lock", "exists"} => Conditional(d)'
                           /\ client'[d].at = "compare" => client'[d].op = "match"
          BY DEF CallsAreAsked
        <5>1. CASE d = c
          BY <2>0, <4>1, <4>3, <5>1 DEF CallsAreAsked, Conditional
        <5>2. CASE d # c
          <6>1. client'[d] = client[d]
            BY <4>2, <5>2
          <6>2. QED
            BY <2>0, <6>1 DEF CallsAreAsked, Conditional
        <5>3. QED
          BY <5>1, <5>2
      <4>5. \A d \in Clients : Swapping(d)' => Swapping(d)
        <5>1. ASSUME NEW d \in Clients, d # c PROVE Swapping(d)' = Swapping(d)
          BY <4>2, <5>1 DEF Swapping, Locking, Conditional
        <5>2. QED
          BY <4>1, <5>1
      <4>6. OneSwaps'
        BY <2>0, <4>5 DEF OneSwaps
      <4>7. ASSUME NEW d \in Clients, Decided(d)', client'[d].key \in Swapped PROVE FALSE
        <5>1. d # c /\ Swapping(d)'
          BY <4>3, <4>7 DEF Decided, Swapping, Locking, Conditional
        <5>2. QED
          BY <2>0, <4>1, <4>5, <5>1 DEF OneSwaps
      <4>8. QED
        BY <3>2, <4>4, <4>6, <4>7 DEF DirInv, PointersAreSwapped
    <3>5. QED
      BY <3>3, <3>4
  <2>11. CASE Close(c) \/ Rmdir(c) \/ Die(c)
    <3>1. Return(c) /\ file' = file
      BY <2>11 DEF Close, Rmdir, Die, files
    <3>2. DirTypeOK'
      <4>1. client' \in [Clients -> Calls \cup {NoCall}]
        BY <2>0, <3>1, CallEnds
      <4>2. runDir' \in 0..inodes' /\ inodes' \in 0..MaxInode
        BY <2>0, <2>11, StoreKeys DEF Close, Rmdir, Die, files, DirTypeOK
      <4>3. litter' \in BOOLEAN
        BY <2>0, <2>11 DEF Close, Rmdir, Die, files, DirTypeOK, Temporary
      <4>4. QED
        BY <2>0, <3>1, <4>1, <4>2, <4>3 DEF DirTypeOK
    <3>3. QED
      BY <3>1, <3>2, EndsBeside
  <2>12. CASE Look(c)
    <3>1. CASE GoTo(c, "unlink")
      <4>1. onward("unlink")
        BY <2>0, <2>12, <3>1 DEF onward, Look, Doing, CallsAreAsked
      <4>2. QED
        BY <2>1, <4>1 DEF CallStages
    <3>2. QED
      BY <2>2, <2>12, <3>1 DEF Look
  <2>13. CASE Unlink(c)
    <3>1. client[c].key \in Objects
      BY <2>0, <2>13 DEF Unlink, Doing, CallsAreAsked
    <3>2. \A q \in Swapped : file'[q] = file[q]
      BY <2>0, <2>13, <3>1, StoreKeys DEF Unlink, DirTypeOK, Keys, Kept
    <3>3. DirTypeOK'
      <4>1. client' \in [Clients -> Calls \cup {NoCall}]
        BY <2>0, <2>13, CallMoves, CallEnds DEF Unlink, Doing, CallStages
      <4>2. file' \in [Keys -> Contents \cup {Absent}]
        BY <2>0, <2>13 DEF Unlink, DirTypeOK
      <4>3. QED
        BY <2>0, <2>13, <4>1, <4>2 DEF Unlink, DirTypeOK
    <3>4. CASE Return(c)
      BY <3>2, <3>3, <3>4, EndsBeside
    <3>5. CASE GoTo(c, "empty")
      BY <2>13, <3>2, <3>3, <3>5, GoesBeside DEF Unlink, Doing, CallStages
    <3>6. QED
      BY <2>13, <3>4, <3>5 DEF Unlink
  <2>14. CASE LookEmpty(c)
    <3>1. CASE GoTo(c, "rmdir")
      <4>1. onward("rmdir")
        BY <2>14, <3>1 DEF onward, LookEmpty, Doing
      <4>2. QED
        BY <2>1, <4>1 DEF CallStages
    <3>2. QED
      BY <2>2, <2>14, <3>1 DEF LookEmpty
  <2>15. QED
    BY <1>2, <2>3, <2>4, <2>5, <2>6, <2>7, <2>8, <2>9, <2>10, <2>11, <2>12, <2>13, <2>14
    DEF DirStep
<1>3. QED
  BY <1>1, <1>2 DEF DirNext

\* The invariant of a directory that processes share: who holds the lock of a key, which file
\* the lock is on, and what a writer has read under it (DirStore, publish.py:350-445).
THEOREM DirInvariant == DirSpec => []DirInv
<1>1. QED
  BY DirInitially, DirPreserved, PTL DEF DirSpec

\* From the comparison of a conditional put of a pointer to its rename nothing changes the
\* pointer (DirStore.put, publish.py:382-405), for every number of processes and keys.
THEOREM PutsOfPointersAreAtomic == DirSpec => []PointersAreSwapped
<1>1. DirInv => PointersAreSwapped
  BY DEF DirInv
<1>2. QED
  BY <1>1, DirInvariant, PTL

-----------------------------------------------------------------------------
\* Sets of numbers.  A minimum is found through the intervals below the members of the
\* set, which strict inclusion orders well.
LEMMA MinOfNaturals ==
  ASSUME NEW S, S \subseteq Nat, S # {}
  PROVE  Min(S) \in S /\ \A y \in S : Min(S) <= y
<1>1. PICK top \in S : TRUE
  OBVIOUS
<1> DEFINE below(n) == 0..n - 1
           cuts == {below(n) : n \in {m \in S : m <= top}}
           box == 0..top
<1>2. IsFiniteSet(box)
  BY <1>1, FS_Interval
<1>3. cuts \subseteq FiniteSubsetsOf(box)
  <2> SUFFICES ASSUME NEW n \in S, n <= top PROVE below(n) \in FiniteSubsetsOf(box)
    OBVIOUS
  <2>1. below(n) \subseteq box
    BY <1>1
  <2> QED
    BY <1>2, <2>1, FS_Subset DEF FiniteSubsetsOf
<1>4. cuts # {}
  BY <1>1
<1> HIDE DEF box
<1>5. PICK x \in cuts : \A y \in cuts : ~(<<y, x>> \in StrictSubsetOrdering(box))
  <2> HIDE DEF cuts
  <2> QED
    BY <1>3, <1>4, FS_StrictSubsetOrderingWellFounded, WFMin
<1>6. PICK n \in S : n <= top /\ x = below(n)
  BY <1>5
<1>7. \A m \in S : n <= m
  <2> SUFFICES ASSUME NEW m \in S, m < n PROVE FALSE
    BY <1>6
  <2>1. m <= top
    BY <1>1, <1>6
  <2>2. below(m) \in cuts
    BY <2>1
  <2>3. below(m) \subseteq below(n) /\ below(m) # below(n)
    <3>1. m \in below(n) /\ ~(m \in below(m))
      BY <1>6
    <3> QED
      BY <1>6, <3>1
  <2>4. below(m) \in SUBSET box /\ x \in SUBSET box
    BY <1>1, <1>6, <2>1 DEF box
  <2>5. <<below(m), x>> \in StrictSubsetOrdering(box)
    BY <1>6, <2>3, <2>4 DEF StrictSubsetOrdering
  <2> QED
    BY <1>5, <2>2, <2>5
<1> QED
  BY <1>6, <1>7 DEF Min

\* A set of numbers below a bound has a greatest one.
LEMMA MaxOfBounded ==
  ASSUME NEW top \in Nat, NEW S, S \subseteq -1..top, S # {}
  PROVE  Max(S) \in S /\ \A y \in S : y <= Max(S)
<1> DEFINE gaps == {top - y : y \in S}
<1>1. gaps \subseteq Nat /\ gaps # {}
  <2>1. \A y \in S : y \in Int /\ top - y \in Nat
    OBVIOUS
  <2>2. \A y \in S : top - y \in gaps
    OBVIOUS
  <2> QED
    BY <2>1, <2>2
<1>2. Min(gaps) \in gaps /\ \A g \in gaps : Min(gaps) <= g
  BY <1>1, MinOfNaturals
<1>3. PICK x \in S : Min(gaps) = top - x
  BY <1>2
<1>4. \A y \in S : x >= y
  <2> SUFFICES ASSUME NEW y \in S PROVE x >= y
    OBVIOUS
  <2>1. top - y \in gaps
    OBVIOUS
  <2>2. top - x <= top - y
    BY <1>2, <1>3, <2>1
  <2>3. x \in Int /\ y \in Int /\ top \in Int
    OBVIOUS
  <2> QED
    BY <2>2, <2>3
<1> QED
  BY <1>4 DEF Max

\* Quotient and remainder of a natural number.
LEMMA Remainders ==
  ASSUME NEW d \in Nat \ {0}, NEW x \in Nat
  PROVE  /\ x = d * (x \div d) + (x % d)
         /\ x % d \in 0..d - 1 /\ x \div d \in Nat
OBVIOUS

-----------------------------------------------------------------------------
\* RegionalWatch.
LEMMA HourOfDay ==
  ASSUME NEW d \in Nat \ {0}, NEW k \in Nat, NEW h \in 0..d - 1, NEW x \in Nat, x = d * k + h
  PROVE  x % d = h
<1> DEFINE q == x \div d
           m == x % d
<1>1. q \in Nat /\ m \in 0..d - 1 /\ d * q + m = d * k + h
  BY Remainders
<1> HIDE DEF q, m
<1>2. ~(q >= k + 1)
  <2> SUFFICES ASSUME q >= k + 1 PROVE FALSE
    OBVIOUS
  <2>1. d * q >= d * (k + 1) /\ d * (k + 1) = d * k + d
    BY <1>1
  <2> QED
    BY <1>1, <2>1
<1>3. ~(k >= q + 1)
  <2> SUFFICES ASSUME k >= q + 1 PROVE FALSE
    OBVIOUS
  <2>1. d * k >= d * (q + 1) /\ d * (q + 1) = d * q + d
    BY <1>1
  <2> QED
    BY <1>1, <2>1
<1>4. q = k
  BY <1>1, <1>2, <1>3
<1> QED
  BY <1>1, <1>4 DEF m

\* Every report of a publication rests on a commit of its cycle, no later than it says.
WatchInv ==
  /\ tick \in 0..WatchHorizon
  /\ \A p \in committed : p.cycle \in 0..tick /\ p.at \in 0..tick
  /\ \A c \in running : CommittedBy(c, tick)
  /\ \A r \in reports : r.outcome = "published" /\ r.confirmed /\ r.finished # -1
       => r.finished \in 0..tick /\ CommittedBy(r.cycle, r.finished)

\* At the start nothing is committed and nothing is told.
LEMMA WatchInitially == WatchInit => WatchInv
  BY WatchConstants DEF WatchInit, WatchInv

\* What was committed by a time still was when the clock has moved on or more is committed.
LEMMA StaysCommitted ==
  ASSUME WatchInv, NEW c, NEW t \in Nat, CommittedBy(c, t)
  PROVE  /\ \A u \in Nat : t <= u => CommittedBy(c, u)
         /\ committed \subseteq committed' => CommittedBy(c, t)'
  BY DEF CommittedBy, WatchInv

\* A report stays true when the clock moves on and more is committed.
LEMMA ReportsHold ==
  ASSUME WatchInv, tick' \in Nat, tick <= tick', committed \subseteq committed',
         NEW r \in reports, r.outcome = "published", r.confirmed, r.finished # -1
  PROVE  r.finished \in 0..tick' /\ CommittedBy(r.cycle, r.finished)'
<1>1. r.finished \in 0..tick /\ CommittedBy(r.cycle, r.finished) /\ tick \in Nat
  BY WatchConstants DEF WatchInv
<1> DEFINE t == r.finished
           c == r.cycle
<1>2. CommittedBy(c, t) /\ t \in Nat
  BY <1>1
<1> HIDE DEF t, c
<1>3. CommittedBy(c, t)'
  BY <1>2, StaysCommitted
<1> QED
  BY <1>1, <1>3 DEF t, c, CommittedBy

\* Commits, reports and the clock keep the invariant.
LEMMA WatchPreserved == WatchInv /\ [WatchNext]_watchVars => WatchInv'
<1> SUFFICES ASSUME WatchInv, [WatchNext]_watchVars PROVE WatchInv'
  OBVIOUS
<1>0. tick \in 0..WatchHorizon /\ tick \in Nat /\ WatchHorizon \in Nat
  BY WatchConstants DEF WatchInv
<1>1. CASE WatchTick
  <2>1. tick' = tick + 1 /\ tick' \in 0..WatchHorizon /\ committed' = committed
        /\ running' = running /\ reports' = reports
    BY <1>0, <1>1 DEF WatchTick
  <2>2. \A p \in committed : p.cycle \in 0..tick' /\ p.at \in 0..tick'
    BY <1>0, <2>1 DEF WatchInv
  <2>3. \A c \in running : CommittedBy(c, tick + 1)
    BY <1>0, StaysCommitted DEF WatchInv
  <2>4. \A c \in running : CommittedBy(c, tick)'
    BY <2>1, <2>3 DEF CommittedBy
  <2>5. \A r \in reports : r.outcome = "published" /\ r.confirmed /\ r.finished # -1
          => r.finished \in 0..tick' /\ CommittedBy(r.cycle, r.finished)'
    BY <1>0, <2>1, ReportsHold
  <2> QED
    BY <2>1, <2>2, <2>4, <2>5 DEF WatchInv, CommittedBy
<1>2. ASSUME NEW c \in 0..tick, JobCommits(c) PROVE WatchInv'
  <2> DEFINE new == [cycle |-> c, at |-> tick]
  <2>1. tick' = tick /\ committed' = committed \cup {new}
        /\ running' = running \cup {c} /\ reports' = reports
    BY <1>2 DEF JobCommits
  <2>2. \A p \in committed' : p.cycle \in 0..tick' /\ p.at \in 0..tick'
    BY <1>0, <2>1 DEF WatchInv
  <2>3. \A d \in running' : CommittedBy(d, tick)'
    <3>1. CommittedBy(c, tick)'
      <4>1. new \in committed' /\ new.cycle = c /\ new.at <= tick'
        BY <1>0, <2>1
      <4> QED
        BY <4>1 DEF CommittedBy
    <3>2. \A d \in running : CommittedBy(d, tick)'
      BY <1>0, <2>1 DEF CommittedBy, WatchInv
    <3> QED
      BY <2>1, <3>1, <3>2
  <2>4. \A r \in reports : r.outcome = "published" /\ r.confirmed /\ r.finished # -1
          => r.finished \in 0..tick' /\ CommittedBy(r.cycle, r.finished)'
    BY <1>0, <2>1, ReportsHold
  <2> QED
    BY <1>0, <2>1, <2>2, <2>3, <2>4 DEF WatchInv, CommittedBy
<1>3. ASSUME NEW c \in 0..tick, JobReports(c) PROVE WatchInv'
  <2>1. tick' = tick /\ committed' = committed /\ running' = running \ {c} /\ c \in running
    BY <1>3 DEF JobReports
  <2>2. CommittedBy(c, tick)
    BY <2>1 DEF WatchInv
  <2>3. \A r \in reports' \ reports : r.outcome = "published" /\ r.confirmed /\ r.finished # -1
          => r.finished = tick /\ r.cycle = c
    BY <1>3 DEF JobReports, Report
  <2>4. \A r \in reports' : r.outcome = "published" /\ r.confirmed /\ r.finished # -1
          => r.finished \in 0..tick /\ CommittedBy(r.cycle, r.finished)
    BY <1>0, <2>2, <2>3 DEF WatchInv
  <2> QED
    BY <2>1, <2>4 DEF WatchInv, CommittedBy
<1>4. ASSUME NEW c \in 0..tick, JobEnds(c) PROVE WatchInv'
  <2>1. tick' = tick /\ committed' = committed /\ running' = running
    BY <1>4 DEF JobEnds
  <2>2. \A r \in reports' \ reports : r.outcome # "published"
    BY <1>4 DEF JobEnds, Report
  <2> QED
    BY <2>1, <2>2 DEF WatchInv, CommittedBy
<1>5. CASE UNCHANGED watchVars
  BY <1>5 DEF watchVars, WatchInv, CommittedBy
<1> QED
  BY <1>1, <1>2, <1>3, <1>4, <1>5 DEF WatchNext

\* A cycle that is scored on time was committed by its deadline.
LEMMA OnTimeIsTrue ==
  ASSUME WatchInv, NEW c \in Expected, Status(c) = "on_time"
  PROVE  CommittedBy(c, Deadline(c))
<1>1. Finishes(c) # {} /\ Min(Finishes(c)) <= Deadline(c)
  BY DEF Status
<1>2. \A r \in Confirmed(c) : r.finished # -1
        => r.finished \in 0..tick /\ CommittedBy(c, r.finished)
  BY DEF Confirmed, WatchInv
<1>3. Finishes(c) \subseteq Nat
  BY <1>2 DEF Finishes
<1>4. Min(Finishes(c)) \in Finishes(c)
  BY <1>1, <1>3, MinOfNaturals
<1> DEFINE t == Min(Finishes(c))
<1>5. t \in Nat /\ CommittedBy(c, t)
  BY <1>2, <1>3, <1>4 DEF Finishes
<1>6. Deadline(c) \in Nat
  BY WatchConstants DEF Expected, CanaryCycles, Cycles, Deadline, Scheduled
<1> QED
  BY <1>1, <1>5, <1>6, StaysCommitted

\* The canary looks at finitely many cycles.
LEMMA ExpectedIsFinite == IsFiniteSet(Expected) /\ IsFiniteSet(CanaryCycles)
<1>1. WatchHorizon + 3 * DayLength \in Int
  BY WatchConstants
<1>2. IsFiniteSet(0..WatchHorizon + 3 * DayLength)
  BY <1>1, FS_Interval
<1> QED
  BY <1>2, FS_Subset DEF Expected, CanaryCycles, Cycles

\* The two selected cycles after a run of today or before are within the model's days.
LEMMA TwoFollow ==
  ASSUME NEW c \in 0..WatchHorizon
  PROVE  /\ FirstAfter(c) \in CanaryCycles /\ FirstAfter(c) > c
         /\ \A x \in CanaryCycles : x > c => FirstAfter(c) <= x
         /\ FirstAfter(FirstAfter(c)) \in CanaryCycles
         /\ FirstAfter(FirstAfter(c)) > FirstAfter(c)
         /\ \A x \in CanaryCycles : x > FirstAfter(c) => FirstAfter(FirstAfter(c)) <= x
<1>1. PICK h \in CanarySet : TRUE
  BY WatchConstants
<1>2. h \in 0..DayLength - 1 /\ DayLength \in Nat \ {0} /\ WatchHorizon \in Nat
  BY <1>1, WatchConstants
<1> DEFINE k == c \div DayLength
           day == DayLength * k
<1>3. k \in Nat /\ day \in Nat /\ day <= c /\ c < day + DayLength
  <2>1. c \in Nat
    BY <1>2
  <2>2. c = DayLength * (c \div DayLength) + (c % DayLength)
        /\ c % DayLength \in 0..DayLength - 1 /\ c \div DayLength \in Nat
    BY <1>2, <2>1, Remainders
  <2> DEFINE rest == c % DayLength
  <2>3. c = day + rest /\ rest \in 0..DayLength - 1 /\ k \in Nat
    BY <2>2
  <2>4. day \in Nat
    BY <1>2, <2>3
  <2> HIDE DEF rest, day
  <2> QED
    BY <1>2, <2>1, <2>3, <2>4
<1>4. DayLength * (k + 1) = day + DayLength /\ DayLength * (k + 2) = day + 2 * DayLength
  BY <1>2, <1>3
<1> HIDE DEF k, day
<1> DEFINE one == day + DayLength + h
           two == day + 2 * DayLength + h
<1>5. one \in Nat /\ two \in Nat /\ c < one /\ one < two /\ two <= WatchHorizon + 3 * DayLength
  BY <1>2, <1>3
<1>6. one % DayLength = h /\ two % DayLength = h
  <2>1. one = DayLength * (k + 1) + h /\ two = DayLength * (k + 2) + h
    BY <1>4
  <2> HIDE DEF one, two
  <2> QED
    BY <1>2, <1>3, <1>5, <2>1, HourOfDay
<1>7. one \in CanaryCycles /\ two \in CanaryCycles
  BY <1>1, <1>5, <1>6, <1>2 DEF CanaryCycles, Cycles
<1> HIDE DEF one, two
<1>8. CanaryCycles \subseteq Nat
  BY DEF CanaryCycles, Cycles
<1>9. /\ FirstAfter(c) \in CanaryCycles /\ FirstAfter(c) > c
      /\ \A x \in CanaryCycles : x > c => FirstAfter(c) <= x
  <2> DEFINE later == {x \in CanaryCycles : x > c}
  <2>1. later \subseteq Nat /\ later # {}
    BY <1>5, <1>7, <1>8
  <2>2. Min(later) \in later /\ \A y \in later : Min(later) <= y
    BY <2>1, MinOfNaturals
  <2> QED
    BY <2>2 DEF FirstAfter
<1> DEFINE f == FirstAfter(c)
<1>10. f \in Nat /\ f <= one
  BY <1>5, <1>7, <1>8, <1>9
<1> HIDE DEF f
<1>11. /\ FirstAfter(f) \in CanaryCycles /\ FirstAfter(f) > f
       /\ \A x \in CanaryCycles : x > f => FirstAfter(f) <= x
  <2> DEFINE later == {x \in CanaryCycles : x > f}
  <2>1. two \in later
    BY <1>5, <1>7, <1>10
  <2>2. later \subseteq Nat /\ later # {}
    BY <1>8, <2>1
  <2>3. Min(later) \in later /\ \A y \in later : Min(later) <= y
    BY <2>2, MinOfNaturals
  <2> QED
    BY <2>3 DEF FirstAfter
<1> QED
  BY <1>9, <1>11 DEF f

\* A layer is stale just when two cycles that the source has released follow its current run.
LEMMA StaleIsTrue ==
  ASSUME WatchInv, CurrentRun # -1
  PROVE  Freshness = "stale" <=>
           Cardinality({c \in CanaryCycles : c > CurrentRun /\ c + SourceLag <= tick}) >= 2
<1> DEFINE cur == CurrentRun
           first == FirstAfter(cur)
           second == FirstAfter(first)
           missed == {c \in CanaryCycles : c > cur /\ c + SourceLag <= tick}
<1>1. cur \in 0..WatchHorizon /\ tick \in Nat /\ SourceLag \in Nat
  <2> DEFINE runs == {-1} \cup {p.cycle : p \in committed}
  <2>1. runs \subseteq -1..tick /\ runs # {} /\ tick \in 0..WatchHorizon /\ tick \in Nat
    BY WatchConstants DEF WatchInv
  <2>2. Max(runs) \in runs
    BY <2>1, MaxOfBounded
  <2> QED
    BY <2>1, <2>2, WatchConstants DEF CurrentRun
<1>2. Freshness = "stale" <=> second + SourceLag <= tick
  <2>1. Freshness = "stale" <=> tick >= second + SourceLag
    BY DEF Freshness, StaleAt
  <2>2. second \in Nat
    BY <1>1, TwoFollow DEF CanaryCycles, Cycles
  <2> QED
    BY <1>1, <2>1, <2>2
<1> HIDE DEF cur
<1>3. /\ first \in CanaryCycles /\ first > cur /\ second \in CanaryCycles /\ second > first
      /\ \A x \in CanaryCycles : x > cur => first <= x
      /\ \A x \in CanaryCycles : x > first => second <= x
  BY <1>1, TwoFollow
<1>4. CanaryCycles \subseteq Nat /\ IsFiniteSet(missed)
  BY ExpectedIsFinite, FS_Subset DEF CanaryCycles, Cycles
<1> HIDE DEF first, second
<1>5. CASE second + SourceLag <= tick
  <2>1. {first, second} \subseteq missed
    BY <1>1, <1>3, <1>4, <1>5
  <2>2. Cardinality({first, second}) = 2
    <3>1. {first} \cup {second} = {first, second} /\ ~(second \in {first})
      BY <1>3, <1>4
    <3>2. IsFiniteSet({first}) /\ Cardinality({first}) = 1
      BY FS_Singleton
    <3> QED
      BY <3>1, <3>2, FS_AddElement
  <2>3. Cardinality({first, second}) <= Cardinality(missed)
    <3> HIDE DEF missed
    <3> QED
      BY <1>4, <2>1, FS_Subset
  <2>4. Cardinality(missed) \in Nat
    BY <1>4, FS_CardinalityType
  <2> QED
    BY <1>2, <1>5, <2>2, <2>3, <2>4 DEF cur
<1>6. CASE ~(second + SourceLag <= tick)
  <2>1. missed \subseteq {first}
    <3> SUFFICES ASSUME NEW c \in CanaryCycles, c > cur, c + SourceLag <= tick, c # first
                 PROVE  FALSE
      OBVIOUS
    <3>1. c \in Nat /\ first \in Nat /\ second \in Nat
      BY <1>3, <1>4
    <3>2. first <= c
      BY <1>3
    <3>3. second <= c
      BY <1>3, <3>1, <3>2
    <3> QED
      BY <1>1, <1>6, <3>1, <3>3
  <2>2. Cardinality(missed) <= 1
    <3> HIDE DEF missed
    <3>1. IsFiniteSet({first}) /\ Cardinality({first}) = 1
      BY FS_Singleton
    <3> QED
      BY <2>1, <3>1, FS_Subset
  <2>3. Cardinality(missed) \in Nat
    BY <1>4, FS_CardinalityType
  <2> QED
    BY <1>2, <1>6, <2>2, <2>3 DEF cur
<1> QED
  BY <1>5, <1>6

\* What the invariant says of reports makes the verdicts true.
LEMMA VerdictsFollow == WatchInv => VerdictsTrue
<1> SUFFICES ASSUME WatchInv PROVE VerdictsTrue
  OBVIOUS
<1> DEFINE timely == {c \in Expected : Status(c) = "on_time"}
           known == {c \in Expected : CommittedBy(c, Deadline(c))}
<1>1. timely \subseteq known
  BY OnTimeIsTrue
<1>2. IsFiniteSet(known)
  BY ExpectedIsFinite, FS_Subset
<1>3. /\ Cardinality(timely) \in Nat /\ Cardinality(known) \in Nat
      /\ Cardinality(timely) <= Cardinality(known) /\ Cardinality(Expected) \in Nat
  <2> HIDE DEF timely, known
  <2> QED
    BY <1>1, <1>2, ExpectedIsFinite, FS_Subset, FS_CardinalityType
<1>4. TimelinessPassed => 100 * Cardinality(timely) >= 95 * Cardinality(Expected)
  BY DEF TimelinessPassed, Count
<1>5. TimelinessPassed => 100 * Cardinality(known) >= 95 * Cardinality(Expected)
  <2> HIDE DEF timely, known
  <2> QED
    BY <1>3, <1>4
<1> QED
  BY <1>5, OnTimeIsTrue, StaleIsTrue DEF VerdictsTrue

\* No verdict on a layer is better than the truth, however many reports are lost: a cycle
\* scored on time was committed by its deadline, the canary passes only when enough were
\* (score_canary of regional_canary.py), and a layer is stale exactly when two cycles are missing
\* (freshness of regional_health.py).
THEOREM VerdictsAreTrue == WatchSpec => []VerdictsTrue
<1>1. WatchSpec => []WatchInv
  BY WatchInitially, WatchPreserved, PTL DEF WatchSpec
<1> QED
  BY <1>1, VerdictsFollow, PTL

-----------------------------------------------------------------------------
\* Capacity.
\* What goes over from a set's members to the set holds of every finite set; over from a
\* number to the next, of every number.
LEMMA FiniteInduction ==
  ASSUME NEW S, IsFiniteSet(S), NEW Good,
         \A T \in SUBSET S : (\A x \in T : T \ {x} \in Good) => T \in Good
  PROVE  S \in Good
<1> SUFFICES ASSUME S \notin Good PROVE FALSE
  OBVIOUS
<1> DEFINE bad == {T \in SUBSET S : T \notin Good}
<1>1. bad \subseteq FiniteSubsetsOf(S) /\ bad # {}
  BY FS_Subset DEF FiniteSubsetsOf
<1>2. PICK T \in bad : \A U \in bad : ~(<<U, T>> \in StrictSubsetOrdering(S))
  <2> HIDE DEF bad
  <2> QED
    BY <1>1, FS_StrictSubsetOrderingWellFounded, WFMin
<1>3. \A x \in T : T \ {x} \in Good
  <2> SUFFICES ASSUME NEW x \in T, T \ {x} \notin Good PROVE FALSE
    OBVIOUS
  <2>1. T \ {x} \in bad
    OBVIOUS
  <2>2. <<T \ {x}, T>> \in StrictSubsetOrdering(S)
    BY DEF StrictSubsetOrdering
  <2> QED
    BY <1>2, <2>1, <2>2
<1> QED
  BY <1>3

\* Induction over the natural numbers, for a set of good ones.
LEMMA NumberInduction ==
  ASSUME NEW Good, 0 \in Good, \A n \in Nat : n \in Good => n + 1 \in Good
  PROVE  \A n \in Nat : n \in Good
<1> SUFFICES ASSUME NEW n \in Nat, n \notin Good PROVE FALSE
  OBVIOUS
<1> DEFINE bad == {k \in Nat : k \notin Good}
           least == Min(bad)
<1>1. least \in bad /\ \A k \in bad : least <= k
  <2>1. bad \subseteq Nat /\ bad # {}
    OBVIOUS
  <2> HIDE DEF bad
  <2> QED
    BY <2>1, MinOfNaturals
<1> HIDE DEF least
<1>2. least # 0 /\ least - 1 \in Nat
  BY <1>1
<1>3. least - 1 \in Good
  BY <1>1, <1>2
<1> QED
  BY <1>1, <1>2, <1>3

-----------------------------------------------------------------------------
\* The fold under TotalBytes, which takes a member chosen of the set.
Chosen(s) == CHOOSE x \in s : TRUE
IsFold(f, S, it) ==
  it = [s \in SUBSET S |-> IF s = {} THEN 0 ELSE it[s \ {Chosen(s)}] + f[Chosen(s)]]

\* A finite set has a function that sums its subsets one element after another.
LEMMA FoldExists ==
  ASSUME NEW f, NEW S, IsFiniteSet(S)
  PROVE  \E it : IsFold(f, S, it)
<1> DEFINE level(n) == {s \in SUBSET S : Cardinality(s) <= n}
           folds(n, it) ==
             it = [s \in level(n) |-> IF s = {} THEN 0 ELSE it[s \ {Chosen(s)}] + f[Chosen(s)]]
           good == {n \in Nat : \E it : folds(n, it)}
<1>1. \A s \in SUBSET S : IsFiniteSet(s) /\ Cardinality(s) \in Nat
        /\ (s # {} => Chosen(s) \in s /\ Cardinality(s \ {Chosen(s)}) = Cardinality(s) - 1)
  <2> SUFFICES ASSUME NEW s \in SUBSET S
               PROVE  IsFiniteSet(s) /\ Cardinality(s) \in Nat
                 /\ (s # {} => Chosen(s) \in s /\ Cardinality(s \ {Chosen(s)}) = Cardinality(s) - 1)
    OBVIOUS
  <2>1. IsFiniteSet(s) /\ Cardinality(s) \in Nat
    BY FS_Subset, FS_CardinalityType
  <2>2. s # {} => Chosen(s) \in s
    BY DEF Chosen
  <2> QED
    BY <2>1, <2>2, FS_RemoveElement
<1>2. 0 \in good
  <2>1. \A s \in level(0) : s = {}
    <3> SUFFICES ASSUME NEW s \in SUBSET S, Cardinality(s) <= 0 PROVE s = {}
      OBVIOUS
    <3>1. IsFiniteSet(s) /\ Cardinality(s) \in Nat
      BY <1>1
    <3>2. Cardinality(s) = 0
      BY <3>1
    <3> QED
      BY <3>1, <3>2, FS_EmptySet
  <2> DEFINE it == [s \in level(0) |-> 0]
  <2>2. folds(0, it)
    <3> HIDE DEF level
    <3> QED
      BY <2>1
  <2> QED
    BY <2>2
<1>3. ASSUME NEW n \in Nat, n \in good PROVE n + 1 \in good
  <2>1. PICK it : folds(n, it)
    BY <1>3
  <2> DEFINE jt == [s \in level(n + 1) |->
                      IF s = {} THEN 0 ELSE it[s \ {Chosen(s)}] + f[Chosen(s)]]
  <2>2. \A s \in level(n) : s \in level(n + 1)
    <3> SUFFICES ASSUME NEW s \in SUBSET S, Cardinality(s) <= n PROVE Cardinality(s) <= n + 1
      OBVIOUS
    <3>1. Cardinality(s) \in Nat
      BY <1>1
    <3> QED
      BY <3>1
  <2>3. \A s \in level(n) : jt[s] = it[s]
    <3> SUFFICES ASSUME NEW s \in level(n) PROVE jt[s] = it[s]
      OBVIOUS
    <3>1. s \in level(n + 1)
      BY <2>2
    <3> HIDE DEF level
    <3>2. jt[s] = IF s = {} THEN 0 ELSE it[s \ {Chosen(s)}] + f[Chosen(s)]
      BY <3>1
    <3>3. it[s] = IF s = {} THEN 0 ELSE it[s \ {Chosen(s)}] + f[Chosen(s)]
      BY <2>1
    <3> QED
      BY <3>2, <3>3
  <2>4. \A s \in level(n + 1) : s # {} => s \ {Chosen(s)} \in level(n)
    BY <1>1
  <2>5. folds(n + 1, jt)
    <3>1. \A s \in level(n + 1) :
            (IF s = {} THEN 0 ELSE it[s \ {Chosen(s)}] + f[Chosen(s)])
              = (IF s = {} THEN 0 ELSE jt[s \ {Chosen(s)}] + f[Chosen(s)])
      <4> HIDE DEF level, jt
      <4> QED
        BY <2>3, <2>4
    <3> HIDE DEF level
    <3> QED
      BY <3>1, Zenon
  <2>6. \E i : folds(n + 1, i)
    <3> HIDE DEF jt, level
    <3> QED
      BY <2>5
  <2>7. n + 1 \in Nat
    OBVIOUS
  <2> HIDE DEF folds
  <2> QED
    BY <2>6, <2>7
<1>4. Cardinality(S) \in good
  <2> HIDE DEF good
  <2> QED
    BY <1>1, <1>2, <1>3, NumberInduction
<1>5. level(Cardinality(S)) = SUBSET S
  BY FS_Subset
<1>6. PICK it : folds(Cardinality(S), it)
  BY <1>4
<1>7. IsFold(f, S, it)
  <2> HIDE DEF level
  <2> QED
    BY <1>5, <1>6 DEF IsFold
<1> QED
  BY <1>7

\* Two such functions agree on a set where the summands do.
LEMMA FoldsAgree ==
  ASSUME NEW f, NEW g, NEW S, NEW T \in SUBSET S, IsFiniteSet(T), NEW i, NEW j,
         IsFold(f, S, i), IsFold(g, T, j), \A x \in T : f[x] = g[x]
  PROVE  i[T] = j[T]
<1> DEFINE good == {s \in SUBSET T : i[s] = j[s]}
<1>1. ASSUME NEW s \in SUBSET T, \A x \in s : s \ {x} \in good PROVE s \in good
  <2>1. i[s] = IF s = {} THEN 0 ELSE i[s \ {Chosen(s)}] + f[Chosen(s)]
    <3>1. s \in SUBSET S
      OBVIOUS
    <3> QED
      BY <3>1 DEF IsFold
  <2>2. j[s] = IF s = {} THEN 0 ELSE j[s \ {Chosen(s)}] + g[Chosen(s)]
    BY DEF IsFold
  <2>3. s # {} => Chosen(s) \in s
    BY DEF Chosen
  <2>4. s # {} => i[s \ {Chosen(s)}] = j[s \ {Chosen(s)}] /\ f[Chosen(s)] = g[Chosen(s)]
    BY <1>1, <2>3
  <2> QED
    BY <2>1, <2>2, <2>4
<1>2. T \in good
  <2> HIDE DEF good
  <2> QED
    BY <1>1, FiniteInduction
<1> QED
  BY <1>2

\* TotalBytes is what such a function gives for the whole set.
LEMMA TotalIsFold ==
  ASSUME NEW f, NEW S, IsFiniteSet(S)
  PROVE  \E it : IsFold(f, S, it) /\ TotalBytes(f, S) = it[S]
<1> DEFINE it == CHOOSE i : IsFold(f, S, i)
<1>1. IsFold(f, S, it)
  BY FoldExists
<1>2. TotalBytes(f, S) = it[S]
  BY DEF TotalBytes, FoldSet, MapThenFoldSet, IsFold, Chosen
<1> QED
  BY <1>1, <1>2

\* Equal summands have equal totals.
LEMMA TotalSame ==
  ASSUME NEW f, NEW g, NEW S, IsFiniteSet(S), \A x \in S : f[x] = g[x]
  PROVE  TotalBytes(f, S) = TotalBytes(g, S)
<1>1. PICK i : IsFold(f, S, i) /\ TotalBytes(f, S) = i[S]
  BY TotalIsFold
<1>2. PICK j : IsFold(g, S, j) /\ TotalBytes(g, S) = j[S]
  BY TotalIsFold
<1> QED
  BY <1>1, <1>2, FoldsAgree

\* A total is the total of the rest and the chosen summand.
LEMMA TotalStarts ==
  ASSUME NEW f, NEW S, IsFiniteSet(S)
  PROVE  TotalBytes(f, S) =
           IF S = {} THEN 0 ELSE TotalBytes(f, S \ {Chosen(S)}) + f[Chosen(S)]
<1>1. PICK i : IsFold(f, S, i) /\ TotalBytes(f, S) = i[S]
  BY TotalIsFold
<1>2. i[S] = IF S = {} THEN 0 ELSE i[S \ {Chosen(S)}] + f[Chosen(S)]
  BY <1>1 DEF IsFold
<1> DEFINE T == S \ {Chosen(S)}
<1>3. IsFiniteSet(T) /\ T \in SUBSET S
  BY FS_Subset
<1> HIDE DEF T
<1>4. PICK j : IsFold(f, T, j) /\ TotalBytes(f, T) = j[T]
  BY <1>3, TotalIsFold
<1>5. i[T] = j[T]
  BY <1>1, <1>3, <1>4, FoldsAgree
<1> QED
  BY <1>1, <1>2, <1>4, <1>5 DEF T

\* A total of natural numbers is one.
LEMMA TotalNat ==
  ASSUME NEW f, NEW S, IsFiniteSet(S), \A x \in S : f[x] \in Nat
  PROVE  TotalBytes(f, S) \in Nat
<1> DEFINE good == {T \in SUBSET S : TotalBytes(f, T) \in Nat}
<1>1. ASSUME NEW T \in SUBSET S, \A x \in T : T \ {x} \in good PROVE T \in good
  <2>1. TotalBytes(f, T) = IF T = {} THEN 0 ELSE TotalBytes(f, T \ {Chosen(T)}) + f[Chosen(T)]
    BY FS_Subset, TotalStarts
  <2>2. T # {} => Chosen(T) \in T
    BY DEF Chosen
  <2>3. T # {} => TotalBytes(f, T \ {Chosen(T)}) \in Nat /\ f[Chosen(T)] \in Nat
    BY <1>1, <2>2
  <2> QED
    BY <2>1, <2>3
<1>2. S \in good
  <2> HIDE DEF good
  <2> QED
    BY <1>1, FiniteInduction
<1> QED
  BY <1>2

\* The order in which the members are taken does not matter.
LEMMA TotalTakes ==
  ASSUME NEW f, NEW S, IsFiniteSet(S), \A x \in S : f[x] \in Nat, NEW y \in S
  PROVE  TotalBytes(f, S) = TotalBytes(f, S \ {y}) + f[y]
<1> DEFINE good == {T \in SUBSET S : \A x \in T : TotalBytes(f, T) = TotalBytes(f, T \ {x}) + f[x]}
<1>1. ASSUME NEW T \in SUBSET S, \A x \in T : T \ {x} \in good PROVE T \in good
  <2> SUFFICES ASSUME NEW x \in T PROVE TotalBytes(f, T) = TotalBytes(f, T \ {x}) + f[x]
    OBVIOUS
  <2> DEFINE c == Chosen(T)
  <2>1. c \in T /\ TotalBytes(f, T) = TotalBytes(f, T \ {c}) + f[c]
    <3>1. IsFiniteSet(T)
      BY FS_Subset
    <3> QED
      BY <3>1, TotalStarts DEF Chosen
  <2> HIDE DEF c
  <2>2. CASE x = c
    BY <2>1, <2>2
  <2>3. CASE x # c
    <3>1. TotalBytes(f, T \ {c}) = TotalBytes(f, (T \ {c}) \ {x}) + f[x]
      BY <1>1, <2>1, <2>3
    <3>2. TotalBytes(f, T \ {x}) = TotalBytes(f, (T \ {x}) \ {c}) + f[c]
      BY <1>1, <2>1, <2>3
    <3>3. (T \ {c}) \ {x} = (T \ {x}) \ {c}
      OBVIOUS
    <3> DEFINE rest == (T \ {x}) \ {c}
    <3>4. TotalBytes(f, rest) \in Nat /\ f[x] \in Nat /\ f[c] \in Nat
      <4>1. rest \in SUBSET S
        OBVIOUS
      <4> HIDE DEF rest
      <4>2. IsFiniteSet(rest) /\ \A z \in rest : f[z] \in Nat
        BY <4>1, FS_Subset
      <4> QED
        BY <2>1, <4>2, TotalNat
    <3> QED
      BY <2>1, <3>1, <3>2, <3>3, <3>4
  <2> QED
    BY <2>2, <2>3
<1>2. S \in good
  <2> HIDE DEF good
  <2> QED
    BY <1>1, FiniteInduction
<1> QED
  BY <1>2

\* The total over two disjoint sets is the sum of their totals.
LEMMA TotalOfParts ==
  ASSUME NEW f, NEW S, NEW T, IsFiniteSet(S), IsFiniteSet(T), S \cap T = {},
         \A x \in S \cup T : f[x] \in Nat
  PROVE  TotalBytes(f, S \cup T) = TotalBytes(f, S) + TotalBytes(f, T)
<1> DEFINE good == {U \in SUBSET T : TotalBytes(f, S \cup U) = TotalBytes(f, S) + TotalBytes(f, U)}
<1>0. \A U \in SUBSET (S \cup T) :
        IsFiniteSet(U) /\ (\A x \in U : f[x] \in Nat) /\ TotalBytes(f, U) \in Nat
  BY FS_Union, FS_Subset, TotalNat
<1>1. ASSUME NEW U \in SUBSET T, \A x \in U : U \ {x} \in good PROVE U \in good
  <2>1. CASE U = {}
    <3>1. TotalBytes(f, {}) = 0
      BY FS_EmptySet, TotalStarts
    <3>2. S \cup U = S /\ TotalBytes(f, S) \in Nat
      BY <1>0, <2>1
    <3> QED
      BY <2>1, <3>1, <3>2
  <2>2. ASSUME NEW x \in U PROVE U \in good
    <3>1. (S \cup U) \ {x} = S \cup (U \ {x})
      BY <2>2
    <3>2. TotalBytes(f, S \cup (U \ {x})) = TotalBytes(f, S) + TotalBytes(f, U \ {x})
      BY <1>1, <2>2
    <3>3. TotalBytes(f, S \cup U) = TotalBytes(f, (S \cup U) \ {x}) + f[x]
      <4>1. S \cup U \in SUBSET (S \cup T) /\ x \in S \cup U
        OBVIOUS
      <4>2. IsFiniteSet(S \cup U) /\ \A z \in S \cup U : f[z] \in Nat
        BY <1>0, <4>1
      <4> QED
        BY <4>1, <4>2, TotalTakes
    <3>4. TotalBytes(f, U) = TotalBytes(f, U \ {x}) + f[x]
      <4>1. IsFiniteSet(U) /\ \A z \in U : f[z] \in Nat
        BY <1>0
      <4> QED
        BY <2>2, <4>1, TotalTakes
    <3>5. TotalBytes(f, S) \in Nat /\ TotalBytes(f, U \ {x}) \in Nat /\ f[x] \in Nat
      BY <1>0
    <3> DEFINE rest == U \ {x}
    <3>6. TotalBytes(f, S \cup U) = (TotalBytes(f, S) + TotalBytes(f, rest)) + f[x]
      BY <3>1, <3>2, <3>3
    <3>7. TotalBytes(f, U) = TotalBytes(f, rest) + f[x]
      BY <3>4
    <3>8. TotalBytes(f, S) \in Nat /\ TotalBytes(f, rest) \in Nat /\ f[x] \in Nat
      BY <3>5
    <3> HIDE DEF rest
    <3>9. TotalBytes(f, S \cup U) = TotalBytes(f, S) + TotalBytes(f, U)
      BY <3>6, <3>7, <3>8
    <3> QED
      BY <3>9
  <2> QED
    BY <2>1, <2>2
<1>2. T \in good
  <2> HIDE DEF good
  <2> QED
    BY <1>1, FiniteInduction
<1> QED
  BY <1>2

\* A part totals no more than the whole.
LEMMA TotalOfSubset ==
  ASSUME NEW f, NEW S, IsFiniteSet(S), NEW T \in SUBSET S, \A x \in S : f[x] \in Nat
  PROVE  TotalBytes(f, T) <= TotalBytes(f, S)
<1>1. IsFiniteSet(T) /\ IsFiniteSet(S \ T) /\ T \cup (S \ T) = S /\ T \cap (S \ T) = {}
  BY FS_Subset
<1>2. TotalBytes(f, S) = TotalBytes(f, T) + TotalBytes(f, S \ T)
  <2> DEFINE U == S \ T
  <2>1. TotalBytes(f, T \cup U) = TotalBytes(f, T) + TotalBytes(f, U)
    <3> HIDE DEF U
    <3> QED
      BY <1>1, TotalOfParts DEF U
  <2> QED
    BY <1>1, <2>1
<1>3. TotalBytes(f, T) \in Nat /\ TotalBytes(f, S \ T) \in Nat
  BY <1>1, TotalNat
<1> QED
  BY <1>2, <1>3

\* Where each summand is bounded, to scale, so is the total.
LEMMA TotalScaled ==
  ASSUME NEW f, NEW g, NEW S, IsFiniteSet(S), NEW a \in Nat, NEW b \in Nat,
         \A x \in S : f[x] \in Nat /\ g[x] \in Nat /\ a * f[x] <= b * g[x]
  PROVE  a * TotalBytes(f, S) <= b * TotalBytes(g, S)
<1> DEFINE good == {T \in SUBSET S : a * TotalBytes(f, T) <= b * TotalBytes(g, T)}
<1>1. ASSUME NEW T \in SUBSET S, \A x \in T : T \ {x} \in good PROVE T \in good
  <2>0. IsFiniteSet(T)
    BY FS_Subset
  <2>1. CASE T = {}
    <3>1. TotalBytes(f, T) = 0 /\ TotalBytes(g, T) = 0
      BY <2>0, <2>1, TotalStarts
    <3> QED
      BY <3>1
  <2>2. ASSUME NEW x \in T PROVE T \in good
    <3> DEFINE U == T \ {x}
    <3>1. TotalBytes(f, T) = TotalBytes(f, U) + f[x] /\ TotalBytes(g, T) = TotalBytes(g, U) + g[x]
      BY <2>0, TotalTakes
    <3>2. TotalBytes(f, U) \in Nat /\ TotalBytes(g, U) \in Nat /\ f[x] \in Nat /\ g[x] \in Nat
      <4>1. IsFiniteSet(U) /\ \A z \in U : f[z] \in Nat /\ g[z] \in Nat
        BY <2>0, FS_Subset
      <4> HIDE DEF U
      <4> QED
        BY <4>1, TotalNat
    <3>3. a * TotalBytes(f, U) <= b * TotalBytes(g, U) /\ a * f[x] <= b * g[x]
      BY <1>1
    <3>4. a * TotalBytes(f, T) = a * TotalBytes(f, U) + a * f[x]
      BY <3>1, <3>2
    <3>5. b * TotalBytes(g, T) = b * TotalBytes(g, U) + b * g[x]
      BY <3>1, <3>2
    <3> DEFINE af == a * TotalBytes(f, U)
               ax == a * f[x]
               bg == b * TotalBytes(g, U)
               bx == b * g[x]
    <3>6. af \in Nat /\ ax \in Nat /\ bg \in Nat /\ bx \in Nat /\ af <= bg /\ ax <= bx
      BY <3>2, <3>3
    <3>7. af + ax <= bg + bx
      <4> HIDE DEF af, ax, bg, bx
      <4> QED
        BY <3>6
    <3> QED
      BY <3>4, <3>5, <3>7
  <2> QED
    BY <2>1, <2>2
<1>2. S \in good
  <2> HIDE DEF good
  <2> QED
    BY <1>1, FiniteInduction
<1> QED
  BY <1>2

\* The total of sums is the sum of the totals.
LEMMA TotalOfSums ==
  ASSUME NEW f, NEW g, NEW h, NEW S, IsFiniteSet(S),
         \A x \in S : f[x] \in Nat /\ g[x] \in Nat /\ h[x] = f[x] + g[x]
  PROVE  TotalBytes(h, S) = TotalBytes(f, S) + TotalBytes(g, S)
<1> DEFINE good == {T \in SUBSET S : TotalBytes(h, T) = TotalBytes(f, T) + TotalBytes(g, T)}
<1>1. ASSUME NEW T \in SUBSET S, \A x \in T : T \ {x} \in good PROVE T \in good
  <2>0. IsFiniteSet(T) /\ \A x \in T : h[x] \in Nat
    BY FS_Subset
  <2>1. CASE T = {}
    <3>1. TotalBytes(f, T) = 0 /\ TotalBytes(g, T) = 0 /\ TotalBytes(h, T) = 0
      BY <2>0, <2>1, TotalStarts
    <3> QED
      BY <3>1
  <2>2. ASSUME NEW x \in T PROVE T \in good
    <3> DEFINE U == T \ {x}
    <3>1. /\ TotalBytes(f, T) = TotalBytes(f, U) + f[x]
          /\ TotalBytes(g, T) = TotalBytes(g, U) + g[x]
          /\ TotalBytes(h, T) = TotalBytes(h, U) + h[x]
      BY <2>0, TotalTakes
    <3>2. TotalBytes(f, U) \in Nat /\ TotalBytes(g, U) \in Nat /\ f[x] \in Nat /\ g[x] \in Nat
      <4>1. IsFiniteSet(U) /\ \A z \in U : f[z] \in Nat /\ g[z] \in Nat
        BY <2>0, FS_Subset
      <4> HIDE DEF U
      <4> QED
        BY <4>1, TotalNat
    <3>3. TotalBytes(h, U) = TotalBytes(f, U) + TotalBytes(g, U) /\ h[x] = f[x] + g[x]
      BY <1>1
    <3> QED
      BY <3>1, <3>2, <3>3
  <2> QED
    BY <2>1, <2>2
<1>2. S \in good
  <2> HIDE DEF good
  <2> QED
    BY <1>1, FiniteInduction
<1> QED
  BY <1>2

-----------------------------------------------------------------------------
CapRuns == [nr : Nat \ {0}, size : Nat, whole : BOOLEAN, fresh : BOOLEAN]
CapJobs == [at : {"idle", "upload", "commit", "prune"}, nr : Nat, drops : Nat, size : Nat,
            counted : SUBSET (RunLayers \X (Nat \ {0}))]
CapTypeOK ==
  /\ runsOf \in [RunLayers -> SUBSET CapRuns] /\ \A k \in RunLayers : IsFiniteSet(runsOf[k])
  /\ retained \in [RunLayers -> Nat \X Nat]
  /\ work \in [RunLayers -> CapJobs]

\* Runs are numbered upwards, the retained ones and those of a live job are whole when they
\* are stored, and none is larger than it may be.
LayerFits(k, rs, ret, w) ==
  /\ \A r \in rs : r.size <= Largest(k) /\ r.nr <= LastRun + 2
  /\ \A r, s \in rs : r.nr = s.nr => r = s
  /\ ret[2] < ret[1] \/ ret = <<0, 0>>
  /\ \A r \in rs : r.nr \in {ret[1], ret[2]} => r.whole
  /\ w.at = "idle" => w.nr = 0 /\ w.drops = 0 /\ w.counted = {}
  /\ w.at = "upload" =>
       /\ w.nr \in 1..LastRun /\ w.nr > ret[1] /\ w.drops = 0 /\ w.size \in 1..Largest(k)
       /\ \A r \in rs : r.nr < w.nr
  /\ w.at = "commit" =>
       /\ w.nr > ret[1] /\ w.drops = 0
       /\ \A r \in rs : r.nr = w.nr => r.whole
  /\ w.at = "prune" =>
       /\ w.nr = ret[1] /\ ret[1] > 0 /\ (w.drops < ret[2] \/ w.drops = 0)
       /\ \A r \in rs : r.nr = w.drops => r.whole

\* A run that nothing names or will name: it is there and old, or its number is used up.
Spent(n, rs, ret, w) ==
  /\ n \notin {w.nr, w.drops, ret[1], ret[2]}
  /\ n < ret[1] \/ \E r \in rs : r.nr = n
  /\ \A r \in rs : r.nr = n => ~r.fresh

\* An admission counted what was spent; what of it is still there fits beside all that is
\* reserved.
CountedOK(j) ==
  \A k \in RunLayers, n \in Nat \ {0} :
    <<k, n>> \in work[j].counted => Spent(n, runsOf[k], retained[k], work[k])
Counted(j) == [k \in RunLayers |-> {r \in Orphans(k) : <<k, r.nr>> \in work[j].counted}]
ReserveOK(j) ==
  j \in AllocatedLayers /\ work[j].at # "idle" =>
    ExistingPeak + 3 * TotalBytes(RunCap, AllocatedLayers) + Elsewhere
      + BytesIn(Counted(j)) + HeadroomBytes <= BucketLimit

CapInv ==
  /\ CapTypeOK
  /\ \A k \in RunLayers : LayerFits(k, runsOf[k], retained[k], work[k])
  /\ \A j \in RunLayers : CountedOK(j) /\ ReserveOK(j)

-----------------------------------------------------------------------------
\* The largest run of a layer has a positive size.
LEMMA LargestNat == \A k \in RunLayers : Largest(k) \in Nat \ {0}
<1> SUFFICES ASSUME NEW k \in RunLayers PROVE Largest(k) \in Nat \ {0}
  OBVIOUS
<1>1. CASE k \in RootLayers
  <2>1. Measured[k] \in Nat \ {0} /\ Largest(k) = (Measured[k] * 110) \div 100
    BY <1>1, CapacityConstants DEF Largest
  <2> DEFINE m == Measured[k]
  <2>2. m \in Nat \ {0} => (m * 110) \div 100 \in Nat \ {0}
    <3> HIDE DEF m
    <3> QED
      OBVIOUS
  <2> QED
    BY <2>1, <2>2
<1>2. CASE k \notin RootLayers
  BY <1>2, CapacityConstants DEF Largest, RunLayers
<1> QED
  BY <1>1, <1>2

\* The bytes of a set of runs are those of a part and of the rest.
LEMMA BytesOf ==
  ASSUME NEW S \in SUBSET CapRuns, IsFiniteSet(S), NEW T \in SUBSET S
  PROVE  /\ Bytes(S) \in Nat /\ Bytes(T) \in Nat /\ Bytes(T) <= Bytes(S)
         /\ Bytes(S) = Bytes(T) + Bytes(S \ T)
<1> DEFINE f == [r \in S |-> r.size]
           g == [r \in T |-> r.size]
           U == S \ T
           h == [r \in U |-> r.size]
<1>1. IsFiniteSet(T) /\ IsFiniteSet(U) /\ T \cup U = S /\ T \cap U = {}
  BY FS_Subset
<1>2. \A r \in S : f[r] \in Nat
  BY DEF CapRuns
<1>3. \A r \in T : f[r] = g[r]
  OBVIOUS
<1>4. \A r \in U : f[r] = h[r]
  OBVIOUS
<1>5. Bytes(S) = TotalBytes(f, S) /\ Bytes(T) = TotalBytes(g, T) /\ Bytes(U) = TotalBytes(h, U)
  BY DEF Bytes
<1> HIDE DEF f, g, h, U
<1>6. TotalBytes(f, T) = TotalBytes(g, T) /\ TotalBytes(f, U) = TotalBytes(h, U)
  BY <1>1, <1>3, <1>4, TotalSame
<1>7. TotalBytes(f, T \cup U) = TotalBytes(f, T) + TotalBytes(f, U)
  BY <1>1, <1>2, TotalOfParts
<1>8. TotalBytes(f, T) \in Nat /\ TotalBytes(f, U) \in Nat
  BY <1>1, <1>2, TotalNat
<1>9. Bytes(S) = Bytes(T) + Bytes(U) /\ Bytes(T) \in Nat /\ Bytes(U) \in Nat
  BY <1>1, <1>5, <1>6, <1>7, <1>8
<1> QED
  BY <1>9 DEF U

\* Contents of the catalogues, by layer.
AllStored(rs) == \A k \in RunLayers : rs[k] \subseteq CapRuns /\ IsFiniteSet(rs[k])

\* More runs stored in each layer are no fewer bytes.
LEMMA BytesInMore ==
  ASSUME NEW a, NEW b, AllStored(b), \A k \in RunLayers : a[k] \subseteq b[k]
  PROVE  BytesIn(a) \in Nat /\ BytesIn(b) \in Nat /\ BytesIn(a) <= BytesIn(b)
<1> DEFINE f == [k \in RunLayers |-> Bytes(a[k])]
           g == [k \in RunLayers |-> Bytes(b[k])]
<1>1. \A k \in RunLayers : f[k] \in Nat /\ g[k] \in Nat /\ 1 * f[k] <= 1 * g[k]
  <2> SUFFICES ASSUME NEW k \in RunLayers PROVE f[k] \in Nat /\ g[k] \in Nat /\ f[k] <= g[k]
    OBVIOUS
  <2>1. Bytes(a[k]) \in Nat /\ Bytes(b[k]) \in Nat /\ Bytes(a[k]) <= Bytes(b[k])
    BY BytesOf DEF AllStored
  <2> QED
    BY <2>1
<1>2. IsFiniteSet(RunLayers)
  BY CapacityConstants
<1>3. BytesIn(a) = TotalBytes(f, RunLayers) /\ BytesIn(b) = TotalBytes(g, RunLayers)
  BY DEF BytesIn
<1> HIDE DEF f, g
<1>4. TotalBytes(f, RunLayers) \in Nat /\ TotalBytes(g, RunLayers) \in Nat
  BY <1>1, <1>2, TotalNat
<1>5. 1 * TotalBytes(f, RunLayers) <= 1 * TotalBytes(g, RunLayers)
  BY <1>1, <1>2, TotalScaled
<1> QED
  BY <1>3, <1>4, <1>5

\* The bytes of all layers, split layer by layer into two parts.
LEMMA BytesInParts ==
  ASSUME NEW a, NEW b, NEW c, AllStored(c),
         \A k \in RunLayers : a[k] \subseteq c[k] /\ b[k] = c[k] \ a[k]
  PROVE  BytesIn(c) = BytesIn(a) + BytesIn(b)
<1> DEFINE f == [k \in RunLayers |-> Bytes(a[k])]
           g == [k \in RunLayers |-> Bytes(b[k])]
           h == [k \in RunLayers |-> Bytes(c[k])]
<1>1. \A k \in RunLayers : f[k] \in Nat /\ g[k] \in Nat /\ h[k] = f[k] + g[k]
  <2> SUFFICES ASSUME NEW k \in RunLayers PROVE f[k] \in Nat /\ g[k] \in Nat /\ h[k] = f[k] + g[k]
    OBVIOUS
  <2>1. a[k] \subseteq c[k] /\ b[k] \subseteq c[k] /\ b[k] = c[k] \ a[k]
        /\ c[k] \subseteq CapRuns /\ IsFiniteSet(c[k])
    BY DEF AllStored
  <2>2. Bytes(a[k]) \in Nat /\ Bytes(b[k]) \in Nat
    BY <2>1, BytesOf
  <2>3. Bytes(c[k]) = Bytes(a[k]) + Bytes(c[k] \ a[k])
    BY <2>1, BytesOf
  <2> QED
    BY <2>1, <2>2, <2>3
<1>2. IsFiniteSet(RunLayers)
  BY CapacityConstants
<1>3. BytesIn(a) = TotalBytes(f, RunLayers) /\ BytesIn(b) = TotalBytes(g, RunLayers)
      /\ BytesIn(c) = TotalBytes(h, RunLayers)
  BY DEF BytesIn
<1> HIDE DEF f, g, h
<1> QED
  BY <1>1, <1>2, <1>3, TotalOfSums

-----------------------------------------------------------------------------
\* Three runs of a layer at most are neither orphans nor in need of being counted.
LEMMA OneRun ==
  ASSUME NEW S \in SUBSET CapRuns, IsFiniteSet(S), NEW n \in Nat,
         \A r, s \in S : r = s, \A r \in S : r.size <= n
  PROVE  Bytes(S) \in Nat /\ Bytes(S) <= n
<1> DEFINE f == [r \in S |-> r.size]
<1>1. Bytes(S) = IF S = {} THEN 0 ELSE TotalBytes(f, S \ {Chosen(S)}) + f[Chosen(S)]
  BY TotalStarts DEF Bytes
<1>2. CASE S = {}
  BY <1>1, <1>2
<1>3. CASE S # {}
  <2>1. Chosen(S) \in S
    BY <1>3 DEF Chosen
  <2>2. S \ {Chosen(S)} = {}
    BY <2>1
  <2>3. TotalBytes(f, {}) = 0
    BY FS_EmptySet, TotalStarts
  <2>4. f[Chosen(S)] \in Nat /\ f[Chosen(S)] <= n
    BY <2>1 DEF CapRuns
  <2> HIDE DEF f
  <2> QED
    BY <1>1, <1>3, <2>2, <2>3, <2>4
<1> QED
  BY <1>2, <1>3

\* Runs of three numbers take at most three times the largest.
LEMMA ThreeRuns ==
  ASSUME NEW S \in SUBSET CapRuns, IsFiniteSet(S), NEW n \in Nat, NEW a, NEW b, NEW c,
         \A r, s \in S : r.nr = s.nr => r = s,
         \A r \in S : r.size <= n /\ r.nr \in {a, b, c}
  PROVE  Bytes(S) \in Nat /\ Bytes(S) <= 3 * n
<1> DEFINE A == {r \in S : r.nr = a}
           R == S \ A
           B == {r \in R : r.nr = b}
           C == R \ B
<1>1. A \in SUBSET CapRuns /\ R \in SUBSET CapRuns /\ B \in SUBSET CapRuns /\ C \in SUBSET CapRuns
      /\ IsFiniteSet(A) /\ IsFiniteSet(R) /\ IsFiniteSet(B) /\ IsFiniteSet(C)
      /\ A \in SUBSET S /\ B \in SUBSET R
  BY FS_Subset
<1>2. (\A r, s \in A : r = s) /\ (\A r, s \in B : r = s) /\ (\A r, s \in C : r = s)
  OBVIOUS
<1>3. \A r \in A \cup B \cup C : r.size <= n
  OBVIOUS
<1>4. Bytes(S) = Bytes(A) + Bytes(R) /\ Bytes(R) = Bytes(B) + Bytes(C)
  <2>1. Bytes(S) = Bytes(A) + Bytes(S \ A)
    <3> HIDE DEF A
    <3> QED
      BY <1>1, BytesOf
  <2>2. Bytes(R) = Bytes(B) + Bytes(R \ B)
    <3> HIDE DEF B, R
    <3> QED
      BY <1>1, BytesOf
  <2> QED
    BY <2>1, <2>2
<1> HIDE DEF A, R, B, C
<1>5. Bytes(A) \in Nat /\ Bytes(A) <= n
  BY <1>1, <1>2, <1>3, OneRun
<1>6. Bytes(B) \in Nat /\ Bytes(B) <= n
  BY <1>1, <1>2, <1>3, OneRun
<1>7. Bytes(C) \in Nat /\ Bytes(C) <= n
  BY <1>1, <1>2, <1>3, OneRun
<1> QED
  BY <1>4, <1>5, <1>6, <1>7

KeptRuns == [k \in RunLayers |-> runsOf[k] \ Orphans(k)]

\* What is kept of a layer is at most three of its largest runs.
LEMMA KeptBytes ==
  ASSUME CapInv, NEW k \in RunLayers
  PROVE  Bytes(KeptRuns[k]) \in Nat /\ Bytes(KeptRuns[k]) <= 3 * Largest(k)
<1> DEFINE third == IF work[k].at = "prune" THEN work[k].drops ELSE work[k].nr
           S == KeptRuns[k]
<1>1. /\ runsOf[k] \subseteq CapRuns /\ IsFiniteSet(runsOf[k])
      /\ work[k].at \in {"idle", "upload", "commit", "prune"}
      /\ LayerFits(k, runsOf[k], retained[k], work[k])
  BY DEF CapInv, CapTypeOK, CapJobs
<1>2. S \subseteq runsOf[k]
  BY DEF KeptRuns
<1>3. S \in SUBSET CapRuns /\ IsFiniteSet(S)
  BY <1>1, <1>2, FS_Subset
<1>4. \A r \in S : r.nr \in {retained[k][1], retained[k][2], third}
  <2> SUFFICES ASSUME NEW r \in S, r.nr # retained[k][1], r.nr # retained[k][2]
               PROVE  r.nr = third
    OBVIOUS
  <2>1. r \in runsOf[k] /\ r.nr \in {work[k].nr, work[k].drops} /\ r.nr # 0
    BY <1>1 DEF KeptRuns, Orphans, Named, CapRuns
  <2>2. CASE work[k].at = "prune"
    BY <1>1, <2>1, <2>2 DEF LayerFits
  <2>3. CASE work[k].at # "prune"
    <3>1. work[k].drops = 0
      BY <1>1, <2>3 DEF LayerFits
    <3> QED
      BY <2>1, <2>3, <3>1
  <2> QED
    BY <2>2, <2>3
<1>5. \A r \in S : r.size <= Largest(k)
  BY <1>1, <1>2 DEF LayerFits
<1>6. \A r, s \in S : r.nr = s.nr => r = s
  BY <1>1, <1>2 DEF LayerFits
<1>7. Largest(k) \in Nat
  BY LargestNat
<1> HIDE DEF S, third
<1>8. Bytes(S) \in Nat /\ Bytes(S) <= 3 * Largest(k)
  BY <1>3, <1>4, <1>5, <1>6, <1>7, ThreeRuns
<1> QED
  BY <1>8 DEF S

\* Rounding up.
LEMMA RoundsUp ==
  ASSUME NEW n \in Nat, NEW unit \in Nat \ {0}
  PROVE  RoundUp(n, unit) \in Nat /\ RoundUp(n, unit) >= n
<1> DEFINE x == n + unit - 1
           q == x \div unit
           m == x % unit
<1>1. x \in Nat
  OBVIOUS
<1>2. x = unit * q + m /\ m \in 0..unit - 1 /\ q \in Nat
  <2> HIDE DEF x
  <2> QED
    BY <1>1, Remainders
<1>3. RoundUp(n, unit) = q * unit
  BY DEF RoundUp
<1>4. q * unit = unit * q /\ unit * q \in Nat
  <2> HIDE DEF q
  <2> QED
    BY <1>2
<1> DEFINE y == unit * q
<1>5. y \in Nat /\ n + unit - 1 = y + m /\ m \in 0..unit - 1
  BY <1>2, <1>4
<1>6. y >= n
  <2> HIDE DEF y, m, q
  <2> QED
    BY <1>5
<1> QED
  BY <1>3, <1>4, <1>6

\* Three of the largest runs of every layer are within the reserve.
LEMMA ThreeOfEach ==
  TotalBytes([k \in RunLayers |-> 3 * Largest(k)], RunLayers) \in Nat
  /\ TotalBytes(RunCap, AllocatedLayers) \in Nat /\ ExistingPeak \in Nat
  /\ TotalBytes([k \in RunLayers |-> 3 * Largest(k)], RunLayers)
       <= ExistingPeak + 3 * TotalBytes(RunCap, AllocatedLayers)
<1> DEFINE f == [k \in RunLayers |-> 3 * Largest(k)]
           root == TotalBytes(f, RootLayers)
           allocated == TotalBytes(f, AllocatedLayers)
           measured == TotalBytes(Measured, RootLayers)
           capped == TotalBytes(RunCap, AllocatedLayers)
<1>1. \A k \in RunLayers : f[k] \in Nat
  <2> SUFFICES ASSUME NEW k \in RunLayers PROVE 3 * Largest(k) \in Nat
    OBVIOUS
  <2>1. Largest(k) \in Nat
    BY LargestNat
  <2> QED
    BY <2>1
<1>2. /\ IsFiniteSet(RootLayers) /\ IsFiniteSet(AllocatedLayers) /\ IsFiniteSet(RunLayers)
      /\ RootLayers \cap AllocatedLayers = {} /\ RunLayers = RootLayers \cup AllocatedLayers
  BY CapacityConstants, FS_Subset DEF RunLayers
<1>3. TotalBytes(f, RunLayers) = root + allocated /\ root \in Nat /\ allocated \in Nat
  <2> HIDE DEF f
  <2>1. TotalBytes(f, RootLayers \cup AllocatedLayers) = root + allocated
    BY <1>1, <1>2, TotalOfParts
  <2> QED
    BY <1>1, <1>2, <2>1, TotalNat
<1>4. measured \in Nat /\ capped \in Nat
  BY <1>2, CapacityConstants, TotalNat
<1>5. allocated <= 3 * capped
  <2>1. \A k \in AllocatedLayers : f[k] \in Nat /\ RunCap[k] \in Nat /\ 1 * f[k] <= 3 * RunCap[k]
    <3> SUFFICES ASSUME NEW k \in AllocatedLayers
                 PROVE  f[k] \in Nat /\ RunCap[k] \in Nat /\ f[k] <= 3 * RunCap[k]
      BY <1>1, <1>2
    <3>1. f[k] = 3 * RunCap[k] /\ RunCap[k] \in Nat
      BY <1>2, CapacityConstants DEF Largest
    <3> QED
      BY <3>1
  <2> HIDE DEF f
  <2>2. 1 * allocated <= 3 * capped
    BY <1>2, <2>1, TotalScaled
  <2> QED
    BY <1>3, <2>2
<1>6. 100 * root <= 330 * measured
  <2>1. \A k \in RootLayers : f[k] \in Nat /\ Measured[k] \in Nat /\ 100 * f[k] <= 330 * Measured[k]
    <3> SUFFICES ASSUME NEW k \in RootLayers
                 PROVE  f[k] \in Nat /\ Measured[k] \in Nat /\ 100 * f[k] <= 330 * Measured[k]
      OBVIOUS
    <3> DEFINE m == Measured[k]
    <3>1. f[k] = 3 * ((m * 110) \div 100) /\ m \in Nat
      BY <1>2, CapacityConstants DEF Largest
    <3>2. 100 * (3 * ((m * 110) \div 100)) <= 330 * m
      <4> HIDE DEF m
      <4> QED
        BY <3>1
    <3>3. f[k] \in Nat
      BY <1>1, <1>2
    <3> QED
      BY <3>1, <3>2, <3>3
  <2> HIDE DEF f
  <2> QED
    BY <1>2, <2>1, TotalScaled
<1>7. root <= ExistingPeak /\ ExistingPeak \in Nat
  <2> DEFINE n == (3 * measured * 110 + 99) \div 100
  <2>1. n \in Nat /\ root <= n
    <3> HIDE DEF root, measured
    <3> QED
      BY <1>3, <1>4, <1>6
  <2>2. ExistingPeak = RoundUp(n, PeakUnit)
    BY DEF ExistingPeak
  <2> HIDE DEF n, root
  <2>3. RoundUp(n, PeakUnit) \in Nat /\ RoundUp(n, PeakUnit) >= n
    BY <2>1, CapacityConstants, RoundsUp
  <2> QED
    BY <1>3, <2>1, <2>2, <2>3
<1> HIDE DEF root, allocated, measured, capped, f
<1>8. TotalBytes(f, RunLayers) \in Nat /\ TotalBytes(f, RunLayers) <= ExistingPeak + 3 * capped
  BY <1>3, <1>4, <1>5, <1>7
<1> QED
  BY <1>4, <1>7, <1>8 DEF capped, f

\* The invariant gives the guarantee of the byte guards.
LEMMA CapacityFollows == CapInv => CapacityHolds
<1> SUFFICES ASSUME CapInv, NEW l \in AllocatedLayers, work[l].at # "idle"
             PROVE  Physical + HeadroomBytes <= BucketLimit + BytesIn(Uncounted(l))
  BY DEF CapacityHolds
<1> DEFINE orphans == [k \in RunLayers |-> Orphans(k)]
<1>1. l \in RunLayers /\ ReserveOK(l)
  BY DEF CapInv, RunLayers
<1>2. AllStored(runsOf)
  BY DEF AllStored, CapInv, CapTypeOK
<1>3. \A k \in RunLayers : Orphans(k) \subseteq runsOf[k]
  BY DEF Orphans
<1>4. AllStored(orphans) /\ AllStored(KeptRuns)
  BY <1>2, <1>3, FS_Subset DEF AllStored, KeptRuns
<1>5. BytesIn(runsOf) = BytesIn(orphans) + BytesIn(KeptRuns)
  <2>1. \A k \in RunLayers : orphans[k] \subseteq runsOf[k] /\ KeptRuns[k] = runsOf[k] \ orphans[k]
    BY <1>3 DEF KeptRuns
  <2> HIDE DEF orphans
  <2> QED
    BY <1>2, <2>1, BytesInParts
<1>6. BytesIn(orphans) = BytesIn(Counted(l)) + BytesIn(Uncounted(l))
  <2>1. \A k \in RunLayers : Counted(l)[k] \subseteq orphans[k]
          /\ Uncounted(l)[k] = orphans[k] \ Counted(l)[k]
    BY DEF Counted, Uncounted
  <2> HIDE DEF orphans
  <2> QED
    BY <1>4, <2>1, BytesInParts
<1>7. BytesIn(KeptRuns) \in Nat
      /\ BytesIn(KeptRuns) <= ExistingPeak + 3 * TotalBytes(RunCap, AllocatedLayers)
  <2> DEFINE f == [k \in RunLayers |-> Bytes(KeptRuns[k])]
             g == [k \in RunLayers |-> 3 * Largest(k)]
  <2>1. \A k \in RunLayers : f[k] \in Nat /\ g[k] \in Nat /\ 1 * f[k] <= 1 * g[k]
    <3> SUFFICES ASSUME NEW k \in RunLayers PROVE f[k] \in Nat /\ g[k] \in Nat /\ f[k] <= g[k]
      OBVIOUS
    <3>1. Bytes(KeptRuns[k]) \in Nat /\ Bytes(KeptRuns[k]) <= 3 * Largest(k) /\ Largest(k) \in Nat
      BY KeptBytes, LargestNat
    <3> QED
      BY <3>1
  <2>2. IsFiniteSet(RunLayers)
    BY CapacityConstants
  <2>3. BytesIn(KeptRuns) = TotalBytes(f, RunLayers)
    BY DEF BytesIn
  <2>4. /\ TotalBytes(g, RunLayers) \in Nat /\ TotalBytes(RunCap, AllocatedLayers) \in Nat
        /\ ExistingPeak \in Nat
        /\ TotalBytes(g, RunLayers) <= ExistingPeak + 3 * TotalBytes(RunCap, AllocatedLayers)
    BY ThreeOfEach
  <2> HIDE DEF f, g
  <2>5. TotalBytes(f, RunLayers) \in Nat
        /\ 1 * TotalBytes(f, RunLayers) <= 1 * TotalBytes(g, RunLayers)
    BY <2>1, <2>2, TotalNat, TotalScaled
  <2> QED
    BY <2>3, <2>4, <2>5
<1>8. ExistingPeak + 3 * TotalBytes(RunCap, AllocatedLayers) + Elsewhere
        + BytesIn(Counted(l)) + HeadroomBytes <= BucketLimit
  BY <1>1 DEF ReserveOK
<1>9. BytesIn(Counted(l)) \in Nat /\ BytesIn(Uncounted(l)) \in Nat
  <2>1. \A k \in RunLayers : Counted(l)[k] \subseteq orphans[k]
        /\ Uncounted(l)[k] \subseteq orphans[k]
    BY DEF Counted, Uncounted
  <2> HIDE DEF orphans
  <2> QED
    BY <1>4, <2>1, BytesInMore
<1>10. /\ Elsewhere \in Nat /\ HeadroomBytes \in Nat /\ BucketLimit \in Nat
       /\ ExistingPeak \in Nat /\ TotalBytes(RunCap, AllocatedLayers) \in Nat
  BY CapacityConstants, ThreeOfEach
<1> HIDE DEF orphans
<1> QED
  BY <1>5, <1>6, <1>7, <1>8, <1>9, <1>10 DEF Physical

-----------------------------------------------------------------------------
\* What a step makes of its layer.
Keeps(k, rs, ret, w, R, T, W) ==
  /\ R \subseteq CapRuns /\ IsFiniteSet(R) /\ T \in Nat \X Nat /\ W \in CapJobs
  /\ LayerFits(k, R, T, W)
  /\ \A n \in Nat \ {0} : Spent(n, rs, ret, w) => Spent(n, R, T, W)
  /\ \A r \in R \ rs : ~Spent(r.nr, rs, ret, w)

Becomes(l, R, T, W) ==
  /\ runsOf' = [runsOf EXCEPT ![l] = R]
  /\ retained' = [retained EXCEPT ![l] = T]
  /\ work' = [work EXCEPT ![l] = W]

\* A step of one layer's job that keeps its layer in bounds changes no other layer.
LEMMA StepMoves ==
  ASSUME CapInv, NEW l \in RunLayers, NEW R, NEW T, NEW W, Becomes(l, R, T, W),
         Keeps(l, runsOf[l], retained[l], work[l], R, T, W)
  PROVE  /\ CapTypeOK'
         /\ runsOf'[l] = R /\ retained'[l] = T /\ work'[l] = W
         /\ \A k \in RunLayers \ {l} :
              runsOf'[k] = runsOf[k] /\ retained'[k] = retained[k] /\ work'[k] = work[k]
         /\ \A k \in RunLayers : LayerFits(k, runsOf'[k], retained'[k], work'[k])
<1>1. CapTypeOK /\ \A k \in RunLayers : LayerFits(k, runsOf[k], retained[k], work[k])
  BY DEF CapInv
<1>2. /\ runsOf'[l] = R /\ retained'[l] = T /\ work'[l] = W
      /\ \A k \in RunLayers \ {l} :
           runsOf'[k] = runsOf[k] /\ retained'[k] = retained[k] /\ work'[k] = work[k]
  BY <1>1 DEF Becomes, CapTypeOK
<1>3. CapTypeOK'
  <2>1. R \in SUBSET CapRuns /\ IsFiniteSet(R) /\ T \in Nat \X Nat /\ W \in CapJobs
    BY DEF Keeps
  <2>2. runsOf' \in [RunLayers -> SUBSET CapRuns]
    BY <1>1, <2>1 DEF Becomes, CapTypeOK
  <2>3. \A k \in RunLayers : IsFiniteSet(runsOf'[k])
    BY <1>1, <1>2, <2>1 DEF CapTypeOK
  <2>4. retained' \in [RunLayers -> Nat \X Nat]
    BY <1>1, <2>1 DEF Becomes, CapTypeOK
  <2>5. work' \in [RunLayers -> CapJobs]
    BY <1>1, <2>1 DEF Becomes, CapTypeOK
  <2> QED
    BY <2>2, <2>3, <2>4, <2>5 DEF CapTypeOK
<1>4. \A k \in RunLayers : LayerFits(k, runsOf'[k], retained'[k], work'[k])
  BY <1>1, <1>2 DEF Keeps
<1> QED
  BY <1>2, <1>3, <1>4

\* A job that goes on keeps what it counted: spent runs stay spent, and none is added.
LEMMA CountsKeep ==
  ASSUME CapInv, NEW l \in RunLayers, NEW R, NEW T, NEW W, Becomes(l, R, T, W),
         Keeps(l, runsOf[l], retained[l], work[l], R, T, W),
         NEW j \in RunLayers, work'[j].counted = work[j].counted,
         work'[j].at # "idle" => work[j].at # "idle"
  PROVE  CountedOK(j)' /\ ReserveOK(j)'
<1>1. /\ runsOf'[l] = R /\ retained'[l] = T /\ work'[l] = W
      /\ \A k \in RunLayers \ {l} :
           runsOf'[k] = runsOf[k] /\ retained'[k] = retained[k] /\ work'[k] = work[k]
  BY StepMoves
<1>2. CapTypeOK /\ CountedOK(j) /\ ReserveOK(j)
  BY DEF CapInv
<1>3. CountedOK(j)'
  <2> SUFFICES ASSUME NEW k \in RunLayers, NEW n \in Nat \ {0}, <<k, n>> \in work[j].counted
               PROVE  Spent(n, runsOf'[k], retained'[k], work'[k])
    BY DEF CountedOK, Spent
  <2>1. Spent(n, runsOf[k], retained[k], work[k])
    BY <1>2 DEF CountedOK
  <2>2. CASE k = l
    BY <1>1, <2>1, <2>2 DEF Keeps
  <2>3. CASE k # l
    BY <1>1, <2>1, <2>3
  <2> QED
    BY <2>2, <2>3
<1> DEFINE before == Counted(j)
           after == [k \in RunLayers |->
             {r \in {x \in runsOf'[k] : x.nr \notin {retained'[k][1], retained'[k][2],
                                                      work'[k].nr, work'[k].drops}} :
                <<k, r.nr>> \in work'[j].counted}]
<1>4. \A k \in RunLayers : after[k] \subseteq before[k]
  <2> SUFFICES ASSUME NEW k \in RunLayers, NEW r \in runsOf'[k], <<k, r.nr>> \in work[j].counted
               PROVE  r \in before[k]
    OBVIOUS
  <2>1. <<k, r.nr>> \in RunLayers \X (Nat \ {0})
    BY <1>2 DEF CapTypeOK, CapJobs
  <2>2. Spent(r.nr, runsOf[k], retained[k], work[k])
    BY <1>2, <2>1 DEF CountedOK
  <2>3. r \in runsOf[k]
    <3>1. CASE k = l
      BY <1>1, <2>2, <3>1 DEF Keeps
    <3>2. CASE k # l
      BY <1>1, <3>2
    <3> QED
      BY <3>1, <3>2
  <2>4. r \in Orphans(k)
    BY <2>2, <2>3 DEF Orphans, Named, Spent
  <2> QED
    BY <2>4 DEF Counted
<1>5. Counted(j)' = after
  BY DEF Counted, Orphans, Named
<1>6. AllStored(before)
  <2> SUFFICES ASSUME NEW k \in RunLayers
               PROVE  before[k] \subseteq CapRuns /\ IsFiniteSet(before[k])
    BY DEF AllStored
  <2>1. before[k] \subseteq runsOf[k] /\ runsOf[k] \subseteq CapRuns /\ IsFiniteSet(runsOf[k])
    BY <1>2 DEF Counted, Orphans, CapTypeOK
  <2> QED
    BY <2>1, FS_Subset
<1> HIDE DEF before, after
<1>7. BytesIn(after) \in Nat /\ BytesIn(before) \in Nat /\ BytesIn(after) <= BytesIn(before)
  BY <1>4, <1>6, BytesInMore
<1>8. ReserveOK(j)'
  <2> SUFFICES ASSUME j \in AllocatedLayers, work'[j].at # "idle"
               PROVE  ExistingPeak + 3 * TotalBytes(RunCap, AllocatedLayers) + Elsewhere
                        + BytesIn(after) + HeadroomBytes <= BucketLimit
    BY <1>5 DEF ReserveOK
  <2>1. ExistingPeak + 3 * TotalBytes(RunCap, AllocatedLayers) + Elsewhere
          + BytesIn(before) + HeadroomBytes <= BucketLimit
    BY <1>2 DEF ReserveOK, before
  <2>2. /\ Elsewhere \in Nat /\ HeadroomBytes \in Nat /\ BucketLimit \in Nat
        /\ ExistingPeak \in Nat /\ TotalBytes(RunCap, AllocatedLayers) \in Nat
    BY CapacityConstants, ThreeOfEach
  <2> QED
    BY <1>7, <2>1, <2>2
<1> QED
  BY <1>3, <1>8

\* A step of a job that goes on or ends.
LEMMA StepKeeps ==
  ASSUME CapInv, NEW l \in RunLayers, NEW R, NEW T, NEW W, Becomes(l, R, T, W),
         Keeps(l, runsOf[l], retained[l], work[l], R, T, W),
         W.at = "idle" \/ (work[l].at # "idle" /\ W.counted = work[l].counted)
  PROVE  CapInv'
<1>1. /\ CapTypeOK' /\ work'[l] = W
      /\ \A k \in RunLayers \ {l} : work'[k] = work[k]
      /\ \A k \in RunLayers : LayerFits(k, runsOf'[k], retained'[k], work'[k])
  BY StepMoves
<1>2. \A j \in RunLayers : CountedOK(j)' /\ ReserveOK(j)'
  <2> SUFFICES ASSUME NEW j \in RunLayers PROVE CountedOK(j)' /\ ReserveOK(j)'
    OBVIOUS
  <2>1. CASE j = l /\ W.at = "idle"
    <3>1. work'[j].at = "idle" /\ work'[j].counted = {}
      BY <1>1, <2>1 DEF LayerFits
    <3> QED
      BY <3>1 DEF CountedOK, ReserveOK
  <2>2. CASE ~(j = l /\ W.at = "idle")
    <3>1. work'[j].counted = work[j].counted /\ (work'[j].at # "idle" => work[j].at # "idle")
      BY <1>1, <2>2
    <3> QED
      BY <3>1, CountsKeep
  <2> QED
    BY <2>1, <2>2
<1> QED
  BY <1>1, <1>2 DEF CapInv, LayerFits

-----------------------------------------------------------------------------
\* The steps of a job, on what its layer has.
LEMMA PutKeeps ==
  ASSUME NEW k \in RunLayers, NEW rs \in SUBSET CapRuns, IsFiniteSet(rs),
         NEW ret \in Nat \X Nat, NEW w \in CapJobs, LayerFits(k, rs, ret, w), w.at = "upload",
         NEW size \in 0..w.size, NEW whole \in BOOLEAN, NEW W \in CapJobs,
         \/ W.at = "idle" /\ W.nr = 0 /\ W.drops = 0 /\ W.counted = {}
         \/ W.at = "commit" /\ W.nr = w.nr /\ W.drops = 0 /\ whole
  PROVE  Keeps(k, rs, ret, w,
               rs \cup {[nr |-> w.nr, size |-> size, whole |-> whole, fresh |-> TRUE]}, ret, W)
<1> DEFINE new == [nr |-> w.nr, size |-> size, whole |-> whole, fresh |-> TRUE]
           R == rs \cup {new}
<1>1. /\ w.nr \in 1..LastRun /\ w.nr \in Nat \ {0} /\ LastRun \in Nat /\ w.nr > ret[1]
      /\ w.drops = 0
      /\ w.size \in Nat /\ w.size <= Largest(k) /\ Largest(k) \in Nat
      /\ \A r \in rs : r.nr < w.nr
  BY CapacityConstants, LargestNat DEF LayerFits, CapJobs
<1>2. new \in CapRuns /\ new.nr = w.nr /\ new.size <= Largest(k) /\ new.fresh /\ new.whole = whole
  BY <1>1 DEF CapRuns
<1>3. ret[1] \in Nat /\ ret[2] \in Nat /\ (ret[2] < ret[1] \/ ret = <<0, 0>>)
      /\ \A r \in rs : r.nr \in Nat \ {0}
  BY DEF LayerFits, CapRuns
<1> HIDE DEF new
<1>4. R \subseteq CapRuns /\ IsFiniteSet(R)
  BY <1>2, FS_AddElement
<1>5. LayerFits(k, R, ret, W)
  <2>1. \A r \in R : r.size <= Largest(k) /\ r.nr <= LastRun + 2
    BY <1>1, <1>2 DEF LayerFits
  <2>2. \A r, s \in R : r.nr = s.nr => r = s
    BY <1>1, <1>2, <1>3 DEF LayerFits
  <2>3. w.nr # ret[1] /\ w.nr # ret[2]
    BY <1>1, <1>3
  <2>4. \A r \in R : r.nr \in {ret[1], ret[2]} => r.whole
    BY <1>2, <2>3 DEF LayerFits
  <2>5. W.at = "commit" => \A r \in R : r.nr = W.nr => r.whole
    <3> SUFFICES ASSUME W.at = "commit", NEW r \in R, r.nr = W.nr PROVE r.whole
      OBVIOUS
    <3>1. W.nr = w.nr /\ whole
      OBVIOUS
    <3>2. r \notin rs
      BY <1>1, <1>3, <3>1
    <3> QED
      BY <1>2, <3>1, <3>2
  <2> QED
    BY <1>1, <1>3, <2>1, <2>2, <2>4, <2>5 DEF LayerFits
<1>6. \A n \in Nat \ {0} : Spent(n, rs, ret, w) => Spent(n, R, ret, W)
  <2> SUFFICES ASSUME NEW n \in Nat \ {0}, Spent(n, rs, ret, w) PROVE Spent(n, R, ret, W)
    OBVIOUS
  <2>1. n # w.nr /\ n # 0
    BY DEF Spent
  <2>2. \A r \in R : r.nr = n => r \in rs
    BY <1>2, <2>1
  <2> QED
    BY <2>1, <2>2 DEF Spent
<1>7. \A r \in R \ rs : ~Spent(r.nr, rs, ret, w)
  BY <1>2 DEF Spent
<1> QED
  BY <1>4, <1>5, <1>6, <1>7 DEF Keeps, new

\* A commit names its run and drops the run before the previous one.
LEMMA CommitKeeps ==
  ASSUME NEW k \in RunLayers, NEW rs \in SUBSET CapRuns, IsFiniteSet(rs),
         NEW ret \in Nat \X Nat, NEW w \in CapJobs, LayerFits(k, rs, ret, w), w.at = "commit",
         NEW W \in CapJobs, W.at = "prune", W.nr = w.nr, W.drops = ret[2]
  PROVE  Keeps(k, rs, ret, w, rs, <<w.nr, ret[1]>>, W)
<1> DEFINE T == <<w.nr, ret[1]>>
<1>1. /\ w.nr > ret[1] /\ w.nr \in Nat /\ ret[1] \in Nat /\ ret[2] \in Nat
      /\ ret[2] < ret[1] \/ ret = <<0, 0>>
  BY DEF LayerFits, CapJobs
<1>2. T \in Nat \X Nat /\ T[1] = w.nr /\ T[2] = ret[1]
  BY <1>1
<1> HIDE DEF T
<1>3. LayerFits(k, rs, T, W)
  <2>1. W.drops < T[2] \/ W.drops = 0
    BY <1>1, <1>2
  <2> QED
    BY <1>1, <1>2, <2>1 DEF LayerFits
<1>4. \A n \in Nat \ {0} : Spent(n, rs, ret, w) => Spent(n, rs, T, W)
  BY <1>1, <1>2 DEF Spent
<1> QED
  BY <1>2, <1>3, <1>4 DEF Keeps, T

\* Runs older than both retained ones go: the one the commit dropped among them.
LEMMA PruneKeeps ==
  ASSUME NEW k \in RunLayers, NEW rs \in SUBSET CapRuns, IsFiniteSet(rs),
         NEW ret \in Nat \X Nat, NEW w \in CapJobs, LayerFits(k, rs, ret, w), w.at = "prune",
         NEW R, R = {r \in rs : ~(r.whole /\ r.nr < Min({n \in {ret[1], ret[2]} : n > 0}))},
         NEW W \in CapJobs, W.at = "idle", W.nr = 0, W.drops = 0, W.counted = {}
  PROVE  Keeps(k, rs, ret, w, R, ret, W)
<1> DEFINE named == {n \in {ret[1], ret[2]} : n > 0}
           oldest == Min(named)
<1>1. ret[1] \in Nat /\ ret[2] \in Nat /\ ret[1] > 0 /\ ret[2] < ret[1]
  BY DEF LayerFits
<1>2. oldest \in Nat /\ oldest <= ret[1] /\ (ret[2] > 0 => oldest <= ret[2])
  <2>1. named \subseteq Nat /\ named # {}
    BY <1>1
  <2>2. oldest \in named /\ \A n \in named : oldest <= n
    <3> HIDE DEF named
    <3> QED
      BY <2>1, MinOfNaturals
  <2> QED
    BY <1>1, <2>2
<1> HIDE DEF named, oldest
<1>3. R = {r \in rs : ~(r.whole /\ r.nr < oldest)}
  BY DEF oldest, named
<1>4. R \subseteq CapRuns /\ IsFiniteSet(R) /\ R \subseteq rs
  BY <1>3, FS_Subset
<1>5. LayerFits(k, R, ret, W)
  BY <1>4 DEF LayerFits
<1>6. \A n \in Nat \ {0} : Spent(n, rs, ret, w) => Spent(n, R, ret, W)
  <2> SUFFICES ASSUME NEW n \in Nat \ {0}, Spent(n, rs, ret, w) PROVE Spent(n, R, ret, W)
    OBVIOUS
  <2>1. n < ret[1] \/ \E r \in R : r.nr = n
    BY <1>1, <1>2, <1>3 DEF Spent
  <2> QED
    BY <1>4, <2>1 DEF Spent
<1> QED
  BY <1>4, <1>5, <1>6 DEF Keeps

\* The end of a job, or its death, leaves the layer in bounds.
LEMMA EndKeeps ==
  ASSUME NEW k \in RunLayers, NEW rs \in SUBSET CapRuns, IsFiniteSet(rs),
         NEW ret \in Nat \X Nat, NEW w \in CapJobs, LayerFits(k, rs, ret, w),
         NEW W \in CapJobs, W.at = "idle", W.nr = 0, W.drops = 0, W.counted = {}
  PROVE  Keeps(k, rs, ret, w, rs, ret, W)
<1>1. LayerFits(k, rs, ret, W)
  BY DEF LayerFits
<1>2. \A n \in Nat \ {0} : Spent(n, rs, ret, w) => Spent(n, rs, ret, W)
  BY DEF Spent
<1> QED
  BY <1>1, <1>2 DEF Keeps

\* A run that is neither named nor being uploaded may grow old.
LEMMA AgeKeeps ==
  ASSUME NEW k \in RunLayers, NEW rs \in SUBSET CapRuns, IsFiniteSet(rs),
         NEW ret \in Nat \X Nat, NEW w \in CapJobs, LayerFits(k, rs, ret, w),
         NEW r \in rs, r.fresh, r.nr \notin {ret[1], ret[2], w.nr}
  PROVE  Keeps(k, rs, ret, w, (rs \ {r}) \cup {[r EXCEPT !.fresh = FALSE]}, ret, w)
<1> DEFINE old == [r EXCEPT !.fresh = FALSE]
           R == (rs \ {r}) \cup {old}
<1>1. /\ old \in CapRuns /\ old.nr = r.nr /\ old.size = r.size /\ old.whole = r.whole
      /\ ~old.fresh
  BY DEF CapRuns
<1> HIDE DEF old
<1>2. R \subseteq CapRuns /\ IsFiniteSet(R)
  <2>1. IsFiniteSet(rs \ {r})
    BY FS_Subset
  <2> QED
    BY <1>1, <2>1, FS_AddElement
<1>3. LayerFits(k, R, ret, w)
  <2>1. \A s \in R : \E t \in rs : s.nr = t.nr /\ s.size = t.size /\ s.whole = t.whole
    BY <1>1
  <2>2. \A s, t \in R : s.nr = t.nr => s = t
    BY <1>1 DEF LayerFits
  <2> QED
    BY <2>1, <2>2 DEF LayerFits
<1>4. \A n \in Nat \ {0} : Spent(n, rs, ret, w) => Spent(n, R, ret, w)
  <2> SUFFICES ASSUME NEW n \in Nat \ {0}, Spent(n, rs, ret, w) PROVE Spent(n, R, ret, w)
    OBVIOUS
  <2>1. n # r.nr
    BY DEF Spent
  <2>2. \A s \in rs : s.nr = n => s \in R
    BY <2>1
  <2>3. \A s \in R : s.nr = n => s \in rs
    BY <1>1, <2>1
  <2> QED
    BY <2>2, <2>3 DEF Spent
<1>5. \A s \in R \ rs : ~Spent(s.nr, rs, ret, w)
  BY <1>1 DEF Spent
<1> QED
  BY <1>2, <1>3, <1>4, <1>5 DEF Keeps, old

\* The next run is newer than all that is stored, and than the current one.
LEMMA NextIsNewest ==
  ASSUME CapInv, NEW k \in RunLayers
  PROVE  /\ NextRun(k) \in Nat \ {0} /\ NextRun(k) > retained[k][1]
         /\ \A r \in runsOf[k] : r.nr < NextRun(k)
<1> DEFINE S == {0} \cup {r.nr : r \in runsOf[k]} \cup {retained[k][1]}
           top == LastRun + 2 + retained[k][1]
<1>1. /\ runsOf[k] \subseteq CapRuns /\ retained[k][1] \in Nat /\ LastRun \in Nat
      /\ \A r \in runsOf[k] : r.nr <= LastRun + 2 /\ r.nr \in Nat
  BY CapacityConstants DEF CapInv, CapTypeOK, LayerFits, CapRuns
<1>2. top \in Nat /\ S \subseteq -1..top /\ S # {}
  BY <1>1
<1>3. Max(S) \in S /\ \A y \in S : y <= Max(S)
  <2> HIDE DEF S, top
  <2> QED
    BY <1>2, MaxOfBounded
<1>4. Max(S) \in Nat /\ retained[k][1] <= Max(S) /\ \A r \in runsOf[k] : r.nr <= Max(S)
  BY <1>1, <1>3
<1>5. NextRun(k) = 1 + Max(S)
  BY DEF NextRun
<1> HIDE DEF S
<1> QED
  BY <1>1, <1>4, <1>5

\* A new run is newer than all that are stored, and no larger than the largest.
LEMMA AdmitKeeps ==
  ASSUME NEW k \in RunLayers, NEW rs \in SUBSET CapRuns, IsFiniteSet(rs),
         NEW ret \in Nat \X Nat, NEW w \in CapJobs, LayerFits(k, rs, ret, w), w.at = "idle",
         NEW W \in CapJobs, W.at = "upload", W.drops = 0, W.size = Largest(k),
         W.nr \in 1..LastRun, W.nr > ret[1], \A r \in rs : r.nr < W.nr
  PROVE  Keeps(k, rs, ret, w, rs, ret, W)
<1>1. Largest(k) \in Nat \ {0}
  BY LargestNat
<1>2. LayerFits(k, rs, ret, W)
  BY <1>1 DEF LayerFits
<1>3. \A n \in Nat \ {0} : Spent(n, rs, ret, w) => Spent(n, rs, ret, W)
  <2> SUFFICES ASSUME NEW n \in Nat \ {0}, Spent(n, rs, ret, w) PROVE Spent(n, rs, ret, W)
    OBVIOUS
  <2>1. n # W.nr
    <3>1. \A r \in rs : r.nr \in Nat
      BY DEF CapRuns
    <3>2. ret[1] \in Nat /\ W.nr \in Nat
      BY DEF CapJobs
    <3> QED
      BY <3>1, <3>2 DEF Spent
  <2> QED
    BY <2>1 DEF Spent
<1> QED
  BY <1>2, <1>3 DEF Keeps

\* At the start no run is stored and no job works.
LEMMA CapInitially == CapInit => CapInv
<1> SUFFICES ASSUME CapInit PROVE CapInv
  OBVIOUS
<1> DEFINE first(l, n) == [nr |-> n, size |-> Measured[l], whole |-> TRUE, fresh |-> FALSE]
<1>1. /\ \A l \in RunLayers : runsOf[l] =
           IF l \in RootLayers THEN {first(l, n) : n \in 1..2} ELSE {}
      /\ \A l \in RunLayers : retained[l] = IF l \in RootLayers THEN <<2, 1>> ELSE <<0, 0>>
      /\ \A l \in RunLayers : work[l] = NoJob
  BY DEF CapInit
<1>0. \A k \in RootLayers : runsOf[k] = {first(k, 1)} \cup {first(k, 2)}
  <2> SUFFICES ASSUME NEW k \in RootLayers PROVE runsOf[k] = {first(k, 1)} \cup {first(k, 2)}
    OBVIOUS
  <2>1. runsOf[k] = {first(k, n) : n \in {1, 2}}
    <3>1. 1..2 = {1, 2}
      OBVIOUS
    <3> QED
      BY <1>1, <3>1 DEF RunLayers
  <2> HIDE DEF first
  <2> QED
    BY <2>1
<1>2. NoJob \in CapJobs
  BY DEF NoJob, CapJobs
<1>3. \A l \in RootLayers : \A n \in 1..2 : first(l, n) \in CapRuns
  BY CapacityConstants DEF CapRuns
<1>4. CapTypeOK
  <2>1. runsOf \in [RunLayers -> SUBSET CapRuns]
    BY <1>3 DEF CapInit
  <2>2. \A k \in RunLayers : IsFiniteSet(runsOf[k])
    <3> SUFFICES ASSUME NEW k \in RunLayers PROVE IsFiniteSet(runsOf[k])
      OBVIOUS
    <3>1. CASE k \in RootLayers
      <4> DEFINE one == first(k, 1)
                 two == first(k, 2)
      <4>1. runsOf[k] = {one} \cup {two}
        BY <1>0, <3>1
      <4> HIDE DEF one, two
      <4>2. IsFiniteSet({one})
        BY FS_Singleton
      <4> QED
        BY <4>1, <4>2, FS_AddElement
    <3>2. CASE k \notin RootLayers
      BY <1>1, <3>2, FS_EmptySet
    <3> QED
      BY <3>1, <3>2
  <2>3. retained \in [RunLayers -> Nat \X Nat]
    BY DEF CapInit
  <2>4. work \in [RunLayers -> CapJobs]
    BY <1>2 DEF CapInit
  <2> QED
    BY <2>1, <2>2, <2>3, <2>4 DEF CapTypeOK
<1>5. \A k \in RunLayers : LayerFits(k, runsOf[k], retained[k], work[k])
  <2> SUFFICES ASSUME NEW k \in RunLayers PROVE LayerFits(k, runsOf[k], retained[k], work[k])
    OBVIOUS
  <2>1. work[k].at = "idle" /\ work[k].nr = 0 /\ work[k].drops = 0 /\ work[k].counted = {}
    BY <1>1 DEF NoJob
  <2>2. CASE k \in RootLayers
    <3> DEFINE m == Measured[k]
    <3>1. m \in Nat /\ Largest(k) = (m * 110) \div 100 /\ LastRun \in Nat
      BY <2>2, CapacityConstants DEF Largest
    <3>2. m <= (m * 110) \div 100
      <4>1. m \in Nat
        BY <3>1
      <4> HIDE DEF m
      <4> QED
        BY <4>1
    <3>3. \A r \in runsOf[k] : r = first(k, 1) \/ r = first(k, 2)
      BY <1>0, <2>2
    <3>4. \A r \in runsOf[k] : r.size <= Largest(k) /\ r.nr <= LastRun + 2 /\ r.whole
      BY <3>1, <3>2, <3>3
    <3>5. \A r, s \in runsOf[k] : r.nr = s.nr => r = s
      <4>1. first(k, 1).nr = 1 /\ first(k, 2).nr = 2
        OBVIOUS
      <4> HIDE DEF first
      <4> QED
        BY <3>3, <4>1
    <3>6. retained[k][2] < retained[k][1]
      BY <1>1, <2>2
    <3> HIDE DEF first, m
    <3> QED
      BY <2>1, <3>4, <3>5, <3>6 DEF LayerFits
  <2>3. CASE k \notin RootLayers
    BY <1>1, <2>1, <2>3 DEF LayerFits
  <2> QED
    BY <2>2, <2>3
<1>6. \A j \in RunLayers : CountedOK(j) /\ ReserveOK(j)
  BY <1>1 DEF NoJob, CountedOK, ReserveOK
<1> QED
  BY <1>4, <1>5, <1>6 DEF CapInv

\* What an admission counts is spent, and its guard left room for it.
LEMMA AdmissionKeeps ==
  ASSUME CapInv, NEW l \in RunLayers, Admitted(l, Largest(l))
  PROVE  CapInv'
<1> DEFINE W == [at |-> "upload", nr |-> NextRun(l), drops |-> 0, size |-> Largest(l),
                 counted |-> IF l \in AllocatedLayers THEN OldOrphans ELSE {}]
<1>1. /\ work[l].at = "idle" /\ NextRun(l) <= LastRun
      /\ l \in AllocatedLayers => RegionalGuard(l, Largest(l))
      /\ work' = [work EXCEPT ![l] = W]
      /\ runsOf' = runsOf /\ retained' = retained
  BY DEF Admitted
<1>2. CapTypeOK /\ \A k \in RunLayers : LayerFits(k, runsOf[k], retained[k], work[k])
  BY DEF CapInv
<1>3. /\ runsOf[l] \in SUBSET CapRuns /\ IsFiniteSet(runsOf[l])
      /\ retained[l] \in Nat \X Nat /\ work[l] \in CapJobs
  BY <1>2 DEF CapTypeOK
<1>4. /\ NextRun(l) \in Nat \ {0} /\ NextRun(l) > retained[l][1]
      /\ \A r \in runsOf[l] : r.nr < NextRun(l)
  BY NextIsNewest
<1>5. \A k \in RunLayers, n \in Nat \ {0} : <<k, n>> \in OldOrphans =>
        Spent(n, runsOf[k], retained[k], work[k])
  <2> SUFFICES ASSUME NEW k \in RunLayers, NEW n \in Nat \ {0}, <<k, n>> \in OldOrphans
               PROVE  Spent(n, runsOf[k], retained[k], work[k])
    OBVIOUS
  <2>1. PICK r \in Orphans(k) : ~r.fresh /\ r.nr = n
    BY DEF OldOrphans
  <2>2. r \in runsOf[k] /\ n \notin {work[k].nr, work[k].drops, retained[k][1], retained[k][2]}
    BY <2>1 DEF Orphans, Named
  <2>3. \A s \in runsOf[k] : s.nr = n => s = r
    BY <1>2, <2>1, <2>2 DEF LayerFits
  <2> QED
    BY <2>1, <2>2, <2>3 DEF Spent
<1>6. OldOrphans \subseteq RunLayers \X (Nat \ {0})
  <2> SUFFICES ASSUME NEW k \in RunLayers, NEW r \in Orphans(k) PROVE r.nr \in Nat \ {0}
    BY DEF OldOrphans
  <2>1. r \in CapRuns
    BY <1>2 DEF Orphans, CapTypeOK
  <2> QED
    BY <2>1 DEF CapRuns
<1>7. W \in CapJobs /\ W.at = "upload" /\ W.drops = 0 /\ W.size = Largest(l) /\ W.nr = NextRun(l)
      /\ W.counted = (IF l \in AllocatedLayers THEN OldOrphans ELSE {})
  <2>1. Largest(l) \in Nat
    BY LargestNat
  <2> QED
    BY <1>4, <1>6, <2>1 DEF CapJobs
<1> HIDE DEF W
<1>8. W.nr \in 1..LastRun
  BY <1>1, <1>4, <1>7, CapacityConstants
<1>9. Keeps(l, runsOf[l], retained[l], work[l], runsOf[l], retained[l], W)
  BY <1>1, <1>2, <1>3, <1>4, <1>7, <1>8, AdmitKeeps
<1>10. Becomes(l, runsOf[l], retained[l], W)
  BY <1>1, <1>2 DEF Becomes, CapTypeOK
<1>11. /\ CapTypeOK' /\ work'[l] = W
       /\ \A k \in RunLayers \ {l} : work'[k] = work[k]
       /\ \A k \in RunLayers : LayerFits(k, runsOf'[k], retained'[k], work'[k])
  BY <1>9, <1>10, StepMoves
<1>12. CountedOK(l)'
  <2> SUFFICES ASSUME NEW k \in RunLayers, NEW n \in Nat \ {0}, <<k, n>> \in W.counted
               PROVE  Spent(n, runsOf'[k], retained'[k], work'[k])
    BY <1>11 DEF CountedOK, Spent
  <2>1. Spent(n, runsOf[k], retained[k], work[k])
    BY <1>5, <1>7
  <2>2. CASE k = l
    BY <1>1, <1>9, <1>11, <2>1, <2>2 DEF Keeps
  <2>3. CASE k # l
    BY <1>1, <1>11, <2>1, <2>3
  <2> QED
    BY <2>2, <2>3
<1>13. ReserveOK(l)'
  <2> SUFFICES ASSUME l \in AllocatedLayers PROVE ReserveOK(l)'
    BY DEF ReserveOK
  <2> DEFINE after == [k \in RunLayers |->
               {r \in {x \in runsOf[k] : x.nr \notin {retained[k][1], retained[k][2],
                                                      work'[k].nr, work'[k].drops}} :
                  <<k, r.nr>> \in work'[l].counted}]
             counts == OtherRuns
  <2>1. Counted(l)' = after
    BY <1>1 DEF Counted, Orphans, Named
  <2>2. \A k \in RunLayers : after[k] \subseteq counts[k]
    <3> SUFFICES ASSUME NEW k \in RunLayers, NEW r \in runsOf[k], <<k, r.nr>> \in OldOrphans,
                        r.nr \notin {retained[k][1], retained[k][2]}
                 PROVE  r \in counts[k]
      BY <1>7, <1>11
    <3>1. r.nr \in Nat \ {0}
      BY <1>2 DEF CapTypeOK, CapRuns
    <3>2. ~r.fresh
      BY <1>5, <3>1 DEF Spent
    <3> QED
      BY <3>2 DEF OtherRuns, InFlight, Named
  <2>3. AllStored(counts)
    <3> SUFFICES ASSUME NEW k \in RunLayers
                 PROVE  counts[k] \subseteq CapRuns /\ IsFiniteSet(counts[k])
      BY DEF AllStored
    <3>1. counts[k] \subseteq runsOf[k] /\ runsOf[k] \subseteq CapRuns /\ IsFiniteSet(runsOf[k])
      BY <1>2 DEF OtherRuns, CapTypeOK
    <3> QED
      BY <3>1, FS_Subset
  <2> HIDE DEF after, counts
  <2>4. BytesIn(after) \in Nat /\ BytesIn(counts) \in Nat /\ BytesIn(after) <= BytesIn(counts)
    BY <2>2, <2>3, BytesInMore
  <2>5. ExistingPeak + 3 * TotalBytes(RunCap, AllocatedLayers) + Elsewhere
          + BytesIn(counts) + HeadroomBytes <= BucketLimit
    BY <1>1 DEF RegionalGuard, ReservedPeak, ReservedRuns, counts
  <2>6. /\ Elsewhere \in Nat /\ HeadroomBytes \in Nat /\ BucketLimit \in Nat
        /\ ExistingPeak \in Nat /\ TotalBytes(RunCap, AllocatedLayers) \in Nat
    BY CapacityConstants, ThreeOfEach
  <2>7. ExistingPeak + 3 * TotalBytes(RunCap, AllocatedLayers) + Elsewhere
          + BytesIn(after) + HeadroomBytes <= BucketLimit
    BY <2>4, <2>5, <2>6
  <2> QED
    BY <2>1, <2>7 DEF ReserveOK
<1>14. \A j \in RunLayers \ {l} : CountedOK(j)' /\ ReserveOK(j)'
  <2> SUFFICES ASSUME NEW j \in RunLayers \ {l} PROVE CountedOK(j)' /\ ReserveOK(j)'
    OBVIOUS
  <2>1. work'[j].counted = work[j].counted /\ work'[j].at = work[j].at
    BY <1>11
  <2> QED
    BY <1>9, <1>10, <2>1, CountsKeep
<1> QED
  BY <1>11, <1>12, <1>13, <1>14 DEF CapInv, LayerFits

\* Every step of the jobs keeps the invariant.
LEMMA CapPreserved == CapInv /\ [CapNext]_capVars => CapInv'
<1> SUFFICES ASSUME CapInv, [CapNext]_capVars PROVE CapInv'
  OBVIOUS
<1>0. CASE UNCHANGED capVars
  BY <1>0 DEF capVars, CapInv, CapTypeOK, LayerFits, CountedOK, Spent, ReserveOK, Counted,
     Orphans, Named
<1>1. ASSUME NEW l \in RunLayers,
             \/ Admitted(l, Largest(l))
             \/ UploadRun(l) \/ CommitRun(l) \/ PruneRuns(l) \/ JobDies(l)
             \/ \E r \in runsOf[l] : Ages(l, r)
      PROVE  CapInv'
  <2> DEFINE rs == runsOf[l]
             ret == retained[l]
             w == work[l]
  <2>0. /\ rs \in SUBSET CapRuns /\ IsFiniteSet(rs) /\ ret \in Nat \X Nat /\ w \in CapJobs
        /\ LayerFits(l, rs, ret, w)
        /\ runsOf = [runsOf EXCEPT ![l] = rs] /\ retained = [retained EXCEPT ![l] = ret]
        /\ work = [work EXCEPT ![l] = w]
    BY DEF CapInv, CapTypeOK
  <2>00. NoJob \in CapJobs /\ NoJob.at = "idle" /\ NoJob.nr = 0 /\ NoJob.drops = 0
         /\ NoJob.counted = {}
    BY DEF NoJob, CapJobs
  <2>1. CASE Admitted(l, Largest(l))
    BY <2>1, AdmissionKeeps
  <2>2. CASE UploadRun(l)
    <3> DEFINE W == [w EXCEPT !.at = "commit"]
               R == rs \cup {[nr |-> w.nr, size |-> w.size, whole |-> TRUE, fresh |-> TRUE]}
    <3>1. w.at = "upload" /\ Becomes(l, R, ret, W)
      BY <2>0, <2>2 DEF UploadRun, Put, Goes, Becomes
    <3>2. W \in CapJobs /\ W.at = "commit" /\ W.nr = w.nr /\ W.drops = 0 /\ W.counted = w.counted
      BY <2>0, <3>1 DEF CapJobs, LayerFits
    <3>3. w.size \in 0..w.size
      BY <2>0 DEF CapJobs
    <3> HIDE DEF W
    <3>4. Keeps(l, rs, ret, w, R, ret, W)
      BY <2>0, <3>1, <3>2, <3>3, PutKeeps
    <3> HIDE DEF R
    <3> QED
      BY <3>1, <3>2, <3>4, StepKeeps
  <2>3. CASE CommitRun(l)
    <3> DEFINE W == [w EXCEPT !.at = "prune", !.drops = ret[2]]
               T == <<w.nr, ret[1]>>
    <3>1. w.at = "commit" /\ Becomes(l, rs, T, W)
      BY <2>0, <2>3 DEF CommitRun, Becomes
    <3>2. W \in CapJobs /\ W.at = "prune" /\ W.nr = w.nr /\ W.drops = ret[2]
          /\ W.counted = w.counted
      BY <2>0, <3>1 DEF CapJobs
    <3> HIDE DEF W
    <3>3. Keeps(l, rs, ret, w, rs, T, W)
      BY <2>0, <3>1, <3>2, CommitKeeps
    <3> HIDE DEF T
    <3> QED
      BY <3>1, <3>2, <3>3, StepKeeps
  <2>4. CASE PruneRuns(l)
    <3> DEFINE R == {r \in rs : ~(r.whole /\ r.nr < Min({n \in {ret[1], ret[2]} : n > 0}))}
    <3>1. rs \ Prunable(l) = R
      BY DEF Prunable
    <3>2. w.at = "prune" /\ Becomes(l, R, ret, NoJob)
      BY <2>0, <2>4, <3>1 DEF PruneRuns, Becomes
    <3> HIDE DEF R
    <3>3. Keeps(l, rs, ret, w, R, ret, NoJob)
      BY <2>0, <2>00, <3>2, PruneKeeps DEF R
    <3> QED
      BY <2>00, <3>2, <3>3, StepKeeps
  <2>5. CASE JobDies(l) /\ w.at = "upload"
    <3> DEFINE R == rs \cup {[nr |-> w.nr, size |-> w.size - 1, whole |-> FALSE, fresh |-> TRUE]}
    <3>1. Becomes(l, R, ret, NoJob)
      BY <2>0, <2>5 DEF JobDies, Put, Becomes
    <3>2. w.size - 1 \in 0..w.size
      BY <2>0, <2>5 DEF CapJobs, LayerFits
    <3>3. Keeps(l, rs, ret, w, R, ret, NoJob)
      BY <2>0, <2>00, <2>5, <3>2, PutKeeps
    <3> HIDE DEF R
    <3> QED
      BY <2>00, <3>1, <3>3, StepKeeps
  <2>6. CASE JobDies(l) /\ w.at # "upload"
    <3>1. Becomes(l, rs, ret, NoJob)
      BY <2>0, <2>6 DEF JobDies, Becomes
    <3>2. Keeps(l, rs, ret, w, rs, ret, NoJob)
      BY <2>0, <2>00, EndKeeps
    <3> QED
      BY <2>00, <3>1, <3>2, StepKeeps
  <2>7. ASSUME NEW r \in rs, Ages(l, r) PROVE CapInv'
    <3> DEFINE R == (rs \ {r}) \cup {[r EXCEPT !.fresh = FALSE]}
    <3>1. r.fresh /\ r.nr \notin {ret[1], ret[2], w.nr} /\ Becomes(l, R, ret, w)
      BY <2>0, <2>7 DEF Ages, Named, Becomes
    <3>2. Keeps(l, rs, ret, w, R, ret, w)
      BY <2>0, <3>1, AgeKeeps
    <3>3. w.at = "idle" \/ (work[l].at # "idle" /\ w.counted = work[l].counted)
      OBVIOUS
    <3> HIDE DEF R
    <3> QED
      BY <3>1, <3>2, <3>3, StepKeeps
  <2> QED
    BY <1>1, <2>1, <2>2, <2>3, <2>4, <2>5, <2>6, <2>7
<1> QED
  BY <1>0, <1>1 DEF CapNext

\* The inductive invariant of the byte guards: a layer's runs are numbered and whole as the
\* stage of its job has it, none is larger than it was taken to be, and while a job is alive
\* that check_regional_capacity admitted, the peak it reserved and the leftovers it counted
\* are within the limit, and nothing names those leftovers again.
THEOREM CapacityInvariant == CapSpec => []CapInv
  BY CapInitially, CapPreserved, PTL DEF CapSpec

\* From its admission to its end a regional publication has its headroom, but for what jobs
\* that died have left since: the jobs of all the other layers, which check_regional_capacity
\* (ingest/capacity.py) does not see again once it has passed, store no more than the existing
\* peak and the three runs of each regional layer that it has set aside.
THEOREM CapacityIsHeld == CapSpec => []CapacityHolds
  BY CapacityInvariant, CapacityFollows, PTL

-----------------------------------------------------------------------------
\* CubeTiles.

\* The provider's value behind a cell of the cube, or that there is none.
GivenAt(v, k, c) ==
  IF <<LeadSteps[k], v>> \in weather.absent THEN NaN
  ELSE DecodeField(weather.grid, Message(LeadSteps[k], v))[c[1]][c[2]]
CellAt(v, k, c) == IF RawAt(v, k, c) = Sentinel(v) THEN NaN ELSE RawAt(v, k, c) * Scale

\* The cells of a cube that is accepted are the provider's values to half a quantum: none is
\* clipped to another, none goes missing, and none that is missing becomes a value.
AcceptedIsClose ==
  cubeAt \in {"tile", "published"} =>
    \A v \in CubeVars, k \in DOMAIN LeadSteps, c \in CubeCells(cube.grid) :
      Within(CellAt(v, k, c), GivenAt(v, k, c))

CubeInv ==
  /\ weather \in Weathers
  /\ cubeAt \in {"validate", "tile", "published"} =>
       cube = [grid |-> GridOf(weather.grid),
               arrays |-> [v \in CubeVars |->
                            [k \in DOMAIN LeadSteps |-> Collected(LeadSteps[k], v)]]]
  /\ cubeAt \in {"tile", "published"} => \A v \in CubeVars : InRange(v)

\* Quotient and remainder of an integer.
LEMMA DivisionLeaves ==
  ASSUME NEW x \in Int, NEW d \in Nat \ {0}
  PROVE  /\ x \div d \in Int /\ x % d \in Int /\ 0 <= x % d /\ x % d < d
         /\ x % d = x - d * (x \div d)
<1>1. x \div d \in Int
  OBVIOUS
<1>2. x % d \in Int /\ 0 <= x % d
  OBVIOUS
<1>3. x % d < d
  OBVIOUS
<1>4. x % d = x - d * (x \div d)
  BY Z3
<1>5. QED
  BY <1>1, <1>2, <1>3, <1>4

\* Rounding is to the nearest.
LEMMA RoundedIsNear ==
  ASSUME NEW x \in Int
  PROVE  Rounded(x) \in Int /\ 2 * (Rounded(x) * Scale - x) \in -Scale..Scale
<1> DEFINE q == x \div Scale
           m == x % Scale
<1>1. Scale \in Nat \ {0}
  BY CubeConstants
<1>2. q \in Int /\ m \in Int /\ 0 <= m /\ m < Scale /\ m = x - Scale * q
  BY <1>1, DivisionLeaves
<1>3. \/ Rounded(x) = q /\ 2 * m <= Scale
      \/ Rounded(x) = q + 1 /\ 2 * m >= Scale
  <2>1. Rounded(x) = IF 2 * m < Scale \/ (2 * m = Scale /\ q % 2 = 0) THEN q ELSE q + 1
    BY DEF Rounded
  <2> HIDE DEF q, m
  <2>2. QED
    BY <1>1, <1>2, <2>1
<1> HIDE DEF q, m
<1>4. CASE Rounded(x) = q /\ 2 * m <= Scale
  <2>1. q * Scale - x = -m
    BY <1>1, <1>2
  <2>2. QED
    BY <1>1, <1>2, <1>4, <2>1
<1>5. CASE Rounded(x) = q + 1 /\ 2 * m >= Scale
  <2>1. (q + 1) * Scale - x = Scale - m
    BY <1>1, <1>2
  <2>2. QED
    BY <1>1, <1>2, <1>5, <2>1
<1>6. QED
  BY <1>3, <1>4, <1>5

\* What clipping returns.
LEMMA Clipped ==
  ASSUME NEW x \in Int, NEW low \in Int, NEW high \in Int
  PROVE  Clip(x, low, high) \in {low, high, x} /\ Clip(x, low, high) >= low
<1> DEFINE a == IF x <= high THEN x ELSE high
           b == IF a >= low THEN a ELSE low
<1>1. Min({x, high}) = a
  <2>1. a \in {x, high} /\ \A z \in {x, high} : a <= z
    OBVIOUS
  <2>2. \A w \in {x, high} : (\A z \in {x, high} : w <= z) => w = a
    OBVIOUS
  <2>3. QED
    BY <2>1, <2>2 DEF Min
<1>2. Max({low, a}) = b
  <2>1. b \in {low, a} /\ \A z \in {low, a} : b >= z
    OBVIOUS
  <2>2. \A w \in {low, a} : (\A z \in {low, a} : w >= z) => w = b
    OBVIOUS
  <2>3. QED
    BY <2>1, <2>2 DEF Max
<1>3. QED
  BY <1>1, <1>2 DEF Clip

\* A value whose quantum is plausible was not clipped.
LEMMA PlausibleIsClose ==
  ASSUME NEW v \in CubeVars, NEW x \in Int, x # NaN,
         Quantize(v, x) # Sentinel(v) =>
           /\ Quantize(v, x) * Scale >= VarSpec[v].low - Scale
           /\ Quantize(v, x) * Scale <= VarSpec[v].high + Scale
  PROVE  /\ Quantize(v, x) # Sentinel(v) /\ Quantize(v, x) \in Int
         /\ Quantize(v, x) * Scale # NaN
         /\ 2 * (Quantize(v, x) * Scale - x) \in -Scale..Scale
<1> DEFINE low == VarSpec[v].min + 1
           high == VarSpec[v].max
           n == Rounded(x)
<1>1. /\ VarSpec[v].min \in Int /\ high \in Int /\ low \in Int /\ Scale \in Nat \ {0}
      /\ VarSpec[v].low \in Int /\ VarSpec[v].high \in Int
      /\ low * Scale < VarSpec[v].low - Scale /\ VarSpec[v].high + Scale < high * Scale
      /\ high * Scale < NaN
  BY CubeConstants DEF VarSpecType, Plausible
<1>2. n \in Int /\ 2 * (n * Scale - x) \in -Scale..Scale
  BY RoundedIsNear
<1>3. Quantize(v, x) = Clip(n, low, high) /\ Sentinel(v) = VarSpec[v].min
  BY DEF Quantize, ClipRaw, Sentinel
<1> HIDE DEF n
<1>4. Quantize(v, x) \in {low, high, n} /\ Quantize(v, x) >= low
  BY <1>1, <1>2, <1>3, Clipped
<1>5. Quantize(v, x) \in Int /\ Quantize(v, x) # Sentinel(v)
  BY <1>1, <1>2, <1>3, <1>4
<1> HIDE DEF low, high
<1>6. Quantize(v, x) # low
  BY <1>1, <1>5
<1>7. Quantize(v, x) # high
  BY <1>1, <1>5
<1>8. Quantize(v, x) = n
  BY <1>4, <1>6, <1>7
<1>9. Quantize(v, x) * Scale # NaN
  <2>1. high * Scale \in Int /\ n * Scale \in Int
    BY <1>1, <1>2
  <2>2. n * Scale <= VarSpec[v].high + Scale
    BY <1>5, <1>8
  <2>3. VarSpec[v].high + Scale \in Int
    BY <1>1
  <2>4. QED
    BY <1>1, <1>8, <2>1, <2>2, <2>3 DEF NaN
<1>10. QED
  BY <1>2, <1>5, <1>8, <1>9

\* A finite set of numbers has a least one.
LEMMA LeastOf ==
  ASSUME NEW S \in SUBSET Int, IsFiniteSet(S), S # {}
  PROVE  \E m \in S : \A n \in S : m <= n
<1> DEFINE Good == {T \in SUBSET S : T # {} => \E m \in T : \A n \in T : m <= n}
<1>1. \A T \in SUBSET S : (\A x \in T : T \ {x} \in Good) => T \in Good
  <2> SUFFICES ASSUME NEW T \in SUBSET S, \A x \in T : T \ {x} \in Good, NEW x \in T
               PROVE  \E m \in T : \A n \in T : m <= n
    OBVIOUS
  <2>1. CASE T = {x}
    BY <2>1
  <2>2. CASE T # {x}
    <3>1. PICK m \in T \ {x} : \A n \in T \ {x} : m <= n
      BY <2>2
    <3>2. m \in Int /\ x \in Int /\ T \subseteq Int
      OBVIOUS
    <3>3. CASE m <= x
      BY <3>1, <3>2, <3>3
    <3>4. CASE x < m
      BY <3>1, <3>2, <3>4
    <3>5. QED
      BY <3>2, <3>3, <3>4
  <2>3. QED
    BY <2>1, <2>2
<1>2. S \in Good
  <2> HIDE DEF Good
  <2>1. QED
    BY <1>1, FiniteInduction
<1>3. QED
  BY <1>2

\* The column that comes first is one of the grid's, and west of all others.
LEMMA RollIsColumn ==
  ASSUME NEW g \in Grid
  PROVE  /\ Roll(g) \in 0..g.ni - 1
         /\ \A k \in 0..g.ni - 1 : ScanLon(g, Roll(g)) <= ScanLon(g, k)
<1>1. 2 * DateLine \in Nat \ {0} /\ DateLine \in Int
  BY CubeConstants
<1>2. g.lon1 \in Int /\ g.d \in Int /\ g.ni \in Nat \ {0}
  BY DEF Grid
<1>3. ASSUME NEW i \in 0..g.ni - 1 PROVE ScanLon(g, i) \in Int
  <2>1. g.lon1 + i * g.d + DateLine \in Int
    BY <1>1, <1>2
  <2>2. (g.lon1 + i * g.d + DateLine) % (2 * DateLine) \in Int
    BY <1>1, <2>1, DivisionLeaves
  <2>3. QED
    BY <1>1, <2>2 DEF ScanLon, EastWest
<1> DEFINE lons == {ScanLon(g, i) : i \in 0..g.ni - 1}
<1>4. lons \subseteq Int /\ lons # {} /\ IsFiniteSet(lons)
  <2>1. IsFiniteSet(0..g.ni - 1)
    BY <1>2, FS_Interval
  <2>2. IsFiniteSet(lons)
    <3> DEFINE f == [i \in 0..g.ni - 1 |-> ScanLon(g, i)]
    <3>1. f \in Surjection(0..g.ni - 1, lons)
      BY DEF Surjection
    <3> HIDE DEF f, lons
    <3>2. QED
      BY <2>1, <3>1, FS_Surjection
  <2>3. ScanLon(g, 0) \in lons
    BY <1>2
  <2>4. QED
    BY <1>3, <2>2, <2>3
<1>5. PICK m \in lons : \A n \in lons : m <= n
  <2> HIDE DEF lons
  <2>1. QED
    BY <1>4, LeastOf
<1>6. PICK i \in 0..g.ni - 1 : \A k \in 0..g.ni - 1 : ScanLon(g, i) <= ScanLon(g, k)
  BY <1>5
<1>7. QED
  BY <1>6 DEF Roll

\* What a message says at a cell is a value of the provider's, whatever its order.
LEMMA DecodedIsGiven ==
  ASSUME weather \in Weathers, NEW v \in CubeVars, NEW k \in DOMAIN LeadSteps,
         NEW j \in 0..weather.grid.nj - 1, NEW i \in 0..weather.grid.ni - 1
  PROVE  DecodeField(weather.grid, Message(LeadSteps[k], v))[j][i] \in Int
<1> DEFINE g == weather.grid
           f == <<LeadSteps[k], v>>
           jj == IF g.up THEN j ELSE g.nj - 1 - j
           ii == (i + Roll(g)) % g.ni
<1>1. g \in Grid /\ g.ni \in Nat \ {0} /\ g.nj \in Nat \ {0} /\ Roll(g) \in 0..g.ni - 1
  BY CubeConstants, RollIsColumn DEF Weather, Grid
<1>2. jj \in 0..g.nj - 1
  BY <1>1
<1>3. ii \in 0..g.ni - 1
  <2> DEFINE ni == g.ni
             n == i + Roll(g)
  <2>1. n \in Int /\ ni \in Nat \ {0}
    BY <1>1
  <2>2. ii = n % ni
    OBVIOUS
  <2>3. n % ni \in Int /\ 0 <= n % ni /\ n % ni < ni
    <3> HIDE DEF n, ni
    <3>1. QED
      BY <2>1, DivisionLeaves
  <2>4. ii \in 0..ni - 1
    <3> HIDE DEF n, ni, ii
    <3>1. QED
      BY <2>1, <2>2, <2>3
  <2>5. QED
    BY <2>4
<1>4. f \in Leads \X CubeVars
  BY DEF Leads, ToSet
<1>5. weather.value[f][<<ScanLat(g, jj), ScanLon(g, ii)>>] \in Int
  BY <1>2, <1>3, <1>4, CubeConstants DEF Weather
<1>6. DecodeField(g, Message(LeadSteps[k], v))[j][i] = Message(LeadSteps[k], v)[jj][ii]
  BY DEF DecodeField
<1>7. Message(LeadSteps[k], v)[jj][ii] = weather.value[f][<<ScanLat(g, jj), ScanLon(g, ii)>>]
  <2> HIDE DEF jj, ii
  <2>1. QED
    BY <1>2, <1>3 DEF Message
<1>8. QED
  BY <1>5, <1>6, <1>7

\* At the start there is no cube.
LEMMA CubeInitially == TilesInit => CubeInv
BY DEF TilesInit, CubeInv

\* Building, validating and publishing a cube keep what is known of its values.
LEMMA NextCubeInv == CubeInv /\ [TilesNext]_tileVars => CubeInv'
<1> SUFFICES ASSUME CubeInv, [TilesNext]_tileVars PROVE CubeInv'
  OBVIOUS
<1> USE DEF CubeInv
<1>1. ASSUME NEW s \in Leads, FetchStep(s) PROVE CubeInv'
  BY <1>1 DEF FetchStep
<1>2. CASE Collect
  <2>1. weather' = weather /\ cubeAt' = "validate"
        /\ cube' = [grid |-> GridOf(weather.grid),
                    arrays |-> [v \in CubeVars |->
                                 [k \in DOMAIN LeadSteps |-> Collected(LeadSteps[k], v)]]]
    BY <1>2 DEF Collect
  <2>2. \A s, v : Collected(s, v)' = Collected(s, v)
    BY <2>1 DEF Collected, Message
  <2>3. QED
    BY <2>1, <2>2
<1>3. CASE ValidateCube
  <2>1. /\ weather' = weather /\ cube' = cube /\ cubeAt = "validate"
        /\ cubeAt' = "tile" => \A v \in CubeVars : InRange(v)
        /\ cubeAt' \in {"tile", "rejected"}
    BY <1>3 DEF ValidateCube
  <2>2. \A v : InRange(v)' <=> InRange(v)
    BY <2>1 DEF InRange, RawAt
  <2>3. \A s, v : Collected(s, v)' = Collected(s, v)
    BY <2>1 DEF Collected, Message
  <2>4. QED
    BY <2>1, <2>2, <2>3
<1>4. CASE BuildTiles \/ UNCHANGED tileVars
  <2>1. /\ weather' = weather /\ cube' = cube
        /\ cubeAt' = cubeAt \/ (cubeAt = "tile" /\ cubeAt' = "published")
    BY <1>4 DEF BuildTiles, tileVars
  <2>2. \A v : InRange(v)' <=> InRange(v)
    BY <2>1 DEF InRange, RawAt
  <2>3. \A s, v : Collected(s, v)' = Collected(s, v)
    BY <2>1 DEF Collected, Message
  <2>4. QED
    BY <2>1, <2>2, <2>3
<1>5. QED
  BY <1>1, <1>2, <1>3, <1>4 DEF TilesNext

\* A cube that validation accepted is close to the provider's values.
LEMMA CubeIsClose == CubeInv => AcceptedIsClose
<1> SUFFICES ASSUME CubeInv, cubeAt \in {"tile", "published"},
                    NEW v \in CubeVars, NEW k \in DOMAIN LeadSteps,
                    NEW c \in CubeCells(cube.grid)
             PROVE  Within(CellAt(v, k, c), GivenAt(v, k, c))
  BY DEF AcceptedIsClose
<1> DEFINE x == GivenAt(v, k, c)
           g == weather.grid
<1>1. c[1] \in 0..g.nj - 1 /\ c[2] \in 0..g.ni - 1
  BY DEF CubeInv, CubeCells, GridOf
<1>2. RawAt(v, k, c) = Quantize(v, x)
  <2>1. RawAt(v, k, c) = Collected(LeadSteps[k], v)[c[1]][c[2]]
    BY DEF CubeInv, RawAt
  <2>2. QED
    BY <1>1, <2>1 DEF Collected, GivenAt
<1>3. x \in Int
  BY <1>1, DecodedIsGiven DEF CubeInv, GivenAt, NaN
<1>4. CASE x = NaN
  BY <1>2, <1>4 DEF Quantize, CellAt, Within
<1>5. CASE x # NaN
  <2>1. RawAt(v, k, c) # Sentinel(v) =>
          /\ RawAt(v, k, c) * Scale >= VarSpec[v].low - Scale
          /\ RawAt(v, k, c) * Scale <= VarSpec[v].high + Scale
    BY DEF CubeInv, InRange
  <2>2. /\ Quantize(v, x) # Sentinel(v) /\ Quantize(v, x) \in Int
        /\ Quantize(v, x) * Scale # NaN
        /\ 2 * (Quantize(v, x) * Scale - x) \in -Scale..Scale
    <3> HIDE DEF x
    <3>1. QED
      BY <1>2, <1>3, <1>5, <2>1, PlausibleIsClose
  <2>3. CellAt(v, k, c) = Quantize(v, x) * Scale
    BY <1>2, <2>2 DEF CellAt
  <2> DEFINE y == CellAt(v, k, c)
  <2>4. y # NaN /\ x # NaN /\ 2 * (y - x) \in -Scale..Scale
    BY <1>5, <2>2, <2>3
  <2> HIDE DEF x, y
  <2>5. Within(y, x)
    BY <2>4 DEF Within
  <2>6. QED
    BY <2>5 DEF x, y
<1>6. QED
  BY <1>4, <1>5

\* Of every cube that passes validation, each cell says what the provider said there, to
\* half a quantum, or that it said nothing: for any regular global grid, scan order, dtype and
\* range.
THEOREM AcceptedValuesAreClose == TilesSpec => []AcceptedIsClose
BY CubeInitially, NextCubeInv, CubeIsClose, PTL DEF TilesSpec

-----------------------------------------------------------------------------
\* A number is divided in one way only.
LEMMA DividedOnce ==
  ASSUME NEW x \in Int, NEW d \in Nat \ {0}, NEW q \in Int, NEW r \in 0..d - 1,
         x = d * q + r
  PROVE  x \div d = q /\ x % d = r
<1> DEFINE p == x \div d
           s == x % d
<1>1. p \in Int /\ s \in Int /\ 0 <= s /\ s < d /\ s = x - d * p
  BY DivisionLeaves
<1> HIDE DEF p, s
<1>2. d * (q - p) = s - r
  BY <1>1
<1>3. ~(q - p >= 1)
  <2>1. ASSUME q - p >= 1 PROVE d * (q - p) >= d
    BY <1>1, <2>1, Z3
  <2>2. s - r < d
    BY <1>1
  <2>3. QED
    BY <1>1, <1>2, <2>1, <2>2
<1>4. ~(q - p <= -1)
  <2>1. ASSUME q - p <= -1 PROVE d * (q - p) <= -d
    BY <1>1, <2>1, Z3
  <2>2. s - r > -d
    BY <1>1
  <2>3. QED
    BY <1>1, <1>2, <2>1, <2>2
<1>5. p = q
  BY <1>1, <1>3, <1>4
<1>6. s = r
  BY <1>1, <1>5
<1>7. QED
  BY <1>5, <1>6 DEF p, s

\* EastWest finds the one longitude of the globe that is whole turns away.
LEMMA EastWestIs ==
  ASSUME NEW x \in Int, NEW y \in Int, -DateLine <= y, y < DateLine, NEW q \in Int,
         x = y + (2 * DateLine) * q
  PROVE  EastWest(x) = y
<1>1. DateLine \in Nat \ {0}
  BY CubeConstants
<1> DEFINE turn == 2 * DateLine
<1>2. turn \in Nat \ {0} /\ y + DateLine \in 0..turn - 1 /\ x + DateLine \in Int
  BY <1>1
<1>3. x + DateLine = turn * q + (y + DateLine)
  BY <1>1
<1>4. (x + DateLine) % turn = y + DateLine
  <2> HIDE DEF turn
  <2>1. QED
    BY <1>2, <1>3, DividedOnce
<1>5. QED
  BY <1>1, <1>4 DEF EastWest

\* A longitude is brought into the range from the date line, by whole turns.
LEMMA EastWestOnGlobe ==
  ASSUME NEW x \in Int
  PROVE  /\ EastWest(x) \in Int /\ -DateLine <= EastWest(x) /\ EastWest(x) < DateLine
         /\ \E q \in Int : x = EastWest(x) + (2 * DateLine) * q
<1>1. DateLine \in Nat \ {0}
  BY CubeConstants
<1> DEFINE turn == 2 * DateLine
           n == x + DateLine
<1>2. turn \in Nat \ {0} /\ n \in Int
  BY <1>1
<1>3. /\ n \div turn \in Int /\ n % turn \in Int /\ 0 <= n % turn /\ n % turn < turn
      /\ n % turn = n - turn * (n \div turn)
  <2> HIDE DEF turn, n
  <2>1. QED
    BY <1>2, DivisionLeaves
<1>4. EastWest(x) = (n % turn) - DateLine
  BY DEF EastWest
<1>5. PICK m \in Int : m = n % turn
  BY <1>3
<1>6. PICK q \in Int : q = n \div turn
  BY <1>3
<1>7. m = n - turn * q /\ 0 <= m /\ m < turn /\ EastWest(x) = m - DateLine
  BY <1>3, <1>4, <1>5, <1>6
<1>8. x = EastWest(x) + turn * q
  <2>1. turn * q \in Int
    BY <1>2, <1>6
  <2> HIDE DEF turn
  <2>2. QED
    BY <1>1, <1>7, <2>1 DEF n
<1>9. QED
  BY <1>1, <1>7, <1>8

\* The columns after it, round the globe, follow it to the east at equal distances.
LEMMA RolledInOrder ==
  ASSUME NEW g \in Grid, g.ni * g.d = 2 * DateLine
  PROVE  /\ ScanLon(g, Roll(g)) \in Int /\ -DateLine <= ScanLon(g, Roll(g))
         /\ ScanLon(g, Roll(g)) + g.ni * g.d - g.d < DateLine
         /\ \A c \in 0..g.ni - 1 :
              ScanLon(g, (c + Roll(g)) % g.ni) = ScanLon(g, Roll(g)) + c * g.d
<1> DEFINE first == Roll(g)
           west == ScanLon(g, first)
           turn == 2 * DateLine
           ni == g.ni
           d == g.d
           lon1 == g.lon1
<1>1. /\ DateLine \in Nat \ {0} /\ turn \in Nat \ {0} /\ ni * d = turn /\ turn = 2 * DateLine
      /\ lon1 \in Int /\ d \in Nat \ {0} /\ ni \in Nat \ {0} /\ first \in 0..ni - 1
  BY CubeConstants, RollIsColumn DEF Grid
<1>2. \A k \in 0..ni - 1 : ScanLon(g, k) = EastWest(lon1 + k * d) /\ west <= ScanLon(g, k)
  BY RollIsColumn DEF ScanLon
<1>3. /\ west \in Int /\ -DateLine <= west /\ west < DateLine
      /\ \E q \in Int : lon1 + first * d = west + turn * q
  <2>1. lon1 + first * d \in Int
    BY <1>1
  <2>2. west = EastWest(lon1 + first * d)
    BY <1>1, <1>2
  <2> HIDE DEF first, west, d, lon1
  <2>3. QED
    BY <2>1, <2>2, EastWestOnGlobe
<1>4. PICK q \in Int : lon1 + first * d = west + turn * q
  BY <1>3
<1> HIDE DEF first, west, turn, ni, d, lon1
\* The column before it lies elsewhere, or it would be further to the west.
<1>5. west < d - DateLine
  <2> SUFFICES ASSUME west >= d - DateLine PROVE FALSE
    BY <1>1, <1>3
  <2> DEFINE y == west - d
  <2>1. y \in Int /\ -DateLine <= y /\ y < DateLine /\ y < west
    BY <1>1, <1>3
  <2>2. CASE first > 0
    <3>1. first - 1 \in 0..ni - 1
      BY <1>1, <2>2
    <3>2. (first - 1) * d = first * d - d
      BY <1>1
    <3>3. first * d \in Int /\ (first - 1) * d \in Int /\ turn * q \in Int
      BY <1>1, <1>4
    <3>4. lon1 + (first - 1) * d = y + turn * q
      BY <1>1, <1>3, <1>4, <3>2, <3>3
    <3>5. EastWest(lon1 + (first - 1) * d) = y
      <4>1. lon1 + (first - 1) * d \in Int
        BY <1>1, <3>3
      <4> HIDE DEF y
      <4>2. QED
        BY <2>1, <3>4, <4>1, EastWestIs DEF turn
    <3>6. west <= y
      <4>1. ScanLon(g, first - 1) = y /\ west <= ScanLon(g, first - 1)
        BY <1>2, <3>1, <3>5
      <4>2. QED
        BY <4>1
    <3>7. QED
      BY <1>3, <2>1, <3>6
  <2>3. CASE first = 0
    <3>1. ni - 1 \in 0..ni - 1
      BY <1>1
    <3>2. (ni - 1) * d = turn - d
      BY <1>1
    <3>3. first * d = 0
      BY <1>1, <2>3
    <3>4. turn * (q + 1) = turn * q + turn /\ turn * q \in Int /\ turn * (q + 1) \in Int
      BY <1>1
    <3>5. lon1 + (ni - 1) * d = y + turn * (q + 1)
      BY <1>1, <1>3, <1>4, <3>2, <3>3, <3>4
    <3>6. EastWest(lon1 + (ni - 1) * d) = y
      <4>1. lon1 + (ni - 1) * d \in Int /\ q + 1 \in Int
        BY <1>1, <3>2
      <4> HIDE DEF y
      <4>2. QED
        BY <2>1, <3>5, <4>1, EastWestIs DEF turn
    <3>7. west <= y
      <4>1. ScanLon(g, ni - 1) = y /\ west <= ScanLon(g, ni - 1)
        BY <1>2, <3>1, <3>6
      <4>2. QED
        BY <4>1
    <3>8. QED
      BY <1>3, <2>1, <3>7
  <2>4. QED
    BY <1>1, <2>2, <2>3
<1>6. west + ni * d - d < DateLine
  BY <1>1, <1>3, <1>5
<1>7. ASSUME NEW c \in 0..ni - 1 PROVE ScanLon(g, (c + first) % ni) = west + c * d
  <2> DEFINE y == west + c * d
  <2>1. c * d \in Int /\ 0 <= c * d /\ c * d <= turn - d
    <3>1. c * d \in Int /\ 0 <= c * d
      BY <1>1
    <3>2. c <= ni - 1 /\ c \in Int
      BY <1>1
    <3>3. c * d <= (ni - 1) * d
      BY <1>1, <3>2
    <3>4. (ni - 1) * d = turn - d
      BY <1>1
    <3>5. QED
      BY <3>1, <3>3, <3>4
  <2>2. y \in Int /\ -DateLine <= y /\ y < DateLine
    BY <1>1, <1>3, <1>5, <2>1
  <2>3. first * d \in Int /\ turn * q \in Int
    BY <1>1
  <2>4. CASE c + first < ni
    <3>1. c + first = ni * 0 + (c + first) /\ c + first \in 0..ni - 1 /\ c + first \in Int
      BY <1>1, <2>4
    <3>2. (c + first) % ni = c + first
      BY <1>1, <3>1, DividedOnce
    <3>3. (c + first) * d = c * d + first * d
      BY <1>1
    <3>4. lon1 + (c + first) * d = y + turn * q
      BY <1>1, <1>3, <1>4, <2>1, <2>3, <3>3
    <3>5. EastWest(lon1 + (c + first) * d) = y
      <4>1. lon1 + (c + first) * d \in Int
        BY <1>1, <2>1, <2>3, <3>3
      <4> HIDE DEF y
      <4>2. QED
        BY <2>2, <3>4, <4>1, EastWestIs DEF turn
    <3>6. QED
      BY <1>2, <3>1, <3>2, <3>5
  <2>5. CASE c + first >= ni
    <3> DEFINE k == c + first - ni
    <3>1. c + first = ni * 1 + k /\ k \in 0..ni - 1 /\ c + first \in Int
      BY <1>1, <2>5
    <3>2. (c + first) % ni = k
      <4> HIDE DEF k
      <4>1. QED
        BY <1>1, <3>1, DividedOnce
    <3>3. k * d = c * d + first * d - turn
      BY <1>1
    <3>4. turn * (q - 1) = turn * q - turn
      BY <1>1
    <3>5. k * d \in Int /\ turn * (q - 1) \in Int
      BY <1>1, <2>1, <2>3, <3>3, <3>4
    <3>6. lon1 + k * d = y + turn * (q - 1)
      <4> HIDE DEF k
      <4>1. QED
        BY <1>1, <1>3, <1>4, <2>1, <2>3, <3>3, <3>4, <3>5
    <3>7. EastWest(lon1 + k * d) = y
      <4>1. lon1 + k * d \in Int /\ q - 1 \in Int
        BY <1>1, <3>5
      <4> HIDE DEF y, k
      <4>2. QED
        BY <2>2, <3>6, <4>1, EastWestIs DEF turn
    <3>8. QED
      BY <1>2, <3>1, <3>2, <3>7
  <2>6. QED
    BY <1>1, <2>4, <2>5
<1>8. QED
  BY <1>3, <1>6, <1>7 DEF first, west, ni, d

IsRange(S) ==
  Min(S) \in S /\ Cardinality(S) \in Nat /\ S = Min(S)..Min(S) + Cardinality(S) - 1

\* A set of numbers without a gap is a range that begins at its least member.
LEMMA BandIsRange ==
  ASSUME NEW n \in Nat, NEW S \in SUBSET (0..n - 1), S # {},
         \A a, b \in S, c \in 0..n - 1 : a <= c /\ c <= b => c \in S
  PROVE  IsRange(S)
<1> DEFINE low == Min(S)
           above == {k \in 0..n : \A x \in S : x < k}
           high == Min(above)
<1>1. low \in S /\ \A x \in S : low <= x
  <2>1. S \subseteq Nat
    OBVIOUS
  <2>2. QED
    BY <2>1, MinOfNaturals
<1>2. high \in above /\ \A k \in above : high <= k
  <2>1. n \in above /\ above \subseteq Nat
    OBVIOUS
  <2> HIDE DEF above
  <2>2. QED
    BY <2>1, MinOfNaturals
<1> HIDE DEF low, high
<1>3. high \in Int /\ low \in 0..n - 1 /\ low < high
  BY <1>1, <1>2
<1>4. high - 1 \in S
  <2>1. high - 1 \in 0..n - 1
    BY <1>2, <1>3
  <2>2. high - 1 \notin above
    BY <1>2, <1>3
  <2>3. PICK x \in S : ~(x < high - 1)
    BY <2>1, <2>2
  <2>4. x = high - 1
    BY <1>2, <1>3, <2>3
  <2>5. QED
    BY <2>3, <2>4
<1>5. S = low..high - 1
  <2>1. ASSUME NEW x \in S PROVE x \in low..high - 1
    BY <1>1, <1>2, <1>3
  <2>2. ASSUME NEW c \in low..high - 1 PROVE c \in S
    <3>1. c \in 0..n - 1 /\ low <= c /\ c <= high - 1
      BY <1>2, <1>3
    <3>2. QED
      BY <1>1, <1>4, <3>1
  <2>3. QED
    BY <2>1, <2>2
<1>6. Cardinality(S) = high - low
  BY <1>3, <1>5, FS_Interval
<1>7. Cardinality(S) \in Nat /\ high - 1 = low + Cardinality(S) - 1
  BY <1>2, <1>3, <1>6
<1>8. QED
  BY <1>1, <1>5, <1>7 DEF low, IsRange

\* Down finds the tile a coordinate lies in, and keeps the order of coordinates.
LEMMA DownIs ==
  ASSUME NEW x \in Int, NEW d \in Nat \ {0}
  PROVE  Down(x, d) \in Int /\ Down(x, d) <= x /\ x < Down(x, d) + d /\ Down(x, d) % d = 0
<1> DEFINE q == x \div d
           r == x % d
<1>1. q \in Int /\ r \in Int /\ 0 <= r /\ r < d /\ r = x - d * q
  BY DivisionLeaves
<1>2. Down(x, d) = q * d
  BY DEF Down
<1> HIDE DEF q, r
<1>3. q * d \in Int /\ q * d = d * q /\ d * q \in Int
  BY <1>1
<1>4. q * d = x - r
  BY <1>1, <1>3
<1>5. (q * d) % d = 0
  <2>1. q * d = d * q + 0 /\ 0 \in 0..d - 1
    BY <1>3
  <2>2. QED
    BY <1>1, <1>3, <2>1, DividedOnce
<1>6. QED
  BY <1>1, <1>2, <1>3, <1>4, <1>5

\* Rounding down to a multiple keeps the order.
LEMMA DownKeepsOrder ==
  ASSUME NEW x \in Int, NEW y \in Int, NEW d \in Nat \ {0}, x <= y
  PROVE  Down(x, d) <= Down(y, d)
<1> DEFINE p == x \div d
           q == y \div d
           r == x % d
           s == y % d
<1>1. /\ p \in Int /\ r \in Int /\ 0 <= r /\ r < d /\ r = x - d * p
      /\ q \in Int /\ s \in Int /\ 0 <= s /\ s < d /\ s = y - d * q
  BY DivisionLeaves
<1>2. Down(x, d) = p * d /\ Down(y, d) = q * d
  BY DEF Down
<1> HIDE DEF p, q, r, s
<1>3. p <= q
  <2> SUFFICES ASSUME p - q >= 1 PROVE FALSE
    BY <1>1
  <2>1. d * (p - q) >= d
    BY <1>1, Z3
  <2>2. d * (p - q) = d * p - d * q /\ d * p \in Int /\ d * q \in Int
    BY <1>1
  <2>3. QED
    BY <1>1, <2>1, <2>2
<1>4. p * d <= q * d
  BY <1>1, <1>3, Z3
<1>5. QED
  BY <1>2, <1>4

\* The lesser of two numbers.
LEMMA LeastOfTwo ==
  ASSUME NEW x \in Int, NEW y \in Int
  PROVE  Min({x, y}) \in {x, y} /\ Min({x, y}) <= x /\ Min({x, y}) <= y
<1> DEFINE a == IF x <= y THEN x ELSE y
<1>1. a \in {x, y} /\ \A z \in {x, y} : a <= z
  OBVIOUS
<1>2. \A w \in {x, y} : (\A z \in {x, y} : w <= z) => w = a
  OBVIOUS
<1>3. Min({x, y}) = a
  BY <1>1, <1>2 DEF Min
<1>4. QED
  BY <1>1, <1>3

-----------------------------------------------------------------------------
\* The arrays of a tile, one after another.

\* The parts of a tile are what their definition says.
LEMMA PartsAre ==
  ASSUME NEW t
  PROVE  Parts(t) =
           [n \in 0..Len(VarSpecs) |->
             IF n = 0 THEN [offset |-> [v \in CubeVars |-> 0], payload |-> <<>>]
             ELSE [offset |-> [Parts(t)[n - 1].offset EXCEPT
                                ![VarSpecs[n]] = Len(Parts(t)[n - 1].payload)],
                   payload |-> Parts(t)[n - 1].payload \o Padded(t, VarSpecs[n])]]
<1> DEFINE none == [offset |-> [v \in CubeVars |-> 0], payload |-> <<>>]
           put(b, n) == [offset |-> [b.offset EXCEPT ![VarSpecs[n]] = Len(b.payload)],
                         payload |-> b.payload \o Padded(t, VarSpecs[n])]
           next(f, n) == IF n = 0 THEN none ELSE put(f[n - 1], n)
           made == {m \in Nat : \E f : f = [n \in 0..m |-> next(f, n)]}
           top == Len(VarSpecs)
<1>1. top \in Nat
  BY CubeConstants
<1> HIDE DEF none, put
<1>2. 0 \in made
  <2> DEFINE f == [n \in 0..0 |-> none]
  <2>1. f = [n \in 0..0 |-> next(f, n)]
    OBVIOUS
  <2> HIDE DEF f
  <2>2. QED
    BY <2>1
<1>3. ASSUME NEW m \in Nat, m \in made PROVE m + 1 \in made
  <2>1. PICK f : f = [n \in 0..m |-> next(f, n)]
    BY <1>3
  <2> DEFINE g == [n \in 0..m + 1 |-> IF n = m + 1 THEN put(f[m], n) ELSE f[n]]
  <2>2. \A n \in 0..m + 1 : g[n] = next(g, n)
    <3> SUFFICES ASSUME NEW n \in 0..m + 1 PROVE g[n] = next(g, n)
      OBVIOUS
    <3>1. CASE n = m + 1
      <4>1. n # 0 /\ n - 1 = m /\ m # m + 1 /\ m \in 0..m + 1
        BY <3>1
      <4>2. g[m] = f[m]
        BY <4>1
      <4>3. g[n] = put(f[m], n)
        BY <3>1
      <4> HIDE DEF g
      <4>4. QED
        BY <4>1, <4>2, <4>3
    <3>2. CASE n \in 0..m
      <4>1. n # m + 1 /\ (n # 0 => n - 1 \in 0..m + 1 /\ n - 1 # m + 1)
        BY <3>2
      <4>2. g[n] = next(f, n)
        BY <2>1, <3>2, <4>1
      <4>3. n # 0 => g[n - 1] = f[n - 1]
        BY <4>1
      <4> HIDE DEF g
      <4>4. QED
        BY <4>2, <4>3
    <3>3. QED
      BY <3>1, <3>2
  <2>3. g = [n \in 0..m + 1 |-> next(g, n)]
    <3>1. g = [n \in 0..m + 1 |-> g[n]]
      OBVIOUS
    <3> HIDE DEF g, next
    <3>2. QED
      BY <2>2, <3>1
  <2> HIDE DEF g
  <2>4. QED
    BY <2>3
<1>4. top \in made
  <2> HIDE DEF made
  <2>1. QED
    BY <1>1, <1>2, <1>3, NumberInduction
<1>5. PICK f : f = [n \in 0..top |-> next(f, n)]
  BY <1>4
<1>6. Parts(t) = CHOOSE g : g = [n \in 0..top |-> next(g, n)]
  BY DEF Parts, none, put
<1>7. Parts(t) = [n \in 0..top |-> next(Parts(t), n)]
  <2> HIDE DEF next
  <2>1. QED
    BY <1>5, <1>6
<1>8. QED
  BY <1>7 DEF none, put

Bytes4(t) ==
  {Filler} \cup UNION {{Encoded(t, v)[b] : b \in DOMAIN Encoded(t, v)} : v \in CubeVars}

\* An array, padded, begins with the array.
LEMMA PaddedBegins ==
  ASSUME NEW t, Cardinality(Rows(t)) \in Nat, Cardinality(Columns(t)) \in Nat, NEW v \in CubeVars
  PROVE  /\ Padded(t, v) \in Seq(Bytes4(t)) /\ Len(Encoded(t, v)) \in Nat
         /\ Len(Encoded(t, v)) =
              Len(LeadSteps) * Cardinality(Rows(t)) * Cardinality(Columns(t)) * VarSpec[v].size
         /\ Len(Encoded(t, v)) <= Len(Padded(t, v))
         /\ \A b \in 1..Len(Encoded(t, v)) : Padded(t, v)[b] = Encoded(t, v)[b]
<1> DEFINE all == Len(LeadSteps) * Cardinality(Rows(t)) * Cardinality(Columns(t)) * VarSpec[v].size
           code == Encoded(t, v)
           fill == Padding(Len(code))
           S == Bytes4(t)
<1>1. all \in Nat
  <2>1. Len(LeadSteps) \in Nat /\ VarSpec[v].size \in Nat
    <3>1. LeadSteps \in Seq(Nat) /\ VarSpec[v] \in VarSpecType
      BY CubeConstants
    <3>2. QED
      BY <3>1 DEF VarSpecType
  <2>2. Len(LeadSteps) * Cardinality(Rows(t)) \in Nat
    BY <2>1
  <2>3. Len(LeadSteps) * Cardinality(Rows(t)) * Cardinality(Columns(t)) \in Nat
    BY <2>2
  <2>4. QED
    BY <2>1, <2>3
<1>2. code = [b \in 1..all |-> code[b]]
  BY DEF Encoded
<1> HIDE DEF all
<1>3. \A b \in 1..all : code[b] \in S
  <2>1. \A b \in 1..all : b \in DOMAIN Encoded(t, v)
    BY <1>2 DEF code
  <2>2. QED
    BY <2>1 DEF Bytes4, S, code
<1> HIDE DEF code, S
<1>4. code \in Seq(S) /\ Len(code) = all
  BY <1>1, <1>2, <1>3
<1>5. fill \in Seq(S)
  <2> DEFINE n == (-Len(code)) % 4
  <2>1. n \in Nat
    BY <1>1, <1>4, DivisionLeaves
  <2>2. fill = [k \in 1..n |-> Filler]
    BY DEF Padding
  <2>3. Filler \in S
    BY DEF S, Bytes4
  <2> HIDE DEF n, fill
  <2>4. QED
    BY <2>1, <2>2, <2>3
<1>6. Padded(t, v) = code \o fill
  BY DEF Padded, code
<1> HIDE DEF fill
<1>7. /\ code \o fill \in Seq(S) /\ Len(code) <= Len(code \o fill)
      /\ \A b \in 1..Len(code) : (code \o fill)[b] = code[b]
  BY <1>4, <1>5
<1>8. QED
  BY <1>1, <1>4, <1>6, <1>7 DEF code, all, S

\* Each array stands where the header says.
LEMMA PartsHold ==
  ASSUME NEW t, Cardinality(Rows(t)) \in Nat, Cardinality(Columns(t)) \in Nat
  PROVE  LET last == Parts(t)[Len(VarSpecs)]
         IN  \A v \in CubeVars :
               /\ last.offset[v] \in Nat
               /\ \A b \in 1..Len(Padded(t, v)) :
                    last.payload[last.offset[v] + b] = Padded(t, v)[b]
<1> DEFINE P(n) == Parts(t)[n]
           S == Bytes4(t)
           top == Len(VarSpecs)
           stands(p, v) ==
             /\ p.offset[v] + Len(Padded(t, v)) <= Len(p.payload)
             /\ \A b \in 1..Len(Padded(t, v)) : p.payload[p.offset[v] + b] = Padded(t, v)[b]
           good(n) ==
             n \in 0..top =>
               /\ P(n).payload \in Seq(S) /\ P(n).offset \in [CubeVars -> Nat]
               /\ \A m \in 1..n : stands(P(n), VarSpecs[m])
           goods == {n \in Nat : good(n)}
<1>1. /\ top \in Nat /\ \A n \in 1..top : VarSpecs[n] \in CubeVars
      /\ \A v \in CubeVars : \E n \in 1..top : v = VarSpecs[n]
  BY CubeConstants DEF CubeVars, ToSet
<1>2. P(0) = [offset |-> [v \in CubeVars |-> 0], payload |-> <<>>]
  <2>1. 0 \in 0..top
    BY <1>1
  <2>2. QED
    BY <2>1, PartsAre
<1>3. \A n \in 1..top :
        P(n) = [offset |-> [P(n - 1).offset EXCEPT ![VarSpecs[n]] = Len(P(n - 1).payload)],
                payload |-> P(n - 1).payload \o Padded(t, VarSpecs[n])]
  <2> SUFFICES ASSUME NEW n \in 1..top
               PROVE  P(n) = [offset |-> [P(n - 1).offset EXCEPT
                                          ![VarSpecs[n]] = Len(P(n - 1).payload)],
                              payload |-> P(n - 1).payload \o Padded(t, VarSpecs[n])]
    OBVIOUS
  <2>1. n \in 0..top /\ n # 0
    BY <1>1
  <2>2. QED
    BY <2>1, PartsAre
<1>4. \A v \in CubeVars : Padded(t, v) \in Seq(S)
  BY PaddedBegins
<1> HIDE DEF P, S
<1>5. 0 \in goods
  <2>1. P(0).payload = <<>> /\ P(0).offset = [v \in CubeVars |-> 0]
    BY <1>2
  <2>2. P(0).payload \in Seq(S) /\ P(0).offset \in [CubeVars -> Nat]
    <3>1. <<>> \in Seq(S) /\ [v \in CubeVars |-> 0] \in [CubeVars -> Nat]
      OBVIOUS
    <3>2. QED
      BY <2>1, <3>1
  <2>3. 1..0 = {}
    OBVIOUS
  <2> HIDE DEF stands
  <2>4. QED
    BY <2>2, <2>3
<1>6. ASSUME NEW n \in Nat, n \in goods PROVE n + 1 \in goods
  <2> SUFFICES ASSUME n + 1 \in 0..top
               PROVE  /\ P(n + 1).payload \in Seq(S) /\ P(n + 1).offset \in [CubeVars -> Nat]
                      /\ \A m \in 1..n + 1 : stands(P(n + 1), VarSpecs[m])
    BY SMTT(30)
  <2> DEFINE u == VarSpecs[n + 1]
             a == P(n).payload
             e == Padded(t, u)
             z == P(n + 1).payload
             off == P(n + 1).offset
  <2>1. n \in 0..top /\ n + 1 \in 1..top /\ (n + 1) - 1 = n /\ u \in CubeVars
    BY <1>1
  <2>2. /\ a \in Seq(S) /\ P(n).offset \in [CubeVars -> Nat]
        /\ \A m \in 1..n : stands(P(n), VarSpecs[m])
    BY <1>6, <2>1
  <2>3. P(n + 1) = [offset |-> [P(n).offset EXCEPT ![u] = Len(a)], payload |-> a \o e]
    BY <1>3, <2>1
  <2>4. e \in Seq(S)
    BY <1>4, <2>1
  <2>5. z = a \o e /\ off = [P(n).offset EXCEPT ![u] = Len(a)]
    <3> HIDE DEF u, a, e
    <3> DEFINE x == a \o e
               o == [P(n).offset EXCEPT ![u] = Len(a)]
    <3>1. P(n + 1) = [offset |-> o, payload |-> x]
      BY <2>3
    <3> HIDE DEF x, o
    <3>2. P(n + 1).payload = x /\ P(n + 1).offset = o
      BY <3>1
    <3>3. QED
      BY <3>2 DEF x, o
  <2> HIDE DEF u, a, e, z, off
  <2>6. /\ z \in Seq(S) /\ Len(z) = Len(a) + Len(e) /\ Len(a) \in Nat /\ Len(e) \in Nat
        /\ \A b \in 1..Len(a) : z[b] = a[b]
        /\ \A b \in 1..Len(e) : z[Len(a) + b] = e[b]
    BY <2>2, <2>4, <2>5
  <2>7. off \in [CubeVars -> Nat] /\ off[u] = Len(a)
        /\ \A v \in CubeVars : v # u => off[v] = P(n).offset[v]
    BY <2>1, <2>2, <2>5, <2>6
  <2>8. ASSUME NEW m \in 1..n + 1 PROVE stands(P(n + 1), VarSpecs[m])
    <3> DEFINE v == VarSpecs[m]
               w == Padded(t, v)
    <3>1. v \in CubeVars
      BY <1>1, <2>1
    <3>2. w \in Seq(S) /\ Len(w) \in Nat
      BY <1>4, <3>1
    <3> HIDE DEF v, w
    <3>3. CASE v = u
      <4>1. w = e
        BY <3>3 DEF w, e
      <4>2. off[v] = Len(a)
        BY <2>7, <3>3
      <4>3. off[v] + Len(w) <= Len(z) /\ \A b \in 1..Len(w) : z[off[v] + b] = w[b]
        BY <2>6, <4>1, <4>2
      <4>4. QED
        BY <4>3 DEF z, off, v, w
    <3>4. CASE v # u
      <4>1. m \in 1..n
        <5>1. m # n + 1
          BY <3>4 DEF u, v
        <5>2. QED
          BY <5>1
      <4>2. /\ P(n).offset[v] + Len(w) <= Len(a)
            /\ \A b \in 1..Len(w) : a[P(n).offset[v] + b] = w[b]
        BY <2>2, <4>1 DEF a, v, w
      <4>3. off[v] = P(n).offset[v] /\ off[v] \in Nat
        BY <2>7, <3>1, <3>4
      <4>4. off[v] + Len(w) <= Len(z)
        BY <2>6, <3>2, <4>2, <4>3
      <4>5. ASSUME NEW b \in 1..Len(w) PROVE z[off[v] + b] = w[b]
        <5>1. off[v] + b \in 1..Len(a)
          <6>1. off[v] \in Nat /\ off[v] + Len(w) <= Len(a) /\ Len(a) \in Nat /\ Len(w) \in Nat
            BY <2>6, <3>2, <4>2, <4>3
          <6>2. QED
            BY <6>1
        <5>2. QED
          BY <2>6, <4>2, <4>3, <5>1
      <4>6. QED
        BY <4>4, <4>5 DEF z, off, v, w
    <3>5. QED
      BY <3>3, <3>4
  <2>9. QED
    BY <2>6, <2>7, <2>8 DEF z, off
<1>7. top \in goods
  <2> HIDE DEF goods
  <2>1. QED
    BY <1>1, <1>5, <1>6, NumberInduction
<1>8. good(top)
  BY <1>7
<1>9. top \in 0..top
  BY <1>1
<1>10. ASSUME NEW v \in CubeVars
       PROVE  P(top).offset[v] \in Nat /\ stands(P(top), v)
  <2>1. PICK m \in 1..top : v = VarSpecs[m]
    BY <1>1
  <2>2. P(top).offset \in [CubeVars -> Nat] /\ stands(P(top), VarSpecs[m])
    BY <1>8, <1>9
  <2> HIDE DEF P, stands
  <2>3. QED
    BY <2>1, <2>2
<1>11. QED
  BY <1>10 DEF P

PlaceOf(k, x, y, A, B) == ((k - 1) * A + x) * B + y
Placed(n, k, x, y, K, A, B, size) ==
  /\ n \in Nat /\ n * size + 1 \in 1..K * A * B * size
  /\ ((n * size + 1) - 1) \div size = n
  /\ 1 + n \div (A * B) = k /\ (n % (A * B)) \div B = x /\ n % B = y

\* The place of a value in an array in C order gives back the step, the row and the column.
LEMMA PlaceInArray ==
  ASSUME NEW K \in Nat, NEW A \in Nat, NEW B \in Nat, NEW size \in Nat \ {0},
         NEW k \in 1..K, NEW x \in 0..A - 1, NEW y \in 0..B - 1
  PROVE  Placed(PlaceOf(k, x, y, A, B), k, x, y, K, A, B, size)
<1> DEFINE n == PlaceOf(k, x, y, A, B)
           AB == A * B
           low == x * B + y
           row == (k - 1) * A + x
<1>1. A \in Nat \ {0} /\ B \in Nat \ {0} /\ x + 1 <= A /\ y + 1 <= B /\ k <= K /\ k - 1 \in Nat
      /\ x \in Nat /\ y \in Nat
  OBVIOUS
<1>2. AB \in Nat \ {0}
  BY <1>1
<1>3. low \in Nat /\ low < AB
  <2>1. x * B \in Nat /\ low \in Nat
    BY <1>1
  <2>2. (x + 1) * B = x * B + B
    BY <1>1
  <2>3. (x + 1) * B <= A * B
    BY <1>1
  <2>4. QED
    BY <1>1, <2>1, <2>2, <2>3
<1>4. row \in Nat /\ n = row * B + y
  BY <1>1 DEF PlaceOf
<1>5. n = (k - 1) * AB + low
  <2>1. (k - 1) * A \in Nat
    BY <1>1
  <2>2. row * B = ((k - 1) * A) * B + x * B
    BY <1>1, <2>1
  <2>3. ((k - 1) * A) * B = (k - 1) * (A * B)
    BY <1>1
  <2>4. (k - 1) * (A * B) \in Nat /\ x * B \in Nat
    BY <1>1
  <2>5. QED
    BY <1>1, <1>4, <2>2, <2>3, <2>4
<1> HIDE DEF n, AB, low, row
<1>6. n \in Nat
  BY <1>1, <1>2, <1>3, <1>5
<1>7. n \div AB = k - 1 /\ n % AB = low
  <2>1. n = AB * (k - 1) + low /\ low \in 0..AB - 1 /\ k - 1 \in Int
    BY <1>1, <1>2, <1>3, <1>5
  <2>2. QED
    BY <1>2, <1>6, <2>1, DividedOnce
<1>8. low \div B = x
  <2>1. low = B * x + y
    BY <1>1 DEF low
  <2>2. QED
    BY <1>1, <1>3, <2>1, DividedOnce
<1>9. n % B = y
  <2>1. n = B * row + y /\ row \in Int /\ n \in Int /\ y \in 0..B - 1
    BY <1>1, <1>4, <1>6
  <2>2. n % B = y
    BY <1>1, <2>1, DividedOnce
  <2>3. QED
    BY <2>2
<1>10. n < K * A * B
  <2>1. k * AB = (k - 1) * AB + AB /\ (k - 1) * AB \in Nat
    BY <1>1, <1>2
  <2>2. k * AB <= K * AB
    BY <1>1, <1>2
  <2>3. K * AB = K * A * B
    BY <1>1 DEF AB
  <2>4. K * AB \in Nat /\ k * AB \in Nat
    BY <1>1, <1>2
  <2>5. QED
    BY <1>2, <1>3, <1>5, <1>6, <2>1, <2>2, <2>3, <2>4
<1>11. n * size + 1 \in 1..K * A * B * size /\ ((n * size + 1) - 1) \div size = n
  <2> DEFINE all == K * A * B
  <2>1. all \in Nat
    <3>1. K * A \in Nat
      BY <1>1
    <3>2. QED
      BY <1>1, <3>1
  <2>2. n + 1 <= all
    BY <1>6, <1>10, <2>1
  <2> HIDE DEF all
  <2>3. (n + 1) * size = n * size + size /\ n * size \in Nat /\ all * size \in Nat
    BY <1>6, <2>1
  <2>4. (n + 1) * size <= all * size
    BY <1>6, <2>1, <2>2
  <2>5. n * size + 1 \in 1..all * size
    BY <2>3, <2>4
  <2>6. (n * size + 1) - 1 = size * n + 0 /\ 0 \in 0..size - 1 /\ (n * size + 1) - 1 \in Int
    BY <1>6, <2>3
  <2>7. ((n * size + 1) - 1) \div size = n
    BY <1>6, <2>6, DividedOnce
  <2>8. QED
    BY <2>5, <2>7 DEF all
<1>12. QED
  BY <1>1, <1>6, <1>7, <1>8, <1>9, <1>11 DEF AB, Placed, n

GridTyped(g) ==
  /\ g.lat0 \in Int /\ g.lon0 \in Int /\ g.d \in Nat \ {0}
  /\ g.nlat \in Nat \ {0} /\ g.nlon \in Nat \ {0}

\* The points of a line of the grid that lie in a tile follow each other.
LEMMA BandsAreRanges ==
  ASSUME NEW n \in Nat, NEW coords, DOMAIN coords = 0..n - 1,
         \A k \in 0..n - 1 : coords[k] \in Int,
         \A k, m \in 0..n - 1 : k <= m => coords[k] <= coords[m],
         NEW low \in Int, NEW T \in Nat, Band(coords, low, T) # {}
  PROVE  IsRange(Band(coords, low, T))
<1> DEFINE S == Band(coords, low, T)
<1>1. /\ S \subseteq 0..n - 1
      /\ \A k \in 0..n - 1 : k \in S <=> coords[k] >= low /\ coords[k] < low + T
  BY DEF Band
<1>2. ASSUME NEW a \in S, NEW b \in S, NEW c \in 0..n - 1, a <= c, c <= b PROVE c \in S
  <2>1. coords[a] <= coords[c] /\ coords[c] <= coords[b]
    BY <1>1, <1>2
  <2>2. coords[a] >= low /\ coords[b] < low + T
    BY <1>1
  <2>3. coords[a] \in Int /\ coords[b] \in Int /\ coords[c] \in Int
    BY <1>1
  <2> HIDE DEF S
  <2>4. coords[c] >= low /\ coords[c] < low + T
    BY <2>1, <2>2, <2>3
  <2>5. QED
    BY <1>1, <2>4
<1> HIDE DEF S
<1>3. S # {}
  BY DEF S
<1>4. QED
  BY <1>1, <1>2, <1>3, BandIsRange DEF S

\* The lines of a regular grid ascend by its step, from its first.
LEMMA LinesAscend ==
  ASSUME NEW g, GridTyped(g)
  PROVE  /\ DOMAIN Lats(g) = 0..g.nlat - 1 /\ DOMAIN Lons(g) = 0..g.nlon - 1
         /\ \A k \in 0..g.nlat - 1 : Lats(g)[k] = g.lat0 + k * g.d /\ Lats(g)[k] \in Int
         /\ \A k \in 0..g.nlon - 1 : Lons(g)[k] = g.lon0 + k * g.d /\ Lons(g)[k] \in Int
         /\ \A k, m \in 0..g.nlat - 1 : k <= m => Lats(g)[k] <= Lats(g)[m]
         /\ \A k, m \in 0..g.nlon - 1 : k <= m => Lons(g)[k] <= Lons(g)[m]
<1>1. g.lat0 \in Int /\ g.lon0 \in Int /\ g.d \in Nat /\ g.nlat \in Nat /\ g.nlon \in Nat
  BY DEF GridTyped
<1>2. ASSUME NEW k \in Nat, NEW m \in Nat, k <= m PROVE k * g.d <= m * g.d /\ k * g.d \in Int
  BY <1>1, <1>2
<1>3. \A k \in 0..g.nlat - 1 : Lats(g)[k] = g.lat0 + k * g.d /\ Lats(g)[k] \in Int
  BY <1>1 DEF Lats
<1>4. \A k \in 0..g.nlon - 1 : Lons(g)[k] = g.lon0 + k * g.d /\ Lons(g)[k] \in Int
  BY <1>1 DEF Lons
<1>5. ASSUME NEW k \in 0..g.nlat - 1, NEW m \in 0..g.nlat - 1, k <= m
      PROVE  Lats(g)[k] <= Lats(g)[m]
  <2>1. k \in Nat /\ m \in Nat
    BY <1>1
  <2>2. k * g.d <= m * g.d /\ k * g.d \in Int /\ m * g.d \in Int
    BY <1>1, <1>2, <1>5, <2>1
  <2>3. QED
    BY <1>1, <1>3, <2>2
<1>6. ASSUME NEW k \in 0..g.nlon - 1, NEW m \in 0..g.nlon - 1, k <= m
      PROVE  Lons(g)[k] <= Lons(g)[m]
  <2>1. k \in Nat /\ m \in Nat
    BY <1>1
  <2>2. k * g.d <= m * g.d /\ k * g.d \in Int /\ m * g.d \in Int
    BY <1>1, <1>2, <1>6, <2>1
  <2>3. QED
    BY <1>1, <1>4, <2>2
<1>7. QED
  BY <1>3, <1>4, <1>5, <1>6 DEF Lats, Lons

\* How far along the line of a grid a coordinate is.
LEMMA StepsAlong ==
  ASSUME NEW first \in Int, NEW d \in Nat \ {0}, NEW a \in Int, NEW b \in Int
  PROVE  ((first + b * d) - (first + a * d)) \div d = b - a
<1>1. a * d \in Int /\ b * d \in Int /\ d * (b - a) = b * d - a * d
  OBVIOUS
<1>2. (first + b * d) - (first + a * d) = d * (b - a) + 0 /\ 0 \in 0..d - 1
      /\ (first + b * d) - (first + a * d) \in Int /\ b - a \in Int
  BY <1>1
<1>3. QED
  BY <1>2, DividedOnce

\* The value that decode_tile finds where a client looks is that of the cube's cell.
LEMMA TileHoldsCells ==
  ASSUME GridTyped(cube.grid), weather.tile \in Nat, NEW v \in CubeVars,
         NEW k \in DOMAIN LeadSteps, NEW t, NEW r \in Rows(t), NEW c \in Columns(t), NEW h, NEW n,
         t[1] \in Int, t[2] \in Int, h = EncodeTile(t),
         n = ((k - 1) * h.nlat + (Lats(cube.grid)[r] - h.lat0) \div h.d) * h.nlon
               + (Lons(cube.grid)[c] - h.lon0) \div h.d
  PROVE  DecodedAt(h, v, n) = CellAt(v, k, <<r, c>>)
<1> DEFINE g == cube.grid
           A == Cardinality(Rows(t))
           B == Cardinality(Columns(t))
           low == Min(Rows(t))
           left == Min(Columns(t))
           x == r - low
           y == c - left
           size == VarSpec[v].size
           K == Len(LeadSteps)
           last == Parts(t)[Len(VarSpecs)]
           at == last.offset[v]
           place == n * size + 1
<1> HIDE DEF g, A, B, low, left, x, y, size, K, last, at, place
<1>1. /\ g.lat0 \in Int /\ g.lon0 \in Int /\ g.d \in Nat \ {0}
      /\ g.nlat \in Nat /\ g.nlon \in Nat
  BY DEF GridTyped, g
<1>2. /\ low \in Rows(t) /\ A \in Nat /\ Rows(t) \subseteq 0..g.nlat - 1
      /\ Rows(t) = low..low + A - 1
  <2>1. Rows(t) = Band(Lats(g), t[1], weather.tile) /\ Rows(t) # {}
    BY DEF Rows, g
  <2>2. IsRange(Rows(t))
    <3> DEFINE lines == Lats(g)
    <3>1. /\ DOMAIN lines = 0..g.nlat - 1 /\ \A m \in 0..g.nlat - 1 : lines[m] \in Int
          /\ \A l, m \in 0..g.nlat - 1 : l <= m => lines[l] <= lines[m]
      BY LinesAscend DEF g
    <3>2. Band(lines, t[1], weather.tile) # {}
      BY <2>1
    <3> HIDE DEF lines
    <3>3. IsRange(Band(lines, t[1], weather.tile))
      BY <1>1, <3>1, <3>2, BandsAreRanges
    <3>4. QED
      BY <2>1, <3>3 DEF lines
  <2>3. Rows(t) \subseteq 0..g.nlat - 1
    BY <2>1, LinesAscend DEF g, Band
  <2>4. QED
    BY <2>2, <2>3 DEF A, low, IsRange
<1>3. /\ left \in Columns(t) /\ B \in Nat /\ Columns(t) \subseteq 0..g.nlon - 1
      /\ Columns(t) = left..left + B - 1
  <2>1. Columns(t) = Band(Lons(g), t[2], weather.tile) /\ Columns(t) # {}
    BY DEF Columns, g
  <2>2. IsRange(Columns(t))
    <3> DEFINE lines == Lons(g)
    <3>1. /\ DOMAIN lines = 0..g.nlon - 1 /\ \A m \in 0..g.nlon - 1 : lines[m] \in Int
          /\ \A l, m \in 0..g.nlon - 1 : l <= m => lines[l] <= lines[m]
      BY LinesAscend DEF g
    <3>2. Band(lines, t[2], weather.tile) # {}
      BY <2>1
    <3> HIDE DEF lines
    <3>3. IsRange(Band(lines, t[2], weather.tile))
      BY <1>1, <3>1, <3>2, BandsAreRanges
    <3>4. QED
      BY <2>1, <3>3 DEF lines
  <2>3. Columns(t) \subseteq 0..g.nlon - 1
    BY <2>1, LinesAscend DEF g, Band
  <2>4. QED
    BY <2>2, <2>3 DEF B, left, IsRange
<1>4. /\ low \in Int /\ left \in Int /\ r \in Int /\ c \in Int
      /\ x \in 0..A - 1 /\ y \in 0..B - 1
  <2>1. low \in Int /\ low <= r /\ r <= low + A - 1 /\ r \in Int
    BY <1>2
  <2>2. left \in Int /\ left <= c /\ c <= left + B - 1 /\ c \in Int
    BY <1>3
  <2>3. QED
    BY <1>2, <1>3, <2>1, <2>2 DEF x, y
<1>5. /\ h.lat0 = g.lat0 + low * g.d /\ h.lon0 = g.lon0 + left * g.d /\ h.d = g.d
      /\ h.nlat = A /\ h.nlon = B /\ h.offset = last.offset /\ h.payload = last.payload
  <2>1. Lats(g)[low] = g.lat0 + low * g.d /\ Lons(g)[left] = g.lon0 + left * g.d
    BY <1>2, <1>3 DEF Lats, Lons
  <2>2. QED
    BY <2>1 DEF EncodeTile, g, A, B, low, left, last
<1>6. Lats(g)[r] = g.lat0 + r * g.d /\ Lons(g)[c] = g.lon0 + c * g.d
  BY <1>2, <1>3 DEF Lats, Lons
<1>7. n = ((k - 1) * A + x) * B + y
  <2>1. (Lats(g)[r] - h.lat0) \div h.d = x
    <3>1. ((g.lat0 + r * g.d) - (g.lat0 + low * g.d)) \div g.d = r - low
      BY <1>1, <1>4, StepsAlong
    <3>2. QED
      BY <1>5, <1>6, <3>1 DEF x
  <2>2. (Lons(g)[c] - h.lon0) \div h.d = y
    <3>1. ((g.lon0 + c * g.d) - (g.lon0 + left * g.d)) \div g.d = c - left
      BY <1>1, <1>4, StepsAlong
    <3>2. QED
      BY <1>5, <1>6, <3>1 DEF y
  <2>3. QED
    BY <1>5, <2>1, <2>2 DEF g
<1>8. K \in Nat /\ k \in 1..K /\ size \in Nat \ {0}
  <2>1. LeadSteps \in Seq(Nat)
    BY CubeConstants
  <2>2. VarSpec[v].size \in 1..2
    BY CubeConstants DEF VarSpecType
  <2>3. QED
    BY <2>1, <2>2 DEF K, size
<1>9. /\ n \in Nat /\ place \in 1..K * A * B * size /\ (place - 1) \div size = n
      /\ 1 + n \div (A * B) = k /\ (n % (A * B)) \div B = x /\ n % B = y
  <2>1. n = PlaceOf(k, x, y, A, B)
    BY <1>7 DEF PlaceOf
  <2>2. Placed(PlaceOf(k, x, y, A, B), k, x, y, K, A, B, size)
    BY <1>2, <1>3, <1>4, <1>8, PlaceInArray
  <2>3. Placed(n, k, x, y, K, A, B, size)
    BY <2>1, <2>2
  <2>4. n \in Nat /\ n * size + 1 \in 1..K * A * B * size /\ ((n * size + 1) - 1) \div size = n
    BY <2>3 DEF Placed
  <2>5. 1 + n \div (A * B) = k /\ (n % (A * B)) \div B = x /\ n % B = y
    BY <2>3 DEF Placed
  <2>6. place \in 1..K * A * B * size
    BY <2>4 DEF place
  <2>7. (place - 1) \div size = n
    BY <2>4 DEF place
  <2>8. QED
    BY <2>4, <2>5, <2>6, <2>7, Zenon
<1>10. h.payload[h.offset[v] + n * VarSpec[v].size + 1] = Padded(t, v)[place]
  <2>1. /\ Len(Encoded(t, v)) = K * A * B * size /\ Len(Encoded(t, v)) <= Len(Padded(t, v))
        /\ Len(Encoded(t, v)) \in Nat /\ Len(Padded(t, v)) \in Nat
    BY <1>2, <1>3, PaddedBegins DEF K, A, B, size
  <2>2. place \in 1..Len(Padded(t, v))
    BY <1>9, <2>1
  <2>3. at \in Nat /\ last.payload[at + place] = Padded(t, v)[place]
    BY <1>2, <1>3, <2>2, PartsHold DEF A, B, at, last
  <2>4. at + n * size + 1 = at + place
    BY <1>8, <1>9, <2>3 DEF place
  <2>5. h.offset[v] + n * VarSpec[v].size + 1 = at + n * size + 1
    BY <1>5 DEF at, size
  <2>6. QED
    BY <1>5, <2>3, <2>4, <2>5
<1>11. Padded(t, v)[place] = Encoded(t, v)[place]
  <2>1. Len(Encoded(t, v)) = K * A * B * size
    BY <1>2, <1>3, PaddedBegins DEF K, A, B, size
  <2>2. QED
    BY <1>2, <1>3, <1>9, <2>1, PaddedBegins DEF A, B
<1>12. Encoded(t, v)[place][1] = RawAt(v, k, <<r, c>>)
  <2> DEFINE cell(m) == <<low + (m % (A * B)) \div B, left + (m % B)>>
             value(m) == RawAt(v, 1 + m \div (A * B), cell(m))
             byte(b) == <<value((b - 1) \div size), (b - 1) % size>>
  <2>1. Encoded(t, v) = [b \in 1..K * A * B * size |-> byte(b)]
    BY DEF Encoded, A, B, low, left, size, K
  <2>2. value(n) = RawAt(v, k, <<r, c>>)
    <3>1. low + x = r /\ left + y = c
      BY <1>4 DEF x, y
    <3>2. cell(n) = <<r, c>>
      BY <1>9, <3>1
    <3> HIDE DEF cell
    <3>3. QED
      BY <1>9, <3>2
  <2> HIDE DEF value
  <2>3. byte(place) = <<value(n), (place - 1) % size>>
    BY <1>9
  <2> HIDE DEF byte
  <2>4. Encoded(t, v)[place] = byte(place)
    BY <1>9, <2>1
  <2>5. QED
    BY <2>2, <2>3, <2>4
<1>13. QED
  BY <1>10, <1>11, <1>12 DEF DecodedAt, CellAt

BuiltTiles ==
  cubeAt = "published" =>
    tiles = [t \in {u \in TilesForGrid(cube.grid, weather.tile) :
                      Rows(u) # {} /\ Columns(u) # {} /\ HasData(u)} |-> EncodeTile(t)]

\* Publishing cuts the tiles that BuiltTiles describes; no other step changes them.
LEMMA NextBuiltTiles == BuiltTiles /\ [TilesNext]_tileVars => BuiltTiles'
<1> SUFFICES ASSUME BuiltTiles, [TilesNext]_tileVars, cubeAt' = "published" PROVE BuiltTiles'
  BY DEF BuiltTiles
<1>1. ASSUME NEW s \in Leads, FetchStep(s) PROVE FALSE
  BY <1>1 DEF FetchStep
<1>2. ~Collect /\ ~ValidateCube
  BY DEF Collect, ValidateCube
<1>3. CASE BuildTiles \/ UNCHANGED tileVars
  <2>1. /\ weather' = weather /\ cube' = cube
        /\ tiles' = [t \in {u \in TilesForGrid(cube.grid, weather.tile) :
                              Rows(u) # {} /\ Columns(u) # {} /\ HasData(u)} |-> EncodeTile(t)]
    BY <1>3 DEF BuildTiles, tileVars, BuiltTiles
  <2>2. \A u : Rows(u)' = Rows(u) /\ Columns(u)' = Columns(u)
    BY <2>1 DEF Rows, Columns
  <2>3. \A u : HasData(u)' <=> HasData(u)
    BY <2>1, <2>2 DEF HasData, RawAt
  <2>4. \A u, v : Encoded(u, v)' = Encoded(u, v)
    <3> SUFFICES ASSUME NEW u, NEW v PROVE Encoded(u, v)' = Encoded(u, v)
      OBVIOUS
    <3>1. \A k, c : RawAt(v, k, c)' = RawAt(v, k, c)
      BY <2>1 DEF RawAt
    <3>2. QED
      BY <2>2, <3>1, SMTT(30) DEF Encoded
  <2>5. \A u, v : Padded(u, v)' = Padded(u, v)
    BY <2>4 DEF Padded
  <2>6. \A u : Parts(u)' = Parts(u)
    BY <2>5 DEF Parts
  <2>7. \A u : EncodeTile(u)' = EncodeTile(u)
    BY <2>1, <2>2, <2>6 DEF EncodeTile
  <2>8. TilesForGrid(cube.grid, weather.tile)' = TilesForGrid(cube.grid, weather.tile)
    BY <2>1
  <2>9. QED
    BY <2>1, <2>2, <2>3, <2>7, <2>8 DEF BuiltTiles
<1>4. QED
  BY <1>1, <1>2, <1>3 DEF TilesNext

\* The cube's cell of a point of the provider's grid.
RowOf(j) == IF weather.grid.up THEN j ELSE weather.grid.nj - 1 - j
ColumnOf(i) ==
  LET g == weather.grid IN IF i >= Roll(g) THEN i - Roll(g) ELSE i - Roll(g) + g.ni

\* The provider's point is a line and a column of the cube, with its own coordinates.
LEMMA CellOfPoint ==
  ASSUME CubeInv, cubeAt = "published",
         NEW j \in 0..weather.grid.nj - 1, NEW i \in 0..weather.grid.ni - 1
  PROVE  LET g == weather.grid
             G == cube.grid
             r == RowOf(j)
             c == ColumnOf(i)
         IN  /\ GridTyped(G) /\ r \in 0..G.nlat - 1 /\ c \in 0..G.nlon - 1
             /\ Lats(G)[r] = ScanLat(g, j) /\ Lons(G)[c] = ScanLon(g, i)
             /\ EastWest(ScanLon(g, i)) = ScanLon(g, i)
             /\ \A m : DecodeField(g, m)[r][c] = m[j][i]
<1> DEFINE g == weather.grid
           G == cube.grid
           r == RowOf(j)
           c == ColumnOf(i)
           first == Roll(g)
           west == ScanLon(g, first)
<1>1. /\ g \in Grid /\ g.ni * g.d = 2 * DateLine
      /\ g.ni \in Nat \ {0} /\ g.nj \in Nat \ {0} /\ g.d \in Nat \ {0}
      /\ g.lat1 \in Int /\ g.up \in BOOLEAN /\ DateLine \in Nat \ {0}
  BY CubeConstants DEF CubeInv, Weather, Grid
<1>2. /\ first \in 0..g.ni - 1 /\ west \in Int /\ -DateLine <= west
      /\ west + g.ni * g.d - g.d < DateLine
      /\ \A k \in 0..g.ni - 1 : ScanLon(g, (k + first) % g.ni) = west + k * g.d
  BY <1>1, RollIsColumn, RolledInOrder
<1>3. G = GridOf(g)
  BY DEF CubeInv
<1>4. /\ G.lat0 = (IF g.up THEN g.lat1 ELSE g.lat1 - g.d * (g.nj - 1)) /\ G.lon0 = west
      /\ G.d = g.d /\ G.nlat = g.nj /\ G.nlon = g.ni
  BY <1>3 DEF GridOf
<1>5. r = (IF g.up THEN j ELSE g.nj - 1 - j)
      /\ c = (IF i >= first THEN i - first ELSE i - first + g.ni)
  BY DEF RowOf, ColumnOf
<1> HIDE DEF g, G, r, c, first, west
<1>6. j \in 0..g.nj - 1 /\ i \in 0..g.ni - 1
  BY DEF g
<1>7. r \in 0..g.nj - 1 /\ c \in 0..g.ni - 1 /\ r \in Int /\ c \in Int
  BY <1>1, <1>2, <1>5, <1>6
<1>8. GridTyped(G)
  <2>1. g.d * (g.nj - 1) \in Int
    BY <1>1
  <2>2. QED
    BY <1>1, <1>2, <1>4, <2>1 DEF GridTyped
<1>9. (c + first) % g.ni = i
  <2>1. CASE i >= first
    <3>1. c + first = g.ni * 0 + i /\ c + first \in Int
      BY <1>1, <1>2, <1>5, <1>6, <2>1
    <3>2. QED
      BY <1>1, <1>6, <3>1, DividedOnce
  <2>2. CASE i < first
    <3>1. PICK q \in Int : q = 1
      OBVIOUS
    <3>2. c + first = g.ni * q + i /\ c + first \in Int
      BY <1>1, <1>2, <1>5, <1>6, <2>2, <3>1
    <3>3. QED
      BY <1>1, <1>6, <3>2, DividedOnce
  <2>3. QED
    BY <1>2, <1>6, <2>1, <2>2
<1>10. Lats(G)[r] = ScanLat(g, j)
  <2>1. Lats(G)[r] = G.lat0 + r * g.d
    BY <1>4, <1>7 DEF Lats
  <2>2. CASE g.up
    BY <1>4, <1>5, <2>1, <2>2 DEF ScanLat
  <2>3. CASE ~g.up
    <3>1. r * g.d = g.d * (g.nj - 1) - j * g.d
      BY <1>1, <1>5, <1>6, <2>3
    <3>2. g.d * (g.nj - 1) \in Int /\ j * g.d \in Int
      BY <1>1, <1>6
    <3>3. (g.lat1 - g.d * (g.nj - 1)) + (g.d * (g.nj - 1) - j * g.d) = g.lat1 - j * g.d
      BY <1>1, <3>2
    <3>4. QED
      BY <1>4, <2>1, <2>3, <3>1, <3>3 DEF ScanLat
  <2>4. QED
    BY <2>2, <2>3
<1>11. ScanLon(g, i) = west + c * g.d
  BY <1>2, <1>7, <1>9
<1>12. Lons(G)[c] = ScanLon(g, i)
  BY <1>4, <1>7, <1>11 DEF Lons
<1>13. EastWest(ScanLon(g, i)) = ScanLon(g, i)
  <2> DEFINE x == ScanLon(g, i)
  <2>1. c * g.d \in Int /\ 0 <= c * g.d /\ c * g.d <= g.ni * g.d - g.d
    <3>1. c * g.d \in Int /\ 0 <= c * g.d
      BY <1>1, <1>7
    <3>2. (c + 1) * g.d <= g.ni * g.d
      BY <1>1, <1>7
    <3>3. (c + 1) * g.d = c * g.d + g.d /\ g.ni * g.d \in Int
      BY <1>1, <1>7
    <3>4. QED
      BY <1>1, <3>1, <3>2, <3>3
  <2>2. x \in Int /\ -DateLine <= x /\ x < DateLine
    BY <1>1, <1>2, <1>11, <2>1
  <2> HIDE DEF x
  <2>3. x = x + (2 * DateLine) * 0
    BY <1>1, <2>2
  <2>4. EastWest(x) = x
    BY <2>2, <2>3, EastWestIs
  <2>5. QED
    BY <2>4 DEF x
<1>14. ASSUME NEW m PROVE DecodeField(g, m)[r][c] = m[j][i]
  <2>1. DecodeField(g, m)[r][c] =
          m[IF g.up THEN r ELSE g.nj - 1 - r][(c + first) % g.ni]
    BY <1>7 DEF DecodeField, first
  <2>2. (IF g.up THEN r ELSE g.nj - 1 - r) = j
    BY <1>1, <1>5, <1>6
  <2>3. QED
    BY <1>9, <2>1, <2>2
<1>15. QED
  BY <1>4, <1>7, <1>8, <1>10, <1>12, <1>13, <1>14 DEF g, G, r, c

\* The tile a client looks in is one of those of the grid, and holds the cell.
LEMMA TileOfPoint ==
  ASSUME CubeInv, cubeAt = "published",
         NEW j \in 0..weather.grid.nj - 1, NEW i \in 0..weather.grid.ni - 1,
         ScanLat(weather.grid, j) < Pole
  PROVE  LET t == TileOrigin(ScanLat(weather.grid, j), ScanLon(weather.grid, i))
         IN  /\ RowOf(j) \in Rows(t) /\ ColumnOf(i) \in Columns(t)
             /\ t[1] \in Int /\ t[2] \in Int
             /\ t \in TilesForGrid(cube.grid, weather.tile)
<1> DEFINE G == cube.grid
           T == weather.tile
           r == RowOf(j)
           c == ColumnOf(i)
           lat == ScanLat(weather.grid, j)
           lon == ScanLon(weather.grid, i)
           t == TileOrigin(lat, lon)
           south == Lats(G)[0]
           north == Lats(G)[G.nlat - 1]
           low == Lons(G)[0]
           high == Lons(G)[G.nlon - 1]
<1>1. T \in Nat \ {0} /\ Pole \in Int
  BY CubeConstants DEF CubeInv, Weather
<1>2. /\ GridTyped(G) /\ r \in 0..G.nlat - 1 /\ c \in 0..G.nlon - 1
      /\ Lats(G)[r] = lat /\ Lons(G)[c] = lon /\ EastWest(lon) = lon
  BY CellOfPoint
<1>3. t = <<Down(lat, T), Down(lon, T)>>
  BY <1>2 DEF TileOrigin
<1> HIDE DEF G, T, r, c, lat, lon, t, south, north, low, high
<1>4. 0 \in 0..G.nlat - 1 /\ G.nlat - 1 \in 0..G.nlat - 1
      /\ 0 \in 0..G.nlon - 1 /\ G.nlon - 1 \in 0..G.nlon - 1
      /\ 0 <= r /\ r <= G.nlat - 1 /\ 0 <= c /\ c <= G.nlon - 1
  BY <1>2 DEF GridTyped
<1>5. /\ lat \in Int /\ lon \in Int /\ south \in Int /\ north \in Int /\ low \in Int /\ high \in Int
      /\ south <= lat /\ lat <= north /\ low <= lon /\ lon <= high
  BY <1>2, <1>4, LinesAscend DEF south, north, low, high
<1>6. /\ Down(lat, T) \in Int /\ Down(lat, T) <= lat /\ lat < Down(lat, T) + T
      /\ Down(lat, T) % T = 0
      /\ Down(lon, T) \in Int /\ Down(lon, T) <= lon /\ lon < Down(lon, T) + T
      /\ Down(lon, T) % T = 0
  BY <1>1, <1>5, DownIs
<1>7. r \in Rows(t)
  <2>1. r \in DOMAIN Lats(G) /\ t[1] = Down(lat, T)
    BY <1>2, <1>3, LinesAscend
  <2>2. QED
    BY <1>2, <1>6, <2>1 DEF Rows, Band, G, T
<1>8. c \in Columns(t)
  <2>1. c \in DOMAIN Lons(G) /\ t[2] = Down(lon, T)
    BY <1>2, <1>3, LinesAscend
  <2>2. QED
    BY <1>2, <1>6, <2>1 DEF Columns, Band, G, T
<1>9. t \in TilesForGrid(G, T)
  <2> DEFINE top == Min({north, Pole - 1})
  <2>1. lat < Pole
    BY DEF lat
  <2>2. top \in Int /\ lat <= top
    <3>1. Pole - 1 \in Int /\ lat <= Pole - 1
      BY <1>1, <1>5, <2>1
    <3>2. QED
      BY <1>5, <3>1, LeastOfTwo
  <2> HIDE DEF top
  <2>3. Down(lat, T) \in Corners(Down(south, T), Down(top, T), T)
    <3>1. /\ Down(south, T) <= Down(lat, T) /\ Down(lat, T) <= Down(top, T)
          /\ Down(south, T) \in Int /\ Down(top, T) \in Int
      BY <1>1, <1>5, <2>2, DownIs, DownKeepsOrder
    <3>2. QED
      BY <1>6, <3>1 DEF Corners
  <2>4. Down(lon, T) \in Corners(Down(low, T), Down(high, T), T)
    <3>1. /\ Down(low, T) <= Down(lon, T) /\ Down(lon, T) <= Down(high, T)
          /\ Down(low, T) \in Int /\ Down(high, T) \in Int
      BY <1>1, <1>5, DownIs, DownKeepsOrder
    <3>2. QED
      BY <1>6, <3>1 DEF Corners
  <2>5. QED
    BY <1>3, <2>3, <2>4 DEF TilesForGrid, top, south, north, low, high
<1>10. QED
  BY <1>3, <1>6, <1>7, <1>8, <1>9 DEF G, T, r, c, t, lat, lon

\* What a client reads at a point is the value of the point's cell.
LEMMA ReadsCell ==
  ASSUME CubeInv, BuiltTiles, cubeAt = "published",
         NEW v \in CubeVars, NEW k \in DOMAIN LeadSteps,
         NEW j \in 0..weather.grid.nj - 1, NEW i \in 0..weather.grid.ni - 1,
         ScanLat(weather.grid, j) < Pole
  PROVE  ReadPoint(v, k, ScanLat(weather.grid, j), ScanLon(weather.grid, i))
           = CellAt(v, k, <<RowOf(j), ColumnOf(i)>>)
<1> DEFINE lat == ScanLat(weather.grid, j)
           lon == ScanLon(weather.grid, i)
           t == TileOrigin(lat, lon)
           r == RowOf(j)
           c == ColumnOf(i)
           h == tiles[t]
           n == ((k - 1) * h.nlat + (lat - h.lat0) \div h.d) * h.nlon
                  + (EastWest(lon) - h.lon0) \div h.d
<1>1. /\ r \in Rows(t) /\ c \in Columns(t) /\ t[1] \in Int /\ t[2] \in Int
      /\ t \in TilesForGrid(cube.grid, weather.tile)
  BY TileOfPoint
<1>2. /\ GridTyped(cube.grid) /\ Lats(cube.grid)[r] = lat /\ Lons(cube.grid)[c] = lon
      /\ EastWest(lon) = lon
  BY CellOfPoint
<1>3. weather.tile \in Nat
  BY CubeConstants DEF CubeInv, Weather
<1>4. t \in DOMAIN tiles <=> HasData(t)
  BY <1>1 DEF BuiltTiles
<1>5. ReadPoint(v, k, lat, lon) = IF t \in DOMAIN tiles THEN DecodedAt(h, v, n) ELSE NaN
  BY DEF ReadPoint
<1>6. CASE HasData(t)
  <2>1. h = EncodeTile(t)
    BY <1>1, <1>6 DEF BuiltTiles
  <2>2. n = ((k - 1) * h.nlat + (Lats(cube.grid)[r] - h.lat0) \div h.d) * h.nlon
              + (Lons(cube.grid)[c] - h.lon0) \div h.d
    BY <1>2
  <2> HIDE DEF t, r, c, h, n
  <2>3. DecodedAt(h, v, n) = CellAt(v, k, <<r, c>>)
    BY <1>1, <1>2, <1>3, <2>1, <2>2, TileHoldsCells
  <2>4. QED
    BY <1>4, <1>5, <1>6, <2>3 DEF r, c
<1>7. CASE ~HasData(t)
  <2>1. RawAt(v, k, <<r, c>>) = Sentinel(v)
    BY <1>1, <1>7 DEF HasData
  <2>2. QED
    BY <1>4, <1>5, <1>7, <2>1 DEF CellAt
<1>8. QED
  BY <1>6, <1>7

\* What is known of the cube and of its tiles gives the client's reading.
LEMMA PublishedReadsBack == CubeInv /\ BuiltTiles => ReadBack
<1> SUFFICES ASSUME CubeInv, BuiltTiles, cubeAt = "published",
                    NEW v \in CubeVars, NEW k \in DOMAIN LeadSteps,
                    NEW j \in 0..weather.grid.nj - 1, NEW i \in 0..weather.grid.ni - 1,
                    ScanLat(weather.grid, j) < Pole
             PROVE  Within(ReadPoint(v, k, ScanLat(weather.grid, j), ScanLon(weather.grid, i)),
                           IF <<LeadSteps[k], v>> \in weather.absent THEN NaN
                           ELSE weather.value[<<LeadSteps[k], v>>][
                                  <<ScanLat(weather.grid, j), ScanLon(weather.grid, i)>>])
  BY DEF ReadBack
<1> DEFINE c == <<RowOf(j), ColumnOf(i)>>
           m == Message(LeadSteps[k], v)
<1>1. c \in CubeCells(cube.grid)
  BY CellOfPoint DEF CubeCells
<1>2. Within(CellAt(v, k, c), GivenAt(v, k, c))
  BY <1>1, CubeIsClose DEF AcceptedIsClose
<1>3. DecodeField(weather.grid, m)[RowOf(j)][ColumnOf(i)] = m[j][i]
  BY CellOfPoint
<1>4. m[j][i] = weather.value[<<LeadSteps[k], v>>][
                  <<ScanLat(weather.grid, j), ScanLon(weather.grid, i)>>]
  BY DEF Message
<1>5. GivenAt(v, k, c) = IF <<LeadSteps[k], v>> \in weather.absent THEN NaN ELSE m[j][i]
  BY <1>3 DEF GivenAt
<1>6. QED
  BY <1>2, <1>4, <1>5, ReadsCell

\* A client of a published run finds each value, but those at the pole, in the tile of its own
\* point, within half a quantum of the provider's, and nothing where the provider has nothing:
\* for any regular global grid and scan order, any size of the tiles, any list of variables and
\* any gaps.
THEOREM PublishedValuesReadBack == TilesSpec => []ReadBack
<1>1. TilesInit => BuiltTiles
  BY DEF TilesInit, BuiltTiles
<1>2. QED
  BY <1>1, CubeInitially, NextCubeInv, NextBuiltTiles, PublishedReadsBack, PTL DEF TilesSpec

-----------------------------------------------------------------------------
\* The member of a set that none is less than is its least.
LEMMA LeastIs ==
  ASSUME NEW S \in SUBSET Int, NEW x \in S, \A y \in S : x <= y
  PROVE  Min(S) = x
<1>1. \A y \in S : (\A z \in S : y <= z) => y = x
  OBVIOUS
<1>2. QED
  BY <1>1 DEF Min

\* The member of a set that none is greater than is its greatest.
LEMMA MostIs ==
  ASSUME NEW S \in SUBSET Int, NEW x \in S, \A y \in S : y <= x
  PROVE  Max(S) = x
<1>1. \A y \in S : (\A z \in S : y >= z) => y = x
  OBVIOUS
<1>2. QED
  BY <1>1 DEF Max

\* A finite set that is not empty has a greatest member.
LEMMA MostOf ==
  ASSUME NEW S \in SUBSET Int, IsFiniteSet(S), S # {}
  PROVE  \E m \in S : \A n \in S : n <= m
<1> DEFINE N == {-y : y \in S}
<1>1. N \subseteq Int /\ N # {} /\ IsFiniteSet(N)
  <2> DEFINE f == [y \in S |-> -y]
  <2>1. f \in Surjection(S, N)
    BY DEF Surjection
  <2>2. N \subseteq Int
    OBVIOUS
  <2>3. PICK z \in S : TRUE
    OBVIOUS
  <2>4. -z \in N
    OBVIOUS
  <2> HIDE DEF f, N
  <2>5. QED
    BY <2>1, <2>2, <2>4, FS_Surjection
<1>2. PICK z \in N : \A n \in N : z <= n
  <2> HIDE DEF N
  <2>1. QED
    BY <1>1, LeastOf
<1>3. PICK x \in S : z = -x
  OBVIOUS
<1>4. ASSUME NEW y \in S PROVE y <= x
  <2>1. z <= -y
    BY <1>2
  <2>2. QED
    BY <1>3, <2>1
<1>5. QED
  BY <1>4

-----------------------------------------------------------------------------
(***************************************************************************)
(* Dispatcher: the slot of a minute, and the cycle of a slot.              *)
(***************************************************************************)
IsMinute(t, day, m) == day \in Int /\ m \in 0..1439 /\ t = 1440 * day + m

\* A minute of a day: its hour, and the midnight before it.
LEMMA Clock ==
  ASSUME NEW t, NEW day, NEW m, IsMinute(t, day, m)
  PROVE  /\ t \in Int /\ day \in Int /\ m \in 0..1439 /\ t = 1440 * day + m
         /\ t % 60 = m % 60 /\ HourOf(t) = m \div 60 /\ Midnight(t) = 1440 * day
BY DEF HourOf, Midnight, IsMinute

\* An entry's minute of the hour, and the bounds of its lag.
LEMMA EntryTyped ==
  ASSUME NEW e \in Timetable
  PROVE  e.minute \in {0, 15, 20, 25, 45} /\ e.lag \in 165..585
BY DEF Timetable, Row, Hm

\* Each cron is a minute of the day for which the timetable has an entry.
LEMMA CronsAreSlots ==
  ASSUME NEW m \in Crons
  PROVE  /\ m \in 0..1439 /\ m % 60 \in {0, 15, 20, 25, 45}
         /\ \E e \in Timetable : e.minute = m % 60 /\ m \div 60 \in e.hours
<1>1. CASE m \in Cron(25, {3, 4, 9, 10, 15, 16, 21, 22})
  <2>1. Row("weather", {4, 10, 16, 22}, 25, Hm(4, 25), 90) \in Timetable
        /\ Row("icon-eu", {3, 9, 15, 21}, 25, Hm(3, 25), 45) \in Timetable
    BY DEF Timetable
  <2>2. PICK h \in {3, 4, 9, 10, 15, 16, 21, 22} : m = 60 * h + 25
    BY <1>1 DEF Cron, Hm
  <2>3. m % 60 = 25 /\ m \div 60 = h /\ m \in 0..1439
    BY <2>2
  <2>4. QED
    BY <2>1, <2>2, <2>3 DEF Row
<1>2. CASE m \in Cron(15, {0, 1, 4, 6, 10, 12, 13, 16, 18, 22})
  <2>1. /\ Row("ensemble", {0, 6, 12, 18}, 15, Hm(6, 15), 90) \in Timetable
        /\ Row("arome", {13}, 15, Hm(4, 15), 90) \in Timetable
        /\ Row("arome", {1}, 15, Hm(4, 15), 90) \in Timetable
        /\ Row("ukv", {4, 10, 16, 22}, 15, Hm(4, 15), 120) \in Timetable
    BY DEF Timetable
  <2>2. PICK h \in {0, 1, 4, 6, 10, 12, 13, 16, 18, 22} : m = 60 * h + 15
    BY <1>2 DEF Cron, Hm
  <2>3. m % 60 = 15 /\ m \div 60 = h /\ m \in 0..1439
    BY <2>2
  <2>4. QED
    BY <2>1, <2>2, <2>3 DEF Row
<1>3. CASE m \in Cron(0, {5, 11, 17, 23})
  <2>1. Row("waves", {5, 11, 17, 23}, 0, Hm(5, 0), 90) \in Timetable
    BY DEF Timetable
  <2>2. PICK h \in {5, 11, 17, 23} : m = 60 * h
    BY <1>3 DEF Cron, Hm
  <2>3. m % 60 = 0 /\ m \div 60 = h /\ m \in 0..1439
    BY <2>2
  <2>4. QED
    BY <2>1, <2>2, <2>3 DEF Row
<1>4. CASE m \in Cron(20, {7, 19})
  <2>1. Row("ecmwf", {7, 19}, 20, Hm(7, 20), 120) \in Timetable
    BY DEF Timetable
  <2>2. PICK h \in {7, 19} : m = 60 * h + 20
    BY <1>4 DEF Cron, Hm
  <2>3. m % 60 = 20 /\ m \div 60 = h /\ m \in 0..1439
    BY <2>2
  <2>4. QED
    BY <2>1, <2>2, <2>3 DEF Row
<1>5. CASE m \in Cron(45, {5, 9, 18})
  <2>1. /\ Row("currents", {5}, 45, Hm(5, 45), 240) \in Timetable
        /\ Row("currents-ibi", {9}, 45, Hm(9, 45), 180) \in Timetable
        /\ Row("arome", {18}, 45, Hm(3, 45), 90) \in Timetable
    BY DEF Timetable
  <2>2. PICK h \in {5, 9, 18} : m = 60 * h + 45
    BY <1>5 DEF Cron, Hm
  <2>3. m % 60 = 45 /\ m \div 60 = h /\ m \in 0..1439
    BY <2>2
  <2>4. QED
    BY <2>1, <2>2, <2>3 DEF Row
<1>6. QED
  BY <1>1, <1>2, <1>3, <1>4, <1>5 DEF Crons

\* The entries of the regional layers: Arome has four of its own lags, the others have one.
LEMMA RegionalRows ==
  ASSUME NEW e \in Timetable
  PROVE  /\ e.layer = "arome" =>
              \/ e.hours = {5} /\ e.minute = 45 /\ e.lag = 165
              \/ e.hours = {13} /\ e.minute = 15 /\ e.lag = 255
              \/ e.hours = {18} /\ e.minute = 45 /\ e.lag = 225
              \/ e.hours = {1} /\ e.minute = 15 /\ e.lag = 255
         /\ e.layer = "icon-eu" => e.hours = {3, 9, 15, 21} /\ e.minute = 25 /\ e.lag = 205
         /\ e.layer = "ukv" => e.hours = {4, 10, 16, 22} /\ e.minute = 15 /\ e.lag = 255
BY DEF Timetable, Row, Hm

\* Every time is a minute of some day.
LEMMA DayAndMinute ==
  ASSUME NEW t \in Int
  PROVE  \E day, m : IsMinute(t, day, m)
<1>1. t \div 1440 \in Int /\ t % 1440 \in 0..1439 /\ t = 1440 * (t \div 1440) + (t % 1440)
  OBVIOUS
<1>2. IsMinute(t, t \div 1440, t % 1440)
  BY <1>1 DEF IsMinute
<1>3. QED
  BY <1>2

\* The cycle of a regional entry's slot is one of the registry's, whose lag is the entry's.
LEMMA SlotHasCycle ==
  ASSUME NEW s \in Int, NEW e \in EntriesAt(s), NEW l, l = e.layer, l \in RegionalLayers
  PROVE  /\ (s - e.lag) % 60 = 0 /\ s - e.lag \in Int
         /\ HourOf(s - e.lag) \in DOMAIN RegistryLag(l)
         /\ RegistryLag(l)[HourOf(s - e.lag)] = e.lag
<1>0. e \in Timetable /\ e.layer = l
  BY DEF EntriesAt
<1>1. e \in Timetable /\ e.minute = s % 60 /\ HourOf(s) \in e.hours
  BY DEF EntriesAt
<1>2. PICK day, m : IsMinute(s, day, m)
  BY DayAndMinute
<1>3. s % 60 = m % 60 /\ HourOf(s) = m \div 60 /\ s = 1440 * day + m /\ day \in Int /\ m \in 0..1439
  BY <1>2, Clock
<1>4. ASSUME NEW hr \in 0..23, NEW mi \in 0..59, HourOf(s) = hr, s % 60 = mi PROVE m = 60 * hr + mi
  BY <1>3, <1>4
<1>9. /\ e.layer = "arome" =>
            \/ e.hours = {5} /\ e.minute = 45 /\ e.lag = 165
            \/ e.hours = {13} /\ e.minute = 15 /\ e.lag = 255
            \/ e.hours = {18} /\ e.minute = 45 /\ e.lag = 225
            \/ e.hours = {1} /\ e.minute = 15 /\ e.lag = 255
      /\ e.layer = "icon-eu" => e.hours = {3, 9, 15, 21} /\ e.minute = 25 /\ e.lag = 205
      /\ e.layer = "ukv" => e.hours = {4, 10, 16, 22} /\ e.minute = 15 /\ e.lag = 255
  BY <1>0, RegionalRows, Zenon
<1>5. CASE l = "arome"
  <2>1. CASE e.hours = {5} /\ e.minute = 45 /\ e.lag = 165
    <3>1. m = 60 * 5 + 45
      BY <1>1, <1>4, <2>1
    <3>2. IsMinute(s - e.lag, day, 180)
      BY <1>3, <2>1, <3>1 DEF IsMinute
    <3>3. QED
      BY <1>5, <2>1, <3>2, Clock DEF RegistryLag
  <2>2. CASE e.hours = {13} /\ e.minute = 15 /\ e.lag = 255
    <3>1. m = 60 * 13 + 15
      BY <1>1, <1>4, <2>2
    <3>2. IsMinute(s - e.lag, day, 540)
      BY <1>3, <2>2, <3>1 DEF IsMinute
    <3>3. QED
      BY <1>5, <2>2, <3>2, Clock DEF RegistryLag
  <2>3. CASE e.hours = {18} /\ e.minute = 45 /\ e.lag = 225
    <3>1. m = 60 * 18 + 45
      BY <1>1, <1>4, <2>3
    <3>2. IsMinute(s - e.lag, day, 900)
      BY <1>3, <2>3, <3>1 DEF IsMinute
    <3>3. QED
      BY <1>5, <2>3, <3>2, Clock DEF RegistryLag
  <2>4. CASE e.hours = {1} /\ e.minute = 15 /\ e.lag = 255
    <3>1. m = 60 * 1 + 15
      BY <1>1, <1>4, <2>4
    <3>2. IsMinute(s - e.lag, day - 1, 1260)
      BY <1>3, <2>4, <3>1 DEF IsMinute
    <3>3. QED
      BY <1>5, <2>4, <3>2, Clock DEF RegistryLag
  <2>5. QED
    BY <1>0, <1>5, <2>1, <2>2, <2>3, <2>4, <1>9
<1>6. CASE l = "icon-eu"
  <2>1. e.hours = {3, 9, 15, 21} /\ e.minute = 25 /\ e.lag = 205
    BY <1>0, <1>6, <1>9
  <2>2. PICK h \in {3, 9, 15, 21} : m = 60 * h + 25
    BY <1>1, <1>4, <2>1
  <2>3. IsMinute(s - e.lag, day, 60 * (h - 3))
    BY <1>3, <2>1, <2>2 DEF IsMinute
  <2>4. 60 * (h - 3) \in 0..1439 /\ (60 * (h - 3)) \div 60 = h - 3 /\ (60 * (h - 3)) % 60 = 0
        /\ h - 3 \in {0, 6, 12, 18}
    BY <2>2
  <2>5. QED
    BY <1>6, <2>1, <2>3, <2>4, Clock DEF RegistryLag
<1>7. CASE l = "ukv"
  <2>1. e.hours = {4, 10, 16, 22} /\ e.minute = 15 /\ e.lag = 255
    BY <1>0, <1>7, <1>9
  <2>2. PICK h \in {4, 10, 16, 22} : m = 60 * h + 15
    BY <1>1, <1>4, <2>1
  <2>3. IsMinute(s - e.lag, day, 60 * (h - 4))
    BY <1>3, <2>1, <2>2 DEF IsMinute
  <2>4. 60 * (h - 4) \in 0..1439 /\ (60 * (h - 4)) \div 60 = h - 4 /\ (60 * (h - 4)) % 60 = 0
        /\ h - 4 \in {0, 6, 12, 18}
    BY <2>2
  <2>5. QED
    BY <1>7, <2>1, <2>3, <2>4, Clock DEF RegistryLag
<1>8. QED
  BY <1>5, <1>6, <1>7 DEF RegionalLayers

\* Each of the registry's cycles has an entry, a lag after it.
LEMMA CycleHasSlot ==
  ASSUME NEW c \in Int, c % 60 = 0, NEW l \in RegionalLayers, HourOf(c) \in DOMAIN RegistryLag(l)
  PROVE  /\ RegistryLag(l)[HourOf(c)] \in Nat
         /\ \E e \in EntriesAt(c + RegistryLag(l)[HourOf(c)]) :
              e.layer = l /\ e.lag = RegistryLag(l)[HourOf(c)]
<1>1. PICK day, m : IsMinute(c, day, m)
  BY DayAndMinute
<1>2. m % 60 = 0 /\ HourOf(c) = m \div 60 /\ c = 1440 * day + m /\ day \in Int /\ m \in 0..1439
  BY <1>1, Clock
<1>3. m = 60 * HourOf(c) /\ HourOf(c) \in 0..23
  BY <1>2
<1>4. CASE l = "arome"
  <2>1. HourOf(c) \in {3, 9, 15, 21}
    BY <1>4 DEF RegistryLag
  <2>2. /\ Row("arome", {5}, 45, Hm(2, 45), 90) \in Timetable
        /\ Row("arome", {13}, 15, Hm(4, 15), 90) \in Timetable
        /\ Row("arome", {18}, 45, Hm(3, 45), 90) \in Timetable
        /\ Row("arome", {1}, 15, Hm(4, 15), 90) \in Timetable
    BY DEF Timetable
  <2>3. CASE HourOf(c) = 3
    <3>1. RegistryLag(l)[HourOf(c)] = 165 /\ IsMinute(c + 165, day, 345)
      BY <1>2, <1>3, <1>4, <2>3 DEF RegistryLag, IsMinute
    <3>2. (c + 165) % 60 = 45 /\ HourOf(c + 165) = 5
      BY <3>1, Clock
    <3>3. QED
      BY <1>4, <2>2, <3>1, <3>2 DEF EntriesAt, Row, Hm
  <2>4. CASE HourOf(c) = 9
    <3>1. RegistryLag(l)[HourOf(c)] = 255 /\ IsMinute(c + 255, day, 795)
      BY <1>2, <1>3, <1>4, <2>4 DEF RegistryLag, IsMinute
    <3>2. (c + 255) % 60 = 15 /\ HourOf(c + 255) = 13
      BY <3>1, Clock
    <3>3. QED
      BY <1>4, <2>2, <3>1, <3>2 DEF EntriesAt, Row, Hm
  <2>5. CASE HourOf(c) = 15
    <3>1. RegistryLag(l)[HourOf(c)] = 225 /\ IsMinute(c + 225, day, 1125)
      BY <1>2, <1>3, <1>4, <2>5 DEF RegistryLag, IsMinute
    <3>2. (c + 225) % 60 = 45 /\ HourOf(c + 225) = 18
      BY <3>1, Clock
    <3>3. QED
      BY <1>4, <2>2, <3>1, <3>2 DEF EntriesAt, Row, Hm
  <2>6. CASE HourOf(c) = 21
    <3>1. RegistryLag(l)[HourOf(c)] = 255 /\ IsMinute(c + 255, day + 1, 75)
      BY <1>2, <1>3, <1>4, <2>6 DEF RegistryLag, IsMinute
    <3>2. (c + 255) % 60 = 15 /\ HourOf(c + 255) = 1
      BY <3>1, Clock
    <3>3. QED
      BY <1>4, <2>2, <3>1, <3>2 DEF EntriesAt, Row, Hm
  <2>7. QED
    BY <2>1, <2>3, <2>4, <2>5, <2>6
<1>5. CASE l = "icon-eu"
  <2>1. HourOf(c) \in {0, 6, 12, 18} /\ RegistryLag(l)[HourOf(c)] = 205
    BY <1>5 DEF RegistryLag
  <2>2. Row("icon-eu", {3, 9, 15, 21}, 25, Hm(3, 25), 45) \in Timetable
    BY DEF Timetable
  <2>3. IsMinute(c + 205, day, 60 * HourOf(c) + 205)
    <3>1. 60 * HourOf(c) + 205 \in 0..1439
      BY <2>1
    <3>2. c + 205 = 1440 * day + (60 * HourOf(c) + 205)
      BY <1>2, <1>3
    <3>3. QED
      BY <1>2, <3>1, <3>2 DEF IsMinute
  <2>4. (60 * HourOf(c) + 205) % 60 = 25 /\ (60 * HourOf(c) + 205) \div 60 = HourOf(c) + 3
    BY <2>1
  <2>5. (c + 205) % 60 = 25 /\ HourOf(c + 205) \in {3, 9, 15, 21}
    BY <2>1, <2>3, <2>4, Clock
  <2>6. QED
    BY <1>5, <2>1, <2>2, <2>5 DEF EntriesAt, Row, Hm
<1>6. CASE l = "ukv"
  <2>1. HourOf(c) \in {0, 6, 12, 18} /\ RegistryLag(l)[HourOf(c)] = 255
    BY <1>6 DEF RegistryLag
  <2>2. Row("ukv", {4, 10, 16, 22}, 15, Hm(4, 15), 120) \in Timetable
    BY DEF Timetable
  <2>3. IsMinute(c + 255, day, 60 * HourOf(c) + 255)
    <3>1. 60 * HourOf(c) + 255 \in 0..1439
      BY <2>1
    <3>2. c + 255 = 1440 * day + (60 * HourOf(c) + 255)
      BY <1>2, <1>3
    <3>3. QED
      BY <1>2, <3>1, <3>2 DEF IsMinute
  <2>4. (60 * HourOf(c) + 255) % 60 = 15 /\ (60 * HourOf(c) + 255) \div 60 = HourOf(c) + 4
    BY <2>1
  <2>5. (c + 255) % 60 = 15 /\ HourOf(c + 255) \in {4, 10, 16, 22}
    BY <2>1, <2>3, <2>4, Clock
  <2>6. QED
    BY <1>6, <2>1, <2>2, <2>5 DEF EntriesAt, Row, Hm
<1>7. QED
  BY <1>4, <1>5, <1>6 DEF RegionalLayers

CycleOf(l, c) == c \in Int /\ c % 60 = 0 /\ HourOf(c) \in DOMAIN RegistryLag(l)
SlotOf(l, c) == c + RegistryLag(l)[HourOf(c)]

\* Slots follow one another as their cycles do: Arome's lags differ by less than six hours.
LEMMA LaterCycleLaterSlot ==
  ASSUME NEW l \in RegionalLayers, NEW c, NEW d, CycleOf(l, c), CycleOf(l, d), c < d
  PROVE  SlotOf(l, c) < SlotOf(l, d)
<1>1. PICK day, m : IsMinute(c, day, m)
  BY DayAndMinute DEF CycleOf
<1>2. PICK day2, m2 : IsMinute(d, day2, m2)
  BY DayAndMinute DEF CycleOf
<1>3. /\ c = 1440 * day + m /\ day \in Int /\ m \in 0..1439 /\ m % 60 = 0 /\ HourOf(c) = m \div 60
      /\ d = 1440 * day2 + m2 /\ day2 \in Int /\ m2 \in 0..1439 /\ m2 % 60 = 0
      /\ HourOf(d) = m2 \div 60
  BY <1>1, <1>2, Clock DEF CycleOf
<1>4. m = 60 * HourOf(c) /\ m2 = 60 * HourOf(d) /\ HourOf(c) \in 0..23 /\ HourOf(d) \in 0..23
  BY <1>3
<1>5. CASE l = "arome"
  <2>1. HourOf(c) \in {3, 9, 15, 21} /\ HourOf(d) \in {3, 9, 15, 21}
    BY <1>5 DEF CycleOf, RegistryLag
  <2>2. PICK a \in 0..3 : HourOf(c) = 6 * a + 3
    BY <2>1
  <2>3. PICK b \in 0..3 : HourOf(d) = 6 * b + 3
    BY <2>1
  <2>4. c = 360 * (4 * day + a) + 180 /\ d = 360 * (4 * day2 + b) + 180
    BY <1>3, <1>4, <2>2, <2>3
  <2>5. d - c >= 360
    BY <1>3, <2>2, <2>3, <2>4
  <2>6. PICK p \in 165..255, q \in 165..255 :
          p = RegistryLag(l)[HourOf(c)] /\ q = RegistryLag(l)[HourOf(d)]
    <3>1. ASSUME NEW h \in {3, 9, 15, 21} PROVE RegistryLag(l)[h] \in 165..255
      BY <1>5 DEF RegistryLag
    <3>2. RegistryLag(l)[HourOf(c)] \in 165..255 /\ RegistryLag(l)[HourOf(d)] \in 165..255
      BY <2>1, <3>1
    <3>3. QED
      BY <3>2
  <2>7. SlotOf(l, c) = c + p /\ SlotOf(l, d) = d + q
    BY <2>6 DEF SlotOf
  <2>8. c \in Int /\ d \in Int
    BY DEF CycleOf
  <2>9. QED
    BY <2>5, <2>7, <2>8
<1>6. CASE l # "arome"
  <2>1. RegistryLag(l)[HourOf(c)] \in Int /\ RegistryLag(l)[HourOf(c)] = RegistryLag(l)[HourOf(d)]
    BY <1>6 DEF CycleOf, RegistryLag
  <2>2. QED
    BY <1>3, <2>1 DEF SlotOf
<1>7. QED
  BY <1>5, <1>6

\* The cycles that next_dispatch looks through are those of two days.
LEMMA CyclesOfTwoDays ==
  ASSUME NEW l \in RegionalLayers, NEW c \in Int
  PROVE  /\ Midnight(c) \in Int /\ Midnight(c) <= c /\ c < Midnight(c) + 1440
         /\ RegionalCycles(l, c) \subseteq Int
         /\ \A x \in Int : x \in RegionalCycles(l, c) <=>
              /\ x % 60 = 0 /\ HourOf(x) \in RegistryCycles(l)
              /\ Midnight(c) <= x /\ x < Midnight(c) + 2880
<1>1. PICK day, m : IsMinute(c, day, m)
  BY DayAndMinute
<1>2. Midnight(c) = 1440 * day /\ c = 1440 * day + m /\ m \in 0..1439 /\ day \in Int
  BY <1>1, Clock
<1>3. RegistryCycles(l) \subseteq 0..23
  BY DEF RegistryCycles, RegistryLag, CanaryHours
<1>4. ASSUME NEW k \in 0..1, NEW h \in RegistryCycles(l), NEW x, x = Midnight(c) + Hm(24 * k + h, 0)
      PROVE  x \in Int /\ x % 60 = 0 /\ HourOf(x) = h /\ Midnight(c) <= x /\ x < Midnight(c) + 2880
  <2>1. h \in 0..23 /\ 60 * h \in 0..1439 /\ (60 * h) % 60 = 0 /\ (60 * h) \div 60 = h
    BY <1>3
  <2>2. x = 1440 * (day + k) + 60 * h /\ day + k \in Int
    BY <1>2, <1>4, <2>1 DEF Hm
  <2>3. IsMinute(x, day + k, 60 * h)
    BY <2>1, <2>2 DEF IsMinute
  <2>4. x \in Int /\ x % 60 = 0 /\ HourOf(x) = h
    BY <2>1, <2>3, Clock
  <2>5. Midnight(c) <= x /\ x < Midnight(c) + 2880
    BY <1>2, <2>1, <2>2
  <2>6. QED
    BY <2>4, <2>5
<1>5. ASSUME NEW x \in Int, x % 60 = 0, HourOf(x) \in RegistryCycles(l),
             Midnight(c) <= x, x < Midnight(c) + 2880
      PROVE  x \in RegionalCycles(l, c)
  <2>1. PICK d, n : IsMinute(x, d, n)
    BY DayAndMinute
  <2>2. /\ x = 1440 * d + n /\ n % 60 = 0 /\ HourOf(x) = n \div 60 /\ n \in 0..1439 /\ d \in Int
    BY <1>5, <2>1, Clock
  <2>3. d - day \in 0..1
    BY <1>2, <1>5, <2>2
  <2>4. HourOf(x) \in Int /\ n = 60 * HourOf(x)
    BY <2>2
  <2>5. x = Midnight(c) + Hm(24 * (d - day) + HourOf(x), 0)
    BY <1>2, <2>2, <2>4 DEF Hm
  <2>6. QED
    BY <1>5, <2>3, <2>5 DEF RegionalCycles
<1>6. RegionalCycles(l, c) \subseteq Int
  BY <1>4 DEF RegionalCycles
<1>7. ASSUME NEW x \in RegionalCycles(l, c)
      PROVE  x % 60 = 0 /\ HourOf(x) \in RegistryCycles(l) /\ Midnight(c) <= x
             /\ x < Midnight(c) + 2880
  BY <1>4, <1>7 DEF RegionalCycles
<1>8. QED
  BY <1>2, <1>5, <1>6, <1>7

\* After any regional dispatch the ingest reckons with the very next one.
LEMMA NextDispatchIsNext ==
  ASSUME NEW t \in Int, NEW e \in EntriesAt(t), NEW l \in RegionalLayers, l = e.layer,
         fire.full \/ HourOf(t - e.lag) \in CanaryHours(l)
  PROVE  NextDispatch(l, t - e.lag) = NextOf(l, t)
<1> DEFINE c0 == t - e.lag
           near == {x \in RegionalCycles(l, c0) : x > c0}
           A == {SlotOf(l, c) : c \in near}
           B == {s \in t + 1..t + 2880 : \E f \in EntriesAt(s) :
                   f.layer = l /\ (fire.full \/ HourOf(s - f.lag) \in CanaryHours(l))}
<1>1. /\ CycleOf(l, c0) /\ c0 \in Int /\ SlotOf(l, c0) = t
  <2>1. c0 % 60 = 0 /\ c0 \in Int /\ HourOf(c0) \in DOMAIN RegistryLag(l)
        /\ RegistryLag(l)[HourOf(c0)] = e.lag
    BY SlotHasCycle
  <2>2. e.lag \in Int
    BY EntryTyped DEF EntriesAt
  <2>3. QED
    BY <2>1, <2>2 DEF CycleOf, SlotOf
<1>2. HourOf(c0) \in RegistryCycles(l) /\ RegistryCycles(l) \subseteq DOMAIN RegistryLag(l)
  BY <1>1 DEF RegistryCycles, CanaryHours, RegistryLag, CycleOf
<1>3. /\ Midnight(c0) \in Int /\ Midnight(c0) <= c0 /\ c0 < Midnight(c0) + 1440
      /\ RegionalCycles(l, c0) \subseteq Int
      /\ \A x \in Int : x \in RegionalCycles(l, c0) <=>
           /\ x % 60 = 0 /\ HourOf(x) \in RegistryCycles(l)
           /\ Midnight(c0) <= x /\ x < Midnight(c0) + 2880
  BY <1>1, CyclesOfTwoDays
<1> HIDE DEF c0
\* The cycles that count give the slots that count.
<1>4. ASSUME NEW c \in near PROVE SlotOf(l, c) \in Int /\ SlotOf(l, c) > t /\ CycleOf(l, c)
  <2>1. CycleOf(l, c) /\ c > c0
    BY <1>2, <1>3 DEF CycleOf
  <2>2. RegistryLag(l)[HourOf(c)] \in Nat /\ c \in Int
    BY <2>1, CycleHasSlot DEF CycleOf
  <2>3. SlotOf(l, c0) < SlotOf(l, c)
    BY <1>1, <2>1, LaterCycleLaterSlot
  <2>4. SlotOf(l, c) \in Int
    BY <2>2 DEF SlotOf
  <2>5. QED
    BY <1>1, <2>1, <2>3, <2>4
<1>5. ASSUME NEW s \in Int, NEW f \in EntriesAt(s), f.layer = l,
             fire.full \/ HourOf(s - f.lag) \in CanaryHours(l), s > t
      PROVE  s - f.lag > c0 /\ CycleOf(l, s - f.lag) /\ SlotOf(l, s - f.lag) = s
             /\ HourOf(s - f.lag) \in RegistryCycles(l)
  <2> DEFINE c == s - f.lag
  <2>1. c % 60 = 0 /\ c \in Int /\ HourOf(c) \in DOMAIN RegistryLag(l)
        /\ RegistryLag(l)[HourOf(c)] = f.lag
    BY <1>5, SlotHasCycle
  <2>2. f.lag \in Int
    BY EntryTyped DEF EntriesAt
  <2>3. CycleOf(l, c) /\ SlotOf(l, c) = s
    BY <2>1, <2>2 DEF CycleOf, SlotOf
  <2>4. HourOf(c) \in RegistryCycles(l)
    BY <1>5, <2>1 DEF RegistryCycles
  <2> HIDE DEF c
  <2>5. ~(c < c0)
    BY <1>1, <1>5, <2>3, LaterCycleLaterSlot
  <2>6. c # c0
    BY <1>1, <1>5, <2>3
  <2>7. QED
    BY <1>1, <2>1, <2>3, <2>4, <2>5, <2>6 DEF c
\* The same cycle of the next day is among them.
<1>6. c0 + 1440 \in near /\ SlotOf(l, c0 + 1440) = t + 1440
  <2>1. PICK day, m : IsMinute(c0, day, m)
    BY <1>1, DayAndMinute
  <2>2. IsMinute(c0 + 1440, day + 1, m)
    BY <2>1 DEF IsMinute
  <2>3. HourOf(c0 + 1440) = HourOf(c0) /\ (c0 + 1440) % 60 = c0 % 60
    BY <2>1, <2>2, Clock
  <2>4. c0 % 60 = 0
    BY <1>1 DEF CycleOf
  <2>5. c0 + 1440 \in near
    BY <1>1, <1>2, <1>3, <2>3, <2>4
  <2>6. RegistryLag(l)[HourOf(c0)] \in Nat
    BY <1>1, CycleHasSlot DEF CycleOf
  <2>7. QED
    BY <1>1, <2>3, <2>5, <2>6 DEF SlotOf
<1>7. A \subseteq t + 1..t + 3200 /\ A # {}
  <2>1. ASSUME NEW c \in near PROVE SlotOf(l, c) \in t + 1..t + 3200
    <3>1. c <= c0 + 2880 /\ c \in Int
      BY <1>1, <1>3
    <3>2. RegistryLag(l)[HourOf(c)] \in 165..255 /\ RegistryLag(l)[HourOf(c0)] \in 165..255
      BY <1>1, <1>4 DEF CycleOf, RegistryLag
    <3>3. QED
      BY <1>1, <1>4, <3>1, <3>2 DEF SlotOf
  <2>2. QED
    BY <1>6, <2>1
<1>8. PICK n \in A : \A a \in A : n <= a
  <2> DEFINE days == t + 1..t + 3200
  <2>1. IsFiniteSet(days) /\ A \subseteq days
    BY <1>7, FS_Interval
  <2> HIDE DEF A, days
  <2>2. IsFiniteSet(A)
    BY <2>1, FS_Subset
  <2>3. QED
    BY <1>7, <2>2, LeastOf
<1>9. n \in Int /\ n <= t + 1440 /\ n > t
  BY <1>6, <1>7, <1>8
<1>10. n \in B
  <2>1. PICK c \in near : n = SlotOf(l, c)
    BY <1>8
  <2>2. CycleOf(l, c) /\ c \in Int /\ HourOf(c) \in RegistryCycles(l)
    BY <1>3, <1>4
  <2>3. PICK f \in EntriesAt(n) : f.layer = l /\ f.lag = RegistryLag(l)[HourOf(c)]
    BY <2>1, <2>2, CycleHasSlot DEF CycleOf, SlotOf
  <2>4. f.lag \in Int
    BY EntryTyped DEF EntriesAt
  <2>5. n - f.lag = c
    BY <2>1, <2>2, <2>3, <2>4 DEF SlotOf
  <2>6. fire.full \/ HourOf(n - f.lag) \in CanaryHours(l)
    BY <2>2, <2>5 DEF RegistryCycles
  <2>7. QED
    BY <1>9, <2>3, <2>6
<1>11. ASSUME NEW b \in B PROVE n <= b
  <2>1. b \in Int /\ b > t
    OBVIOUS
  <2>2. PICK f \in EntriesAt(b) : f.layer = l /\ (fire.full \/ HourOf(b - f.lag) \in CanaryHours(l))
    OBVIOUS
  <2> DEFINE c == b - f.lag
  <2>3. c > c0 /\ CycleOf(l, c) /\ SlotOf(l, c) = b /\ HourOf(c) \in RegistryCycles(l)
    BY <1>5, <2>1, <2>2
  <2> HIDE DEF c
  <2>4. c \in Int /\ c % 60 = 0
    BY <2>3 DEF CycleOf
  <2>5. CASE c < Midnight(c0) + 2880
    <3>1. c \in near
      BY <1>1, <1>3, <2>3, <2>4, <2>5
    <3>2. QED
      BY <1>8, <2>3, <3>1
  <2>6. CASE c >= Midnight(c0) + 2880
    <3>1. c > c0 + 1440 /\ CycleOf(l, c0 + 1440)
      BY <1>1, <1>3, <1>4, <1>6, <2>4, <2>6
    <3>2. SlotOf(l, c0 + 1440) < SlotOf(l, c)
      BY <2>3, <3>1, LaterCycleLaterSlot
    <3>3. QED
      BY <1>6, <1>9, <2>1, <2>3, <3>2
  <2>7. QED
    BY <1>3, <2>4, <2>5, <2>6
<1>12. Min(A) = n /\ Min(B) = n
  <2>1. A \subseteq Int /\ B \subseteq Int
    BY <1>7
  <2> HIDE DEF A, B
  <2>2. QED
    BY <1>8, <1>10, <1>11, <2>1, LeastIs
<1>13. NextDispatch(l, t - e.lag) = Min(A)
  BY DEF NextDispatch, SlotOf, c0
<1>14. NextOf(l, t) = Min(B)
  BY DEF NextOf
<1>15. QED
  BY <1>12, <1>13, <1>14


\* Entries are due at five minutes of the hour, which lie further apart than a fire may be
\* late.
LEMMA SlotMinutes ==
  ASSUME NEW s \in Int, EntriesAt(s) # {}
  PROVE  s % 60 \in {0, 15, 20, 25, 45}
BY EntryTyped DEF EntriesAt

\* Something is due at every cron.
LEMMA CronHasEntry ==
  ASSUME NEW t, NEW day, NEW m \in Crons, IsMinute(t, day, m)
  PROVE  EntriesAt(t) # {} /\ t \in Int
<1>1. t \in Int /\ t % 60 = m % 60 /\ HourOf(t) = m \div 60
  BY Clock
<1>2. QED
  BY <1>1, CronsAreSlots DEF EntriesAt

\* slotAt finds a slot no later than the fire and no earlier than it may be late, or none.
LEMMA LatestSlot ==
  ASSUME NEW u \in Int
  PROVE  LET S == {s \in (u - MaxLate)..u : EntriesAt(s) # {}} \cup {-1}
         IN  SlotAt(u) \in S /\ SlotAt(u) \in Int
<1> DEFINE S == {s \in (u - MaxLate)..u : EntriesAt(s) # {}} \cup {-1}
<1>1. S \subseteq Int /\ S # {} /\ IsFiniteSet(S)
  <2> DEFINE all == (u - MaxLate)..u
             some == {s \in all : EntriesAt(s) # {}}
  <2>1. IsFiniteSet(all)
    BY FS_Interval DEF MaxLate
  <2>2. some \subseteq all
    OBVIOUS
  <2>3. IsFiniteSet(some)
    <3> HIDE DEF all, some
    <3>1. QED
      BY <2>1, <2>2, FS_Subset
  <2>4. IsFiniteSet(some \cup {-1})
    <3> HIDE DEF some
    <3>1. QED
      BY <2>3, FS_AddElement
  <2>5. QED
    BY <2>4 DEF MaxLate
<1> HIDE DEF S
<1>3. PICK x \in S : \A y \in S : y <= x
  BY <1>1, MostOf
<1>4. Max(S) = x
  BY <1>1, <1>3, MostIs
<1>5. SlotAt(u) = Max(S)
  BY DEF SlotAt, S
<1>6. QED
  BY <1>1, <1>3, <1>4, <1>5 DEF S

\* A fire in time is for the slot of its own minute.
LEMMA OwnSlot ==
  ASSUME NEW t, NEW day \in Nat \ {0}, NEW m \in Crons, IsMinute(t, day, m), NEW late \in 0..MaxLate
  PROVE  SlotAt(t + late) = t
<1> DEFINE u == t + late
           S == {s \in (u - MaxLate)..u : EntriesAt(s) # {}} \cup {-1}
<1>1. t \in Int /\ EntriesAt(t) # {} /\ t >= 0 /\ u \in Int
  BY CronHasEntry, Clock DEF MaxLate
<1>2. t \in S
  BY <1>1 DEF MaxLate
<1>3. t % 60 \in {0, 15, 20, 25, 45}
  BY <1>1, SlotMinutes
<1>4. ASSUME NEW s \in S PROVE s <= t
  <2>1. CASE s = -1
    BY <1>1, <2>1
  <2>2. CASE s \in (u - MaxLate)..u /\ EntriesAt(s) # {}
    <3>1. s \in Int /\ s % 60 \in {0, 15, 20, 25, 45}
      BY <2>2, <1>1, SlotMinutes DEF MaxLate
    <3>2. s <= t + 4
      BY <1>1, <2>2, <3>1 DEF MaxLate
    <3> HIDE DEF u, S
    <3>3. QED
      BY <1>1, <1>3, <3>1, <3>2
  <2>3. QED
    BY <2>1, <2>2
<1>5. S \subseteq Int
  BY <1>1 DEF MaxLate
<1>6. Max(S) = t
  <2> HIDE DEF S
  <2>1. QED
    BY <1>2, <1>4, <1>5, MostIs
<1>7. QED
  BY <1>6 DEF SlotAt

\* A layer has one lag, arome one for each of its cycles: what is due for a slot says which
\* slot it was.
LEMMA LagOfLayer ==
  ASSUME NEW e \in Timetable
  PROVE  /\ e.layer = "weather" => e.lag = 265
         /\ e.layer = "waves" => e.lag = 300
         /\ e.layer = "ensemble" => e.lag = 375
         /\ e.layer = "ecmwf-short" => e.lag = 375 /\ e.minute = 15 /\ e.hours = {0, 12}
         /\ e.layer = "ecmwf" => e.lag = 440
         /\ e.layer = "currents" => e.lag = 345
         /\ e.layer = "currents-ibi" => e.lag = 585
         /\ e.layer \in {"weather", "waves", "ensemble", "ecmwf-short", "ecmwf", "currents",
                         "currents-ibi"} \cup RegionalLayers
BY DEF Timetable, Row, Hm, RegionalLayers

\* What is due for one slot is not due for another.
LEMMA OtherSlotOtherCycle ==
  ASSUME NEW s \in Int, NEW t \in Int, s # t, NEW e \in EntriesAt(s), NEW f \in EntriesAt(t)
  PROVE  DispatchOf(s, e) # DispatchOf(t, f)
<1> SUFFICES ASSUME e.layer = f.layer, s - e.lag = t - f.lag PROVE FALSE
  BY DEF DispatchOf
<1>1. e \in Timetable /\ f \in Timetable /\ e.lag \in Int /\ f.lag \in Int
  BY EntryTyped DEF EntriesAt
<1>2. e.lag = f.lag
  <2>1. CASE e.layer \in RegionalLayers
    <3>1. RegistryLag(e.layer)[HourOf(s - e.lag)] = e.lag
      BY <2>1, SlotHasCycle
    <3>2. RegistryLag(f.layer)[HourOf(t - f.lag)] = f.lag
      BY <2>1, SlotHasCycle
    <3>3. QED
      BY <3>1, <3>2
  <2>2. CASE e.layer \notin RegionalLayers
    BY <1>1, <2>2, LagOfLayer
  <2>3. QED
    BY <2>1, <2>2
<1>3. QED
  BY <1>1, <1>2

\* Until the fallback's next cycle its own is that of the last dispatch.
LateFallback == 344

\* Until the next cycle of the fallback, the one it asks for is that of its last slot.
LEMMA FallbackIsLast ==
  ASSUME NEW t \in Int, NEW e \in EntriesAt(t), e.layer = "ecmwf-short",
         NEW late \in 0..LateFallback
  PROVE  FallbackCycle(t + late) = t - e.lag
<1>1. e.lag = 375 /\ e.minute = 15 /\ e.hours = {0, 12} /\ t % 60 = 15 /\ HourOf(t) \in {0, 12}
  BY LagOfLayer DEF EntriesAt
<1>2. PICK day, m : IsMinute(t, day, m)
  BY DayAndMinute
<1>3. t = 1440 * day + m /\ day \in Int /\ m \in 0..1439 /\ m % 60 = 15 /\ m \div 60 \in {0, 12}
  <2>1. /\ t = 1440 * day + m /\ day \in Int /\ m \in 0..1439
        /\ t % 60 = m % 60 /\ HourOf(t) = m \div 60
    BY <1>2, Clock
  <2>2. QED
    BY <1>1, <2>1
<1>4. m \in {15, 735}
  BY <1>3
<1>5. IsMinute(t + late, day, m + late) /\ t + late \in Int
  BY <1>3, <1>4 DEF IsMinute, LateFallback
<1>6. HourOf(t + late) = (m + late) \div 60 /\ Midnight(t + late) = 1440 * day
  BY <1>5, Clock
<1>7. CASE m = 15
  <2>1. (m + late) \div 60 < 6 /\ (m + late) \div 60 \in Int
    BY <1>7 DEF LateFallback
  <2>2. QED
    BY <1>1, <1>3, <1>6, <1>7, <2>1 DEF FallbackCycle, Hm
<1>8. CASE m = 735
  <2>1. (m + late) \div 60 < 18 /\ (m + late) \div 60 >= 6 /\ (m + late) \div 60 \in Int
    BY <1>8 DEF LateFallback
  <2>2. QED
    BY <1>1, <1>3, <1>6, <1>8, <2>1 DEF FallbackCycle, Hm
<1>9. QED
  BY <1>4, <1>7, <1>8


-----------------------------------------------------------------------------
DueOf == {d \in DueAt(fire.cron + fire.late) : Selected(d)}
Making == posting.at \in {"post", "again", "ask"}

\* Whatever has been started, is due or is being made is due for the slot found, and each
\* dispatch due for it is one of these, or has failed.
DispInv ==
  /\ fire.late \in Delays /\ \E day \in 1..Days, m \in Crons : fire.cron = 1440 * day + m
  /\ posting = [dispatch |-> posting.dispatch, at |-> posting.at]
  /\ posting.at = "fire" => due = {} /\ started = {}
  /\ posting.at = "missed" => SlotAt(fire.cron + fire.late) = -1
  /\ started \cup due \subseteq DueOf
  /\ Making => posting.dispatch \in DueOf
  /\ posting.at # "fire" => \A d \in DueOf :
       d \in started \cup due \/ d.layer \in failedLayers \/ (Making /\ posting.dispatch = d)

\* The invariant holds initially.
LEMMA DispInitially == DispInit => DispInv
BY DEF DispInit, DispInv, NoPost, Making

\* Every step keeps the invariant.
LEMMA NextDispInv == DispInv /\ [DispNext]_dispVars => DispInv'
<1> SUFFICES ASSUME DispInv, [DispNext]_dispVars PROVE DispInv'
  OBVIOUS
<1> USE DEF DispInv
<1>1. /\ fire' = fire /\ DueOf' = DueOf
      /\ SlotAt(fire.cron + fire.late)' = SlotAt(fire.cron + fire.late)
  <2>1. fire' = fire
    BY DEF DispNext, Fire, Begin, Accepted, Rejected, Ask, Enable, AskFails, dispVars
  <2>2. QED
    BY <2>1 DEF DueOf, Selected
<1>2. CASE Fire
  <2>1. due' = DueOf /\ started' = started /\ posting.at = "fire"
    BY <1>2 DEF Fire, DueOf
  <2>2. posting' = [dispatch |-> NoPost.dispatch,
                    at |-> IF SlotAt(fire.cron + fire.late) = -1 THEN "missed" ELSE "idle"]
    BY <1>2 DEF Fire, NoPost
  <2>3. QED
    BY <1>1, <2>1, <2>2 DEF Making
<1>3. CASE Begin
  <2>1. PICK d \in due : posting' = [dispatch |-> d, at |-> "post"] /\ due' = due \ {d}
    BY <1>3 DEF Begin
  <2>2. posting.at = "idle" /\ started' = started /\ failedLayers' = failedLayers
    BY <1>3 DEF Begin
  <2>3. QED
    BY <1>1, <2>1, <2>2 DEF Making
<1>4. CASE Accepted
  <2>1. Making /\ started' = started \cup {posting.dispatch}
    BY <1>4 DEF Accepted, Making
  <2>2. due' = due /\ posting' = NoPost /\ failedLayers \subseteq failedLayers'
    BY <1>4 DEF Accepted, Fail, Failed
  <2>3. QED
    BY <1>1, <2>1, <2>2 DEF Making, NoPost
<1>5. CASE Rejected \/ AskFails
  <2>1. Making /\ started' = started /\ due' = due /\ posting' = NoPost
    BY <1>5 DEF Rejected, AskFails, Fail, Making
  <2>2. failedLayers' = failedLayers \cup {posting.dispatch.layer}
    BY <1>5 DEF Rejected, AskFails, Fail, Failed
  <2>3. QED
    BY <1>1, <2>1, <2>2 DEF Making, NoPost
<1>6. CASE Ask \/ Enable
  <2>1. Making /\ started' = started /\ due' = due /\ failedLayers' = failedLayers
    BY <1>6 DEF Ask, Enable, Making
  <2>2. posting'.dispatch = posting.dispatch /\ posting'.at \in {"again", "ask"}
        /\ posting' = [dispatch |-> posting'.dispatch, at |-> posting'.at]
    BY <1>6 DEF Ask, Enable
  <2>3. QED
    BY <1>1, <2>1, <2>2 DEF Making
<1>7. CASE UNCHANGED dispVars
  BY <1>1, <1>7 DEF dispVars, Making
<1>8. QED
  BY <1>2, <1>3, <1>4, <1>5, <1>6, <1>7 DEF DispNext

\* What the ingest reckons with agrees with the timetable.
LEMMA TablesAgree ==
  ASSUME DispInv, Delays \subseteq 0..LateFallback
  PROVE  TimetablesAgree
<1>1. fire.late \in 0..LateFallback /\ fire.cron \in Int
  <2>1. PICK day \in 1..Days, m \in Crons : fire.cron = 1440 * day + m
    BY DEF DispInv
  <2>2. m \in Int
    BY CronsAreSlots
  <2>3. QED
    BY <2>1, <2>2, DispatcherConstants DEF DispInv
<1> SUFFICES ASSUME NEW d \in OwnDue
             PROVE  /\ d.layer \in RegionalLayers =>
                         NextDispatch(d.layer, d.cycle) = NextOf(d.layer, fire.cron)
                    /\ d.layer = "ecmwf-short" => FallbackCycle(fire.cron + fire.late) = d.cycle
  BY DEF TimetablesAgree
<1>2. PICK e \in EntriesAt(fire.cron) : d = DispatchOf(fire.cron, e) /\ Selected(d)
  BY DEF OwnDue
<1>3. d.layer = e.layer /\ d.cycle = fire.cron - e.lag
  BY <1>2 DEF DispatchOf
<1>4. CASE d.layer \in RegionalLayers
  <2>1. fire.full \/ HourOf(fire.cron - e.lag) \in CanaryHours(d.layer)
    BY <1>2, <1>3, <1>4 DEF Selected
  <2>2. NextDispatch(d.layer, fire.cron - e.lag) = NextOf(d.layer, fire.cron)
    BY <1>1, <1>3, <1>4, <2>1, NextDispatchIsNext
  <2>3. d.layer # "ecmwf-short"
    BY <1>4 DEF RegionalLayers
  <2>4. QED
    BY <1>3, <2>2, <2>3
<1>5. CASE d.layer \notin RegionalLayers
  BY <1>1, <1>3, <1>5, FallbackIsLast
<1>6. QED
  BY <1>4, <1>5

\* The property follows from the invariant.
LEMMA SlotIsStarted ==
  ASSUME DispInv, Delays \subseteq 0..LateFallback
  PROVE  StartsItsSlot
<1>1. PICK day \in 1..Days, m \in Crons : fire.cron = 1440 * day + m
  BY DEF DispInv
<1>2. IsMinute(fire.cron, day, m) /\ day \in Nat \ {0} /\ fire.cron \in Int /\ fire.cron >= 0
  <2>1. m \in 0..1439
    BY CronsAreSlots
  <2>2. day \in Nat \ {0}
    BY DispatcherConstants
  <2>3. QED
    BY <1>1, <2>1, <2>2 DEF IsMinute
<1>3. EntriesAt(fire.cron) # {}
  BY <1>2, CronHasEntry
<1>4. fire.late \in Nat
  BY DispatcherConstants DEF DispInv
<1>5. CASE fire.late <= MaxLate
  <2>1. SlotAt(fire.cron + fire.late) = fire.cron
    <3>1. fire.late \in 0..MaxLate
      BY <1>4, <1>5 DEF MaxLate
    <3>2. QED
      BY <1>2, <3>1, OwnSlot
  <2>2. DueOf = OwnDue
    BY <1>2, <2>1 DEF DueOf, DueAt, OwnDue
  <2>3. /\ posting.at # "missed" /\ started \cup due \subseteq OwnDue
        /\ posting.at = "idle" /\ due = {} =>
             \A d \in OwnDue : d \in started \/ d.layer \in failedLayers
    BY <1>2, <2>1, <2>2 DEF DispInv, Making
  <2>4. QED
    BY <1>5, <2>3, TablesAgree DEF StartsItsSlot
<1>6. CASE fire.late > MaxLate
  <2> DEFINE slot == SlotAt(fire.cron + fire.late)
  <2>1. slot = -1 \/ (slot \in Int /\ slot > fire.cron)
    <3>1. fire.cron + fire.late \in Int
      BY <1>2, <1>4
    <3>2. slot \in ((fire.cron + fire.late) - MaxLate)..(fire.cron + fire.late) \cup {-1}
          /\ slot \in Int
      BY <3>1, LatestSlot
    <3> HIDE DEF slot
    <3>3. QED
      BY <1>2, <1>4, <1>6, <3>2 DEF MaxLate
  <2>2. ASSUME NEW d \in DueOf PROVE d \notin OwnDue
    <3>1. slot # -1
      BY <2>2 DEF DueOf, DueAt
    <3>2. PICK e \in EntriesAt(slot) : d = DispatchOf(slot, e)
      BY <2>2, <3>1 DEF DueOf, DueAt
    <3>3. ASSUME NEW f \in EntriesAt(fire.cron) PROVE d # DispatchOf(fire.cron, f)
      <4> HIDE DEF slot
      <4>1. QED
        BY <1>2, <2>1, <3>1, <3>2, OtherSlotOtherCycle
    <3>4. QED
      BY <3>3 DEF OwnDue
  <2>3. \A d \in started \cup due : d \notin OwnDue
    BY <2>2 DEF DispInv
  <2>4. ~(fire.late <= MaxLate)
    BY <1>4, <1>6 DEF MaxLate
  <2>5. QED
    BY <2>3, <2>4, TablesAgree DEF StartsItsSlot
<1>7. QED
  BY <1>4, <1>5, <1>6 DEF MaxLate

\* A fire in time starts what its own minute is for, a failure keeps no other dispatch from
\* being made, and a late fire starts nothing of its own minute; the three timetables agree.
\* For any days and choice of regional models, and any delays up to 344 minutes: a fire of
\* 00:15 or 12:15 as late as that still falls before the hour at which the fallback of the
\* short ECMWF run turns to its next cycle.
THEOREM FiresStartTheirSlot ==
  ASSUME Delays \subseteq 0..LateFallback
  PROVE  DispSpec => []StartsItsSlot
BY DispInitially, NextDispInv, SlotIsStarted, PTL DEF DispSpec

=============================================================================
